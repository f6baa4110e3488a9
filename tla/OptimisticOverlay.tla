--------------------------- MODULE OptimisticOverlay ---------------------------
(***************************************************************************)
(* M30Climate of climate.py, the thermostat card of one zone.  A command   *)
(* takes minutes to come back as a status sample, so the entity lays the   *)
(* values it asked for over the device's: _pending[f] is shown until the   *)
(* device reports it or _OPTIMISTIC_TTL has passed.  Nothing runs when the *)
(* TTL passes: the overlay is looked at when the state is written to Home  *)
(* Assistant, upon a sample or a command, and only for the fields the      *)
(* card shows in its mode.                                                 *)
(***************************************************************************)
EXTENDS Naturals, Sequences, FiniteSets

CONSTANTS
    Degrees,      \* setpoints, whole degrees Fahrenheit
    Modes,        \* systemMode codes in use, of 0..4
    None,
    TTL,          \* _OPTIMISTIC_TTL in ticks
    SampleEvery,  \* ticks within which the device publishes
    Regular,      \* the device keeps to SampleEvery
    Clamps,       \* the device may bring a setpoint into its own range
    LinkFails,    \* async_send_command may raise
    MaxAsks, MaxEdits       \* bounds of a run

Fields    == {"systemMode", "hsp", "csp", "sp"}
Setpoints == Fields \ {"systemMode"}
Domain(f) == IF f = "systemMode" THEN Modes ELSE Degrees

ASSUME ConstantsAssumption ==
    /\ Degrees \subseteq Nat /\ Degrees # {} /\ Modes \subseteq 0..4 /\ {0, 1} \subseteq Modes
    /\ None \notin [val : Degrees \cup Modes, age : 0..(TTL + 1)]
    /\ TTL \in Nat \ {0} /\ SampleEvery \in Nat \ {0}
    /\ {Regular, Clamps, LinkFails} \subseteq BOOLEAN
    /\ MaxAsks \in Nat /\ MaxEdits \in Nat

VARIABLES
    device,    \* period of the zone at the thermostat
    wire,      \* commands that were sent and not applied, oldest first
    sample,    \* coordinator.data: the period reported last
    quiet,     \* ticks since that report, up to SampleEvery
    pending,   \* _pending[f]: the value asked for and its age, up to TTL + 1
    card,      \* what Home Assistant shows: a mode, and the setpoints it goes with
    asked,     \* history: the last value asked per field, its age, whether it is on the
               \* wire, whether all was calm then and nobody turned the thermostat since
    counts

vars == <<device, wire, sample, quiet, pending, card, asked, counts>>

Period == [f \in Fields |-> IF f = "systemMode" THEN 1 ELSE CHOOSE d \in Degrees : TRUE]

-----------------------------------------------------------------------------
(* The properties of the entity, as functions of its overlay p and sample s *)

\* _eff drops a pending value that the device reports, or that is too old.
M_NeverExpires(p, s, f) == p[f] # None /\ s[f] = p[f].val
M_DropsAtOnce(p, s, f)  == p[f] # None
Over(p, s, f) == p[f] # None /\ (s[f] = p[f].val \/ p[f].age > TTL)

\* _eff: the value shown for a field.
Eff(p, s, f) == IF p[f] = None \/ Over(p, s, f) THEN s[f] ELSE p[f].val

M_NoEmergencyHeat(p, s) == Eff(p, s, "systemMode")

\* hvac_mode: SYSTEM_MODE_TO_HVAC, emergency heat shown as heat.
HvacMode(p, s) == IF Eff(p, s, "systemMode") = 4 THEN 1 ELSE Eff(p, s, "systemMode")

\* Setpoints the card has in a mode: target_temperature, or low and high.
ShownIn(mode) == CASE mode = 1 -> {"hsp"}
                   [] mode = 2 -> {"csp"}
                   [] mode = 3 -> {"hsp", "csp"}
                   [] OTHER    -> {"sp"}

\* The overlay after _eff was evaluated for every field in fs.
Looked(p, s, fs) == [f \in Fields |-> IF f \in fs /\ Over(p, s, f) THEN None ELSE p[f]]

\* async_write_ha_state evaluates hvac_mode and what goes with it.
WriteState(p, s) ==
    LET shown == ShownIn(HvacMode(p, s))
    IN  /\ pending' = Looked(p, s, shown \cup {"systemMode"})
        /\ card' = [mode |-> HvacMode(p, s), val |-> [f \in shown |-> Eff(p, s, f)]]

-----------------------------------------------------------------------------
(* The device, the wire and the clock.                                     *)

Aged(r, bound) == [r EXCEPT !.age = IF @ < bound THEN @ + 1 ELSE @]
AgeBound == TTL + SampleEvery + 1

Tick ==
    /\ Regular => quiet < SampleEvery
    /\ quiet' = IF quiet < SampleEvery THEN quiet + 1 ELSE quiet
    /\ pending' = [f \in Fields |-> IF pending[f] = None THEN None ELSE Aged(pending[f], TTL + 1)]
    /\ asked'   = [f \in Fields |-> Aged(asked[f], AgeBound)]
    /\ UNCHANGED <<device, wire, sample, card, counts>>

\* A sample arrives: async_set_updated_data has every entity write its state.
Sample ==
    /\ sample' = device
    /\ quiet' = 0
    /\ WriteState(pending, device)
    /\ UNCHANGED <<device, wire, asked, counts>>

\* The device applies the oldest command, a setpoint possibly in its own range.
Apply ==
    /\ wire # <<>>
    /\ \E v \in [DOMAIN Head(wire) -> UNION {Degrees, Modes}] :
          /\ \A f \in DOMAIN v : v[f] = Head(wire)[f] \/ (Clamps /\ f \in Setpoints /\ v[f] \in Degrees)
          /\ device' = [f \in Fields |-> IF f \in DOMAIN v THEN v[f] ELSE device[f]]
    /\ wire'  = Tail(wire)
    /\ asked' = [f \in Fields |-> IF \E i \in DOMAIN Tail(wire) : f \in DOMAIN wire[i + 1]
                                  THEN asked[f] ELSE [asked[f] EXCEPT !.sent = FALSE]]
    /\ UNCHANGED <<sample, quiet, pending, card, counts>>

\* Someone turns the thermostat itself.
Edit(f, v) ==
    /\ counts.edits < MaxEdits
    /\ counts' = [counts EXCEPT !.edits = @ + 1]
    /\ device' = [device EXCEPT ![f] = v]
    /\ asked'  = [asked EXCEPT ![f].calm = FALSE]
    /\ UNCHANGED <<wire, sample, quiet, pending, card>>

-----------------------------------------------------------------------------
(* async_set_temperature, async_set_hvac_mode.                             *)

\* The card and the device agree and nothing is under way.
Settled == wire = <<>> /\ sample = device /\ \A f \in Fields : pending[f] = None

M_OneClock(p, cmd) ==
    [f \in Fields |-> IF f \in DOMAIN cmd THEN [val |-> cmd[f], age |-> 0]
                      ELSE IF p[f] # None THEN [val |-> p[f].val, age |-> 0] ELSE None]

\* _set_pending: the fields of the command are stamped with this moment.
Stamped(p, cmd) ==
    [f \in Fields |-> IF f \in DOMAIN cmd THEN [val |-> cmd[f], age |-> 0] ELSE p[f]]

\* _set_pending on overlay p, then async_send_command, which may raise.
AskOn(p, cmd) ==
    /\ counts.asks < MaxAsks
    /\ counts' = [counts EXCEPT !.asks = @ + 1]
    /\ WriteState(Stamped(p, cmd), sample)
    /\ \E sent \in {TRUE} \cup (IF LinkFails THEN {FALSE} ELSE {}) :
          /\ wire'  = IF sent THEN Append(wire, cmd) ELSE wire
          /\ asked' = [f \in Fields |-> IF f \in DOMAIN cmd
                                        THEN [val |-> cmd[f], age |-> 0, sent |-> sent,
                                              calm |-> Settled]
                                        ELSE asked[f]]
    /\ UNCHANGED <<device, sample, quiet>>

SetMode(m) == AskOn(pending, [f \in {"systemMode"} |-> m])

\* supported_features: Home Assistant asks for a range in heat_cool only.
Ranged == HvacMode(pending, sample) = 3

\* Target temperature low and high.
SetRange(lo, hi) ==
    Ranged /\ AskOn(pending, [f \in {"hsp", "csp"} |-> IF f = "hsp" THEN lo ELSE hi])

M_DeviceMode(v) ==
    ~Ranged /\
    AskOn(pending, [f \in CASE sample["systemMode"] = 1 -> {"hsp"}
                        [] sample["systemMode"] = 2 -> {"csp"}
                        [] OTHER -> {"sp"} |-> v])

\* One temperature goes to the setpoint of the mode, which hvac_mode looks up.
SetTemperature(v) ==
    ~Ranged /\
    AskOn(Looked(pending, sample, {"systemMode"}),
          [f \in CASE HvacMode(pending, sample) = 1 -> {"hsp"}
                   [] HvacMode(pending, sample) = 2 -> {"csp"}
                   [] OTHER -> {"sp"} |-> v])

-----------------------------------------------------------------------------
Init ==
    /\ device = Period /\ sample = Period /\ wire = <<>>
    /\ quiet = 0
    /\ pending = [f \in Fields |-> None]
    /\ card = [mode |-> 1, val |-> [f \in {"hsp"} |-> Period["hsp"]]]
    /\ asked = [f \in Fields |->
                  [val |-> Period[f], age |-> AgeBound, sent |-> FALSE, calm |-> FALSE]]
    /\ counts = [asks |-> 0, edits |-> 0]

Ask == \/ \E m \in Modes \ {4} : SetMode(m)
       \/ \E v \in Degrees : SetTemperature(v)
       \/ \E lo, hi \in Degrees : SetRange(lo, hi)

Next == Tick \/ Sample \/ Apply \/ Ask \/ \E f \in Fields : \E v \in Domain(f) : Edit(f, v)

Spec == Init /\ [][Next]_vars

\* Time passes, the device applies what it got and reports again and again.
FairSpec == Spec /\ WF_vars(Tick) /\ WF_vars(Sample) /\ WF_vars(Apply)

-----------------------------------------------------------------------------
Overlay == [val : Degrees \cup Modes, age : 0..(TTL + 1)]

\* Values of the right kinds; the card has the setpoints of its mode and no other
\* (climate.py 107-160).
TypeOK ==
    /\ device \in [Fields -> Degrees \cup Modes] /\ sample \in [Fields -> Degrees \cup Modes]
    /\ \A i \in DOMAIN wire : DOMAIN wire[i] \subseteq Fields
    /\ quiet \in 0..SampleEvery
    /\ pending \in [Fields -> Overlay \cup {None}]
    /\ card.mode \in 0..3 /\ DOMAIN card.val = ShownIn(card.mode)
    /\ \A f \in DOMAIN card.val : card.val[f] \in Degrees
    /\ asked \in [Fields -> [val : Degrees \cup Modes, age : 0..AgeBound, sent : BOOLEAN,
                            calm : BOOLEAN]]
    /\ counts \in [asks : Nat, edits : Nat]

Shows(f) == IF f = "systemMode" THEN card.mode ELSE card.val[f]
Reported(f) == IF f = "systemMode" THEN HvacMode([g \in Fields |-> None], sample) ELSE sample[f]
OnCard == DOMAIN card.val \cup {"systemMode"}

\* The card differs from the device's last report only for a value asked for not
\* longer ago than the TTL and one sample period: also when the command never
\* left, was clamped, or the field was hidden while its overlay grew old.
OverlayExpires ==
    \A f \in OnCard : Shows(f) # Reported(f) => asked[f].age <= TTL + SampleEvery

\* A value that was sent stays on the card until the device applied it or the TTL
\* passed: no sample and no other request makes it flicker.
Kept(f) == asked[f].sent /\ asked[f].age <= TTL => Shows(f) = asked[f].val

\* So it is for a user who asks when the card and the device agree, until somebody
\* turns the thermostat itself, whatever is asked of the other fields meanwhile.
NoFlicker == \A f \in OnCard : asked[f].calm => Kept(f)

\* One temperature is asked for the setpoint of the mode on the card, also before
\* the device knows of that mode (async_set_temperature 186-193).  Only between
\* the end of the mode's TTL and the next sample the two may differ.
AsksInShownMode ==
    [][\A v \in Degrees :
          SetTemperature(v) /\ asked["systemMode"].age \notin (TTL + 1)..(TTL + SampleEvery) =>
          \A f \in Setpoints : asked'[f] # asked[f] => f \in DOMAIN card.val]_vars

\* Once the user is done the card ends up, and stays, at what the device reports.
SettlesOnDevice ==
    <>[](\A f \in OnCard : Shows(f) = Reported(f) /\ sample = device)
=============================================================================
