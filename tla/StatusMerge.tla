----------------------------- MODULE StatusMerge -----------------------------
(***************************************************************************)
(* The status side of the C++ bridge.  The thermostat publishes, besides   *)
(* "LCC Zone Status", a dozen per-system status topics.  Every round of    *)
(* the main loop takes what arrived on each of them, in a fixed order, and *)
(* updates the g_* maps; then it takes the zone samples and prints each    *)
(* one merged with all that is known of its system.                        *)
(*                                                                         *)
(* A sample is about a topic, a system and an id, which are the keys of    *)
(* its DDS instance, except that systemConfigStatus has no @key at all: it *)
(* is one instance for every system.  Writers and readers are RELIABLE,    *)
(* TRANSIENT_LOCAL, KEEP_LAST 1: a reader gets the samples of one instance *)
(* in order, may miss all but the last, and gets the last one again when   *)
(* it joins late.  Nothing orders two instances.                           *)
(***************************************************************************)
EXTENDS Naturals, Sequences, FiniteSets

CONSTANTS
    Subjects,     \* records [topic, sys, id]: what the device publishes about
    Absent,       \* no entry in a map, no sample in a reader or a writer
    Values,       \* payloads; 0 is "inactive", "resolved", "false"
    ClearsOn,     \* ClearsOn[a]: topics on which the device announces the end of a
    Returning,    \* alerts that may come back under their old id
    ReaderSets,   \* the sets of readers that may initialise at a start
    MaxChanges, MaxRestarts     \* bounds of a run

\* One round of main's loop: the order of the polls, AlertReader::poll taking
\* from its two readers in turn, and take_and_print.
M_ZonesFirst == <<"zone", "away", "active", "cleared", "reminder", "weather", "smartAway",
                  "system", "config", "ocstEvent", "ocstEnroll", "sensor">>
PollOrder == <<"away", "active", "cleared", "reminder", "weather", "smartAway",
               "system", "config", "ocstEvent", "ocstEnroll", "sensor", "zone">>
Topics    == {"away", "active", "cleared", "reminder", "weather", "smartAway",
              "system", "config", "ocstEvent", "ocstEnroll", "sensor", "zone"}

\* Topics whose maps lose the entry of an inactive sample.
Erasing == {"active", "reminder", "sensor"}

Of(t)     == {i \in Subjects : i.topic = t}
Zones     == Of("zone")
Alerts    == Of("active")
Enders    == Of("cleared")
EndOf(a)  == [a EXCEPT !.topic = "cleared"]

\* Subjects of one DDS instance.
SameInstance(i, j) == i = j \/ (i.topic = "config" /\ j.topic = "config")

\* The entry of a g_* map that a sample about i goes to: demand-response events
\* have an id in DDS and none in g_ocst_event.
EntryOf(i) == IF i.topic = "ocstEvent" THEN [i EXCEPT !.id = 0] ELSE i
Facts      == {EntryOf(i) : i \in Subjects \ (Zones \cup Enders)}
From(e)    == {i \in Subjects : EntryOf(i) = e}

ASSUME ConstantsAssumption ==
    /\ \A i \in Subjects : /\ i = [topic |-> i.topic, sys |-> i.sys, id |-> i.id]
                           /\ i.topic \in Topics
    /\ \A a \in Alerts : EndOf(a) \in Subjects
    /\ \A e \in Enders : [e EXCEPT !.topic = "active"] \in Subjects
    /\ Values \subseteq Nat /\ {0, 1} \subseteq Values /\ Absent \notin Nat
    /\ ClearsOn \in [Alerts -> (SUBSET {"active", "cleared"}) \ {{}}]
    /\ Returning \subseteq Alerts
    /\ ReaderSets \subseteq SUBSET Topics /\ \A r \in ReaderSets : "zone" \in r
    /\ MaxChanges \in Nat /\ MaxRestarts \in Nat

VARIABLES
    raised,    \* alerts that are on at the device
    past,      \* alerts that were on at some time
    hist,      \* hist[i]: the last sample the device wrote about i
    kept,      \* subjects whose last sample the writer still holds
    late,      \* subjects whose last sample did not arrive yet
    box,       \* box[i]: the sample about i waiting in our reader
    readers,   \* topics whose reader initialised; {} while the process is down
    stage,     \* position in PollOrder of the next poll; 0 in ws->wait
    known,     \* known[e]: entry e of the g_* maps
    taken,     \* history: the topic of the sample about an alert that was taken last
    emitted,   \* emitted[z]: facts merged into the last sample printed for z
    due,       \* history: subjects that had a sample waiting when the loop woke, and
               \* have not been polled since
    counts     \* changes at the device and restarts so far

dds  == <<hist, kept, late>>
vars == <<raised, past, dds, box, readers, stage, known, taken, emitted, due, counts>>

FactsOf(s) == {e \in Facts : e.sys = s}

-----------------------------------------------------------------------------
(* The device and the transport.                                           *)

\* Those of S whose sample is not replaced by samples about D.
Outlives(S, D) == {j \in S : \A i \in D : ~SameInstance(i, j)}

Write(samples) ==    \* samples: a function from subjects to values
    /\ hist' = [i \in Subjects |-> IF i \in DOMAIN samples THEN samples[i] ELSE hist[i]]
    /\ kept' = Outlives(kept, DOMAIN samples) \cup DOMAIN samples
    /\ late' = Outlives(late, DOMAIN samples) \cup DOMAIN samples
    /\ UNCHANGED <<box, readers, stage, known, taken, emitted, due>>

Counted == /\ counts.changes < MaxChanges
           /\ counts' = [counts EXCEPT !.changes = @ + 1]

Raise(a) ==
    /\ Counted
    /\ a \notin raised /\ (a \in past => a \in Returning)
    /\ raised' = raised \cup {a}
    /\ past'   = past \cup {a}
    /\ Write([i \in {a} |-> 1])

Clear(a) ==
    /\ Counted
    /\ a \in raised
    /\ raised' = raised \ {a}
    /\ Write([i \in {j \in {a, EndOf(a)} : j.topic \in ClearsOn[a]} |->
                 IF i.topic = "active" THEN 0 ELSE 1])
    /\ UNCHANGED past

\* Any other status topic publishes a new value.
Change(i, v) ==
    /\ Counted
    /\ i \notin Zones \cup Enders \cup Alerts /\ hist[i] # v
    /\ Write([j \in {i} |-> v])
    /\ UNCHANGED <<raised, past>>

\* A zone publishes; its own readings are not kept here.
PublishZone(z) ==
    /\ z \notin late
    /\ Write([j \in {z} |-> 1])
    /\ UNCHANGED <<raised, past, counts>>

\* The last sample of an instance reaches our reader, replacing the one there.
Arrive(i) ==
    /\ i \in late /\ i.topic \in readers
    /\ box'   = [j \in Subjects |-> IF j = i THEN hist[i]
                                    ELSE IF SameInstance(i, j) THEN Absent ELSE box[j]]
    /\ late'  = late \ {i}
    /\ UNCHANGED <<raised, past, hist, kept, readers, stage, known, taken, emitted, due, counts>>

-----------------------------------------------------------------------------
(* The process.                                                            *)

\* main creates the readers, each best effort; the maps are empty and the late
\* joiner is owed the last sample of every instance.
Launch ==
    /\ readers = {}
    /\ readers' \in ReaderSets
    /\ late' = kept
    /\ UNCHANGED <<raised, past, hist, kept, box, stage, known, taken, emitted, due, counts>>

Exit ==
    /\ readers # {}
    /\ counts.restarts < MaxRestarts
    /\ counts'  = [counts EXCEPT !.restarts = @ + 1]
    /\ readers' = {}
    /\ box'     = [i \in Subjects |-> Absent]
    /\ known'   = [e \in Facts |-> Absent]
    /\ taken'   = [a \in Alerts |-> "none"]
    /\ stage'   = 0
    /\ due'     = {}
    /\ UNCHANGED <<raised, past, dds, emitted>>

\* The next poll, or the end of the round.  A poll of a topic on which the device
\* publishes nothing is passed over, since it finds nothing.
Idle(from, to) == \A p \in from..to : Of(PollOrder[p]) = {}
Onward ==
    \/ /\ stage' \in (stage + 1)..Len(PollOrder) /\ Of(PollOrder[stage']) # {}
       /\ Idle(stage + 1, stage' - 1)
    \/ stage' = 0 /\ Idle(stage + 1, Len(PollOrder))

\* ws->wait returns: a zone sample is there, or one second went by.
Wake ==
    /\ readers # {} /\ stage = 0
    /\ Onward
    /\ due' = {i \in Subjects \ Zones : box[i] # Absent}
    /\ UNCHANGED <<raised, past, dds, box, readers, known, taken, emitted, counts>>

\* What becomes of an entry that gets value v from topic t.
M_NeverErased(t, v) == v
Stored(t, v) == IF t \in Erasing /\ v = 0 THEN Absent ELSE v

\* What a poll of topic t finds in its reader, and the entries concerned.
InReader(t) == {i \in Of(t) : box[i] # Absent}
Concerned(t) == {EntryOf(i) : i \in InReader(t)}

\* The maps after taking topic t: last[e] is the last sample for e that take
\* returned, and a sample of "LCC Alert Cleared" erases the alert with its id.
M_ClearedIgnored(t, last) ==
    [e \in Facts |-> IF e \in DOMAIN last THEN Stored(t, box[last[e]]) ELSE known[e]]
KnownAfter(t, last) ==
    [e \in Facts |->
        IF e \in DOMAIN last THEN Stored(t, box[last[e]])
        ELSE IF t = "cleared" /\ e \in Alerts /\ box[EndOf(e)] # Absent THEN Absent
        ELSE known[e]]

\* One poll takes everything its reader holds; take orders the samples of
\* different instances as it likes.
Poll(t) ==
    /\ stage \in 1..Len(PollOrder) /\ PollOrder[stage] = t /\ t # "zone"
    /\ \E last \in [Concerned(t) -> InReader(t)] :
          /\ \A e \in Concerned(t) : EntryOf(last[e]) = e
          /\ known' = KnownAfter(t, last)
    /\ taken' = [a \in Alerts |-> IF \E i \in {a, EndOf(a)} : i.topic = t /\ box[i] # Absent
                                  THEN t ELSE taken[a]]
    /\ box'   = [i \in Subjects |-> IF i.topic = t THEN Absent ELSE box[i]]
    /\ Onward
    /\ due'   = due \ Of(t)
    /\ UNCHANGED <<raised, past, dds, readers, emitted, counts>>

\* take_and_print: print_sample_json merges what is known of the zone's system.
TakeAndPrint ==
    /\ stage \in 1..Len(PollOrder) /\ PollOrder[stage] = "zone"
    /\ emitted' = [z \in Zones |-> IF box[z] # Absent
                                   THEN [e \in FactsOf(z.sys) |-> known[e]]
                                   ELSE emitted[z]]
    /\ box'   = [i \in Subjects |-> IF i \in Zones THEN Absent ELSE box[i]]
    /\ Onward
    /\ UNCHANGED <<raised, past, dds, readers, known, taken, due, counts>>

-----------------------------------------------------------------------------
Init ==
    /\ raised = {} /\ past = {}
    /\ hist = [i \in Subjects |-> Absent] /\ kept = {} /\ late = {}
    /\ box = [i \in Subjects |-> Absent]
    /\ readers = {} /\ stage = 0 /\ due = {}
    /\ known = [e \in Facts |-> Absent]
    /\ taken = [a \in Alerts |-> "none"]
    /\ emitted = [z \in Zones |-> [e \in FactsOf(z.sys) |-> Absent]]
    /\ counts = [changes |-> 0, restarts |-> 0]

MainLoop == Wake \/ TakeAndPrint \/ \E t \in Topics : Poll(t)
Device == \/ \E a \in Alerts : Raise(a) \/ Clear(a)
          \/ \E i \in Subjects, v \in Values : Change(i, v)
          \/ \E z \in Zones : PublishZone(z)

Next == MainLoop \/ Device \/ Launch \/ Exit \/ \E i \in Subjects : Arrive(i)

Spec == Init /\ [][Next]_vars

\* The loop never blocks longer than a second, DDS is reliable, bridge_server
\* relaunches the process, and every zone publishes again and again.
Fairness == /\ WF_vars(MainLoop) /\ WF_vars(Launch)
            /\ \A i \in Subjects : WF_vars(Arrive(i))
            /\ \A z \in Zones : WF_vars(PublishZone(z))
FairSpec == Spec /\ Fairness

-----------------------------------------------------------------------------
Entry == Values \cup {Absent}

\* Values of the right kinds; what is still to arrive is held by the device's writer,
\* and no map keeps an entry whose topic called it inactive (559, 616, 844).
TypeOK ==
    /\ raised \in SUBSET past /\ past \in SUBSET Alerts
    /\ hist \in [Subjects -> Entry] /\ box \in [Subjects -> Entry]
    /\ kept \in SUBSET Subjects /\ late \in SUBSET kept /\ due \in SUBSET (Subjects \ Zones)
    /\ \A i \in kept : hist[i] # Absent
    /\ readers \in ReaderSets \cup {{}}
    /\ stage \in 0..Len(PollOrder)
    /\ known \in [Facts -> Entry]
    /\ \A e \in Facts : e.topic \in Erasing => known[e] # 0
    /\ taken \in [Alerts -> {"none", "active", "cleared"}]
    /\ \A z \in Zones : emitted[z] \in [FactsOf(z.sys) -> Entry]
    /\ counts \in [changes : Nat, restarts : Nat]

\* What the device says of entry e: of an alert, whether it is on; of the events
\* of a system, what it said last of one of them.
Said(e)    == {i \in From(e) : hist[i] # Absent}
Answers(e) ==
    IF e \in Alerts THEN {IF e \in raised THEN 1 ELSE Absent}
    ELSE IF Said(e) = {} THEN {Absent}
    ELSE {Stored(e.topic, hist[i]) : i \in Said(e)}

\* What the device said of alert a last was also taken last.  Its end counts as
\* such on either topic, and when LCC Alert Active tells it, in any order.
InTurn(a) ==
    IF a \in raised THEN taken[a] = "active"
    ELSE a \in past => taken[a] = "cleared" \/ "active" \in ClearsOn[a]

\* Entries that can be right: there is a reader, no other system's configuration
\* took the place of what the device said, and an alert's samples did not cross.
Followed(e) ==
    /\ e.topic \in readers
    /\ Said(e) \subseteq kept
    /\ e \in Alerts => InTurn(e)

\* Everything the device wrote about facts was taken.
Quiet == \A i \in Subjects \ Zones :
            i.topic \in readers => i \notin late /\ box[i] = Absent

\* Once every sample was taken the maps agree with the device, across restarts,
\* late joins and missing readers: every alert, reminder and object is as the
\* device says, of several events of a system one is, and an alert that ended is
\* gone whether "LCC Alert Active" or only "LCC Alert Cleared" told so.  Excepted is
\* an alert of which the older of two samples was taken after the newer one: it may
\* be hidden (NoFaultHidden), or stay although it ended.
StatusCurrent ==
    Quiet => \A e \in Facts : Followed(e) => known[e] \in Answers(e)

\* "refresh ... before printing" (main 1190-1191): whatever had arrived on a
\* status topic when the loop woke is part of the samples the round prints.
PrintsRefreshed ==
    stage \in 1..Len(PollOrder) /\ PollOrder[stage] = "zone" => due = {}

\* When the device stops changing, the last sample of every zone comes to carry
\* all that our readers can take of it, and from then on always does.
StatusEmitted ==
    <>[](\A z \in Zones : \A e \in FactsOf(z.sys) :
            Followed(e) => emitted[z][e] \in Answers(e))

\* "keep g_alerts current so active faults reach the integration" (AlertReader):
\* an alert that is on is known once every sample was taken.
NoFaultHidden == Quiet => \A a \in raised : "active" \in readers => known[a] # Absent
=============================================================================
