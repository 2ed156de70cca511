-------------------------------- MODULE UiPump --------------------------------
(***************************************************************************)
(* The publishing half of the UI connector (crates/taktora-connector-ui)   *)
(* and the clients that watch it (crates/taktora-connector-ui-client).     *)
(* The application sets a Property through a seqlock cell of two words     *)
(* (property.rs, cell.rs) and flips a CanExecute gate (command.rs); the    *)
(* pump thread (pump.rs) walks its entries once a tick - the property, the *)
(* gate, the heartbeat that no one need subscribe to (system.rs) - and     *)
(* publishes what changed (iox_publisher.rs), its outcome feeds the health *)
(* (health.rs), and connector.rs starts and stops it.  A client drains its *)
(* queue to the newest sample.  Memory accesses of the cell are            *)
(* sequentially consistent, as its fences make them.                       *)
(***************************************************************************)
EXTENDS Naturals, Sequences, FiniteSets, ConnectorCore

CONSTANTS
    Clients,
    Script,             \* the values the application sets, in order
    None,               \* no value: an Option::None
    ReadRetryLimit,     \* READ_RETRY_LIMIT
    MaxUpsets           \* flips of the gate, failed publications, clients that come or go

VARIABLES
    cell,               \* SeqlockBytes
    setter,             \* the application inside Property::set
    gate,               \* CanExecute.flag
    pump,               \* the pump thread
    last,               \* per entry: the last value its encode closure saw
    had_subscribers,
    subs,               \* per entry: the subscribed clients
    inbox,              \* per entry and client: the newest sample not yet drained
    view,               \* per entry and client: what poll_* last returned
    retained,           \* per entry: the sample published last
    health, registered, stop,
    bounds,
    due,                \* history: the value a final drain owes the watchers
    late                \* history: per client, the entries it joined behind others

cellVars == <<cell, setter, gate>>
pumpVars == <<pump, last, had_subscribers, retained>>
clientVars == <<subs, inbox, view>>
vars == <<cellVars, pumpVars, clientVars, health, registered, stop, bounds, due, late>>

Entries == <<"vm", "can", "system">>
Watched == {"vm", "can"}
Init ==
    /\ cell = [seq |-> 0, writing |-> FALSE, words |-> <<None, None>>]
    /\ setter = [pc |-> "idle", value |-> None]
    /\ gate = "yes"
    /\ pump = [pc |-> "new", at |-> 1, s1 |-> 0, copy |-> <<None, None>>, tries |-> 0,
               stopping |-> FALSE, errors |-> FALSE]
    /\ last = [e \in Watched |-> None]
    /\ had_subscribers = [e \in Watched |-> FALSE]
    /\ subs = [e \in Watched |-> {}]
    /\ inbox = [e \in Watched |-> [u \in Clients |-> None]]
    /\ view = [e \in Watched |-> [u \in Clients |-> None]]
    /\ retained = [e \in Watched |-> None]
    /\ health = "Connecting"
    /\ registered = "no"
    /\ stop = FALSE
    /\ bounds = [sets |-> 0, failures |-> 0, upsets |-> 0]
    /\ due = None
    /\ late = [u \in Clients |-> {}]

Upset(failures) ==
    /\ bounds.upsets < MaxUpsets
    /\ bounds' = [bounds EXCEPT !.upsets = @ + 1, !.failures = @ + failures]

-----------------------------------------------------------------------------
(* The application. *)

(* Property::set up to the WRITING marker. *)
set ==
    /\ setter.pc = "idle" /\ bounds.sets < Len(Script)
    /\ cell' = [cell EXCEPT !.seq = @ + 1, !.writing = TRUE]
    /\ setter' = [pc |-> "first", value |-> Script[bounds.sets + 1]]
    /\ due' = None
    /\ bounds' = [bounds EXCEPT !.sets = @ + 1]
    /\ UNCHANGED <<gate, pumpVars, clientVars, health, registered, stop, late>>

(* The payload is copied word by word, then the sequence is published. *)
write ==
    /\ setter.pc # "idle"
    /\ \/ /\ setter.pc = "first"
          /\ cell' = [cell EXCEPT !.words[1] = setter.value]
          /\ setter' = [setter EXCEPT !.pc = "second"]
       \/ /\ setter.pc = "second"
          /\ cell' = [cell EXCEPT !.words[2] = setter.value]
          /\ setter' = [setter EXCEPT !.pc = "publish"]
       \/ /\ setter.pc = "publish"
          /\ cell' = [cell EXCEPT !.writing = FALSE]
          /\ setter' = [pc |-> "idle", value |-> None]
    /\ UNCHANGED <<gate, pumpVars, clientVars, health, registered, stop, bounds, due, late>>

(* CanExecute::set *)
SetGate ==
    /\ Upset(0)
    /\ gate' = IF gate = "yes" THEN "no" ELSE "yes"
    /\ UNCHANGED <<cell, setter, pumpVars, clientVars, health, registered, stop, due, late>>

(* register_with spawns the pump, whose first tick may come before the     *)
(* mark_running that follows.                                              *)
register_with ==
    /\ registered = "no"
    /\ registered' = "spawned"
    /\ pump' = [pump EXCEPT !.pc = "tick"]
    /\ UNCHANGED <<cellVars, last, had_subscribers, retained, clientVars, health, stop, bounds, due, late>>

mark_running ==
    /\ registered = "spawned"
    /\ registered' = "yes"
    /\ health' = Transition(health, "Up")
    /\ UNCHANGED <<cellVars, pumpVars, clientVars, stop, bounds, due, late>>

(* shutdown: the stop flag; what is set by now is due in the final drain. *)
shutdown ==
    /\ registered = "yes" /\ ~stop
    /\ stop' = TRUE
    /\ due' = IF setter.pc = "idle" /\ subs["vm"] # {} THEN cell.words[1] ELSE None
    /\ UNCHANGED <<cellVars, pumpVars, clientVars, health, registered, bounds, late>>

-----------------------------------------------------------------------------
(* The pump thread. *)

NextEntry(p) == [p EXCEPT !.at = @ + 1, !.pc = "entry", !.tries = 0, !.s1 = 0, !.copy = <<None, None>>]

BeginTick ==
    /\ pump.pc = "tick"
    /\ pump' = [pump EXCEPT !.pc = "entry", !.at = 1, !.tries = 0, !.errors = FALSE, !.stopping = stop]
    /\ UNCHANGED <<cellVars, last, had_subscribers, retained, clientVars, health, registered, stop, bounds, due, late>>

(* publish: a failure is counted, a success reaches every subscriber. *)
Publish(e, v, after) ==
    \/ /\ retained' = [retained EXCEPT ![e] = v]
       /\ inbox' = [inbox EXCEPT ![e] = [u \in Clients |-> IF u \in subs[e] THEN v ELSE @[u]]]
       /\ late' = [u \in Clients |-> IF u \in subs[e] THEN late[u] \ {e} ELSE late[u]]
       /\ pump' = after
       /\ UNCHANGED bounds
    \/ /\ Upset(1)
       /\ pump' = [after EXCEPT !.errors = TRUE]
       /\ UNCHANGED <<retained, inbox, late>>

(* The heartbeat is exempt and changes every tick. *)
system_entry ==
    /\ pump.pc = "entry" /\ pump.at <= Len(Entries) /\ Entries[pump.at] = "system"
    /\ \/ pump' = NextEntry(pump) /\ UNCHANGED bounds
       \/ /\ Upset(1)
          /\ pump' = [NextEntry(pump) EXCEPT !.errors = TRUE]
    /\ UNCHANGED <<cellVars, last, had_subscribers, retained, clientVars, health, registered, stop, due, late>>

At(e) == pump.pc = "entry" /\ pump.at <= Len(Entries) /\ Entries[pump.at] = e

(* Nobody watches the entry. *)
SkipZeroSub(e) ==
    /\ At(e) /\ subs[e] = {}
    /\ had_subscribers' = [had_subscribers EXCEPT ![e] = FALSE]
    /\ pump' = NextEntry(pump)
    /\ UNCHANGED <<cellVars, last, retained, clientVars, health, registered, stop, bounds, due, late>>

(* The value is remembered as the last one, then published when it changed *)
(* or the entry has just gained its first subscriber.                      *)
Emit(e, v, force) ==
    /\ last' = [last EXCEPT ![e] = v]
    /\ IF v # last[e] \/ force THEN Publish(e, v, NextEntry(pump))
       ELSE pump' = NextEntry(pump) /\ UNCHANGED <<retained, inbox, bounds, late>>

can_execute_entry ==
    /\ At("can") /\ subs["can"] # {}
    /\ had_subscribers' = [had_subscribers EXCEPT !["can"] = TRUE]
    /\ Emit("can", gate, ~had_subscribers["can"])
    /\ UNCHANGED <<cellVars, subs, view, health, registered, stop, due>>

(* read_into: the sequence is loaded, a write in progress costs a try. *)
LoadSequence ==
    /\ At("vm") /\ subs["vm"] # {} /\ pump.tries < ReadRetryLimit /\ cell.seq # 0
    /\ pump' = IF cell.writing THEN [pump EXCEPT !.tries = @ + 1]
               ELSE [pump EXCEPT !.pc = "copy1", !.s1 = cell.seq]
    /\ UNCHANGED <<cellVars, last, had_subscribers, retained, clientVars, health, registered, stop, bounds, due, late>>

(* Never written, or every try raced a write: no value this tick. *)
NoValue ==
    /\ At("vm") /\ subs["vm"] # {} /\ (cell.seq = 0 \/ pump.tries = ReadRetryLimit)
    /\ had_subscribers' = [had_subscribers EXCEPT !["vm"] = TRUE]
    /\ pump' = NextEntry(pump)
    /\ UNCHANGED <<cellVars, last, retained, clientVars, health, registered, stop, bounds, due, late>>

CopyWord ==
    /\ pump.pc \in {"copy1", "copy2"}
    /\ pump' = IF pump.pc = "copy1"
               THEN [pump EXCEPT !.pc = "copy2", !.copy[1] = cell.words[1]]
               ELSE [pump EXCEPT !.pc = "recheck", !.copy[2] = cell.words[2]]
    /\ UNCHANGED <<cellVars, last, had_subscribers, retained, clientVars, health, registered, stop, bounds, due, late>>

Torn ==
    /\ pump.pc = "recheck" /\ (cell.writing \/ cell.seq # pump.s1)
    /\ pump' = [pump EXCEPT !.pc = "entry", !.tries = @ + 1, !.s1 = 0, !.copy = <<None, None>>]
    /\ UNCHANGED <<cellVars, last, had_subscribers, retained, clientVars, health, registered, stop, bounds, due, late>>

(* snapshot_into returned an image. *)
property_entry ==
    /\ pump.pc = "recheck" /\ ~cell.writing /\ cell.seq = pump.s1
    /\ had_subscribers' = [had_subscribers EXCEPT !["vm"] = TRUE]
    /\ Emit("vm", pump.copy, ~had_subscribers["vm"])
    /\ UNCHANGED <<cellVars, subs, view, health, registered, stop, due>>

(* Mutant of EndTick: the flag is read after the tick, which is then the   *)
(* last although it began before the stop.                                 *)
EndTickLate ==
    /\ pump.pc = "entry" /\ pump.at > Len(Entries)
    /\ health' = IF pump.errors THEN Transition(health, "Degraded") ELSE Transition(health, "Up")
    /\ pump' = [pump EXCEPT !.pc = IF stop THEN "done" ELSE "tick"]
    /\ UNCHANGED <<cellVars, last, had_subscribers, retained, clientVars, registered, stop, bounds, due, late>>

(* on_tick: a publish error degrades, a clean tick keeps or restores Up.   *)
(* The tick that began stopping is the last.                               *)
EndTick ==
    /\ pump.pc = "entry" /\ pump.at > Len(Entries)
    /\ health' = IF pump.errors THEN Transition(health, "Degraded") ELSE Transition(health, "Up")
    /\ pump' = [pump EXCEPT !.pc = IF pump.stopping THEN "done" ELSE "tick"]
    /\ UNCHANGED <<cellVars, last, had_subscribers, retained, clientVars, registered, stop, bounds, due, late>>

-----------------------------------------------------------------------------
(* A client. *)

(* A client connects and subscribes to both entries.  The history of a     *)
(* service reaches a new reader with the next publication, which overtakes *)
(* it: until then the reader has nothing.                                  *)
connect(u) ==
    /\ u \notin subs["vm"] /\ Upset(0)
    /\ subs' = [e \in Watched |-> subs[e] \cup {u}]
    /\ late' = [late EXCEPT ![u] = {e \in Watched : had_subscribers[e]}]
    /\ UNCHANGED <<cellVars, pumpVars, inbox, view, health, registered, stop, due>>

(* The client is dropped with its subscriptions. *)
Leave(u) ==
    /\ u \in subs["vm"] /\ Upset(0)
    /\ subs' = [e \in Watched |-> subs[e] \ {u}]
    /\ inbox' = [e \in Watched |-> [inbox[e] EXCEPT ![u] = None]]
    /\ view' = [e \in Watched |-> [view[e] EXCEPT ![u] = None]]
    /\ due' = IF subs'["vm"] = {} THEN None ELSE due
    /\ late' = [late EXCEPT ![u] = {}]
    /\ UNCHANGED <<cellVars, pumpVars, health, registered, stop>>

(* drain_latest: the newest sample is shown, the others are dropped. *)
drain_latest(u, e) ==
    /\ u \in subs[e] /\ inbox[e][u] # None
    /\ view' = [view EXCEPT ![e][u] = inbox[e][u]]
    /\ inbox' = [inbox EXCEPT ![e][u] = None]
    /\ UNCHANGED <<cellVars, pumpVars, subs, health, registered, stop, bounds, due, late>>

poll_view_model(u) == drain_latest(u, "vm")

poll_can_execute(u) == drain_latest(u, "can")

PumpStep ==
    \/ BeginTick \/ system_entry \/ can_execute_entry \/ LoadSequence \/ NoValue
    \/ CopyWord \/ Torn \/ property_entry \/ EndTick
    \/ \E e \in Watched : SkipZeroSub(e)

Next ==
    \/ set \/ write \/ SetGate \/ register_with \/ mark_running \/ shutdown \/ PumpStep
    \/ \E u \in Clients : connect(u) \/ Leave(u) \/ poll_view_model(u) \/ poll_can_execute(u)

(* The threads run: the pump never blocks, a set in progress completes,    *)
(* and a UI polls.                                                         *)
Fairness ==
    /\ WF_vars(write) /\ WF_vars(PumpStep) /\ WF_vars(register_with)
    /\ \A u \in Clients : WF_vars(poll_view_model(u)) /\ WF_vars(poll_can_execute(u))

Spec == Init /\ [][Next]_vars /\ Fairness

-----------------------------------------------------------------------------
(* No published image mixes two sets: whatever a client sees of the        *)
(* property, or is about to, holds one value in both words                 *)
(* (SeqlockBytes::write and read_into).                                    *)
Untorn ==
    \A u \in Clients : \A image \in {inbox["vm"][u], view["vm"][u]} :
        image = None \/ image[1] = image[2]

(* "This tick was the final drain": a value that was set before shutdown   *)
(* and not since reaches the service before the pump thread ends, if       *)
(* someone watches from shutdown on and no publication fails (spawn).      *)
FinalDrain ==
    pump.pc = "done" /\ due # None /\ bounds.failures = 0 => retained["vm"] = <<due, due>>

(* A watching client catches up: unless a publication failed or the        *)
(* connector was shut down, it comes to show the gate as it is and the     *)
(* property as it is once the application leaves both alone.  One that     *)
(* joined an entry the pump knew to be watched catches up with the next    *)
(* change: only a first subscriber forces a publication (tick,             *)
(* poll_view_model, poll_can_execute).                                     *)
Shows(u) ==
    /\ u \in subs["can"] => view["can"][u] = gate
    /\ u \in subs["vm"] /\ cell.seq # 0 => view["vm"][u] = cell.words
ShowsInTime(u) ==
    /\ u \in subs["can"] /\ "can" \notin late[u] => view["can"][u] = gate
    /\ u \in subs["vm"] /\ "vm" \notin late[u] /\ cell.seq # 0 => view["vm"][u] = cell.words
CaughtUp(u) == ShowsInTime(u) \/ bounds.failures > 0 \/ stop

(* "Either way the UI has the current value within one UI cadence": the    *)
(* same for every client, whoever watched before it joined.                *)
CaughtUpAtOnce(u) == Shows(u) \/ bounds.failures > 0 \/ stop
==============================================================================
