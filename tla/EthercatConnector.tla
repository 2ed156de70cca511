-------------------------- MODULE EthercatConnector --------------------------
(***************************************************************************)
(* The EtherCAT connector (crates/taktora-connector-ethercat): the driver  *)
(* that walks the bus from discovery to OP (ethercrab_driver.rs), the      *)
(* cycle runner with its recovery loop (runner.rs), the dispatcher task    *)
(* that moves envelopes to and from the process image (dispatcher.rs,      *)
(* pdi.rs), the channel registry and the health monitor, and a plugin that *)
(* creates channels, sends and stops while the task runs (connector.rs).   *)
(*                                                                         *)
(* One action is the code between two awaits, or one channel's share of a  *)
(* pass over the registry, whose mutex the pass holds.  The bus is         *)
(* external: every exchange may fail, lose a device (a low working         *)
(* counter) or find it restarted without its configuration, or leave an    *)
(* error latched that keeps the device out of OP.                          *)
(* A byte has ByteBits bits.                                               *)
(***************************************************************************)
EXTENDS ConnectorCore, Integers, Sequences, FiniteSets

CONSTANTS
    Created,       \* channels the plugin creates, in order
    Routing,       \* the EthercatRouting of each channel
    Present,       \* configured addresses on the bus
    PdoMap,        \* options.pdo_map(): a sequence of SubDeviceMaps
    Payloads,      \* the payloads the plugin sends on each channel
    Images,        \* process images the devices may answer with
    ByteBits, PdiBytes,
    Budget,        \* max_attempts of the reconnect policy, 0 if none
    OP_WAIT_MAX_SPINS, OP_WAIT_ACK_INTERVAL,
    MaxFaults,     \* bound: exchanges and calls that fail, devices that restart
    MaxSends       \* bound: envelopes sent

VARIABLES
    pc,            \* step of the dispatcher task
    walk,          \* the walk into OP: which call it serves, its position
    dstate,        \* EthercrabBusDriver.state
    txrx,          \* the TX/RX task
    assigned,      \* per device: the PDO assignment objects and the watchdog
    latched,       \* a device has an AL error latched
    online,        \* the devices in OP
    expected,      \* expected_wkc
    attempts,      \* attempts of the policy of this recovery episode
    registry,      \* registered channels, in order
    chan,          \* position in the registry of the pass
    queue,         \* envelopes in the outbound service of each channel
    outputs,       \* outputs of the process image
    inputs,        \* inputs of the process image
    received,      \* per channel: the last inbound envelope
    health, stop,
    faults, sends, \* bounds
    drained        \* history: last payload drained since the last walk into OP

regVars == <<registry, queue, sends>>
imageVars == <<outputs, inputs, received, drained>>
busVars == <<dstate, txrx, assigned, latched, online, walk>>
runVars == <<expected, attempts, health>>
vars == <<pc, chan, regVars, imageVars, busVars, runVars, stop, faults>>

Channels == {Created[k] : k \in DOMAIN Created}
Writers == {c \in Channels : Routing[c].direction = "Rx"}
Readers == Channels \ Writers

-----------------------------------------------------------------------------
(* pdi.rs: bit slices of a process image, low bit first *)

Zero(n) == [k \in 1..n |-> 0]

Bit(bytes, pos) == (bytes[pos \div ByteBits + 1] \div 2 ^ (pos % ByteBits)) % 2

SetBit(bytes, pos, bit) ==
    [bytes EXCEPT ![pos \div ByteBits + 1] =
        @ + (bit - Bit(bytes, pos)) * 2 ^ (pos % ByteBits)]

(* The two tests for an overflow: of the value, and of the image. *)
Overflows(image, r, value) ==
    \/ Len(value) * ByteBits < r.bit_length
    \/ r.bit_offset + r.bit_length > Len(image) * ByteBits

write_routing(image, r, value) ==
    LET w[n \in 0..r.bit_length] ==
        IF n = 0 THEN image ELSE SetBit(w[n - 1], r.bit_offset + n - 1, Bit(value, n - 1))
    IN w[r.bit_length]

read_routing(image, r) ==
    LET size == (r.bit_length + ByteBits - 1) \div ByteBits
        w[n \in 0..r.bit_length] ==
            IF n = 0 THEN Zero(size) ELSE SetBit(w[n - 1], n - 1, Bit(image, r.bit_offset + n - 1))
    IN w[r.bit_length]

(* The number that a sequence of bytes stands for, and a slice of its bits: *)
(* the reference for the two loops above.                                   *)
Number(bytes) ==
    LET n[k \in 0..Len(bytes)] ==
        IF k = 0 THEN 0 ELSE n[k - 1] + bytes[k] * 2 ^ (ByteBits * (k - 1))
    IN n[Len(bytes)]

Slice(bytes, r) == (Number(bytes) \div 2 ^ r.bit_offset) % 2 ^ r.bit_length

-----------------------------------------------------------------------------
(* sdo.rs: the writes that configure a device *)

(* Mutant of push_direction: the last write, of the count, is missing. *)
push_directionNoCount(object, entries) ==
    IF entries = <<>> THEN <<>>
    ELSE <<[object |-> object, sub |-> 0, value |-> 0]>>
         \o [k \in 1..Len(entries) |-> [object |-> object, sub |-> k, value |-> entries[k]]]

push_direction(object, entries) ==
    IF entries = <<>> THEN <<>>
    ELSE <<[object |-> object, sub |-> 0, value |-> 0]>>
         \o [k \in 1..Len(entries) |-> [object |-> object, sub |-> k, value |-> entries[k]]]
         \o <<[object |-> object, sub |-> 0, value |-> Len(entries)]>>

pdo_sdo_writes(map) == push_direction("rx", map.rx_pdos) \o push_direction("tx", map.tx_pdos)

startup_sdo_writes(map) ==
    [k \in 1..Len(map.startup_sdos) |->
        [object |-> "startup", sub |-> k, value |-> map.startup_sdos[k]]]

(* program_sm_watchdogs: divider, then intervals, each read back. *)
watchdog_writes(map) ==
    IF map.sm_watchdog THEN <<[object |-> "divider", sub |-> 1, value |-> 1],
                             [object |-> "intervals", sub |-> 1, value |-> 1]>>
    ELSE <<>>

(* A walk configures each device of the map in PRE-OP: the writes of all   *)
(* devices, then the watchdogs of all devices.                             *)
ConfigWrites ==
    LET All(w(_)) ==
            LET a[n \in 0..Len(PdoMap)] ==
                IF n = 0 THEN <<>>
                ELSE a[n - 1] \o [k \in 1..Len(w(PdoMap[n])) |->
                                     [address |-> PdoMap[n].address, write |-> w(PdoMap[n])[k]]]
            IN a[Len(PdoMap)]
    IN All(LAMBDA m : startup_sdo_writes(m) \o pdo_sdo_writes(m)) \o All(watchdog_writes)

Objects == {"startup", "rx", "tx", "divider", "intervals"}

(* External: a device takes an entry of an assignment object only while    *)
(* the object's count is zero.                                             *)
Accepts(device, w) == w.sub > 0 /\ w.object \in {"rx", "tx"} => device[w.object].count = 0

Applied(device, w) ==
    IF w.sub = 0 THEN [device EXCEPT ![w.object].count = w.value]
    ELSE [device EXCEPT ![w.object].entry = [@ EXCEPT ![w.sub] = w.value]]

(* What the map asks of its device. *)
Configured(map) ==
    LET d == assigned[map.address]
        Holds(object, entries) ==
            entries = <<>> \/ /\ d[object].count = Len(entries)
                              /\ \A k \in DOMAIN entries : d[object].entry[k] = entries[k]
    IN /\ Holds("rx", map.rx_pdos)
       /\ Holds("tx", map.tx_pdos)
       /\ \A k \in DOMAIN map.startup_sdos : d["startup"].entry[k] = map.startup_sdos[k]
       /\ map.sm_watchdog => d["divider"].entry[1] = 1 /\ d["intervals"].entry[1] = 1

(* expected_wkc_from_map *)
expected_wkc_from_map ==
    LET t[n \in 0..Len(PdoMap)] == IF n = 0 THEN 0 ELSE t[n - 1] + PdoMap[n].expected_wkc
    IN t[Len(PdoMap)]

-----------------------------------------------------------------------------
(* EthercatHealthMonitor::transition_to; every caller ignores a refusal.   *)
TransitionTo(to) == health' = Transition(health, to)

Entries == 0..2
Blank == [o \in Objects |-> [count |-> 0, entry |-> [k \in 1..2 |-> 0]]]

Init ==
    /\ pc = "unregistered"
    /\ walk = [by |-> "bring_up", todo |-> <<>>, spins |-> 0]
    /\ dstate = "NotInitialised"
    /\ txrx = "none"
    /\ assigned = [d \in Present |-> Blank]
    /\ latched = FALSE /\ online = {}
    /\ expected = 0 /\ attempts = 0
    /\ registry = <<>> /\ chan = 1
    /\ queue = [c \in Channels |-> <<>>]
    /\ outputs = Zero(PdiBytes) /\ inputs = Zero(PdiBytes)
    /\ received = [c \in Channels |-> <<>>]
    /\ drained = [c \in Channels |-> <<>>]
    /\ health = "Connecting"
    /\ stop = FALSE
    /\ faults = 0 /\ sends = 0

-----------------------------------------------------------------------------
(* The plugin *)

(* register_with takes the driver, once, and spawns the task. *)
RegisterWith ==
    /\ pc = "unregistered"
    /\ pc' = "split"
    /\ UNCHANGED <<chan, regVars, imageVars, busVars, runVars, stop, faults>>

RegistryLocked == pc \in {"outbound", "inbound"}

Registered == {registry[k] : k \in DOMAIN registry}

(* create_writer and create_reader end with the registration. *)
CreateChannel ==
    /\ ~RegistryLocked
    /\ Len(registry) < Len(Created)
    /\ registry' = Append(registry, Created[Len(registry) + 1])
    /\ UNCHANGED <<pc, chan, queue, sends, imageVars, busVars, runVars, stop, faults>>

WriterSend(c, payload) ==
    /\ c \in Registered \cap Writers
    /\ sends < MaxSends
    /\ queue' = [queue EXCEPT ![c] = Append(@, payload)]
    /\ sends' = sends + 1
    /\ UNCHANGED <<pc, chan, registry, imageVars, busVars, runVars, stop, faults>>

StopDispatcher ==
    /\ ~stop
    /\ stop' = TRUE
    /\ UNCHANGED <<pc, chan, regVars, imageVars, busVars, runVars, faults>>

(* The gateway is dropped: its runtime ends every task. *)
DropGateway ==
    /\ pc \notin {"unregistered", "ended"}
    /\ pc' = "ended"
    /\ txrx' = IF txrx = "running" THEN "aborted" ELSE txrx
    /\ UNCHANGED <<chan, regVars, imageVars, dstate, assigned, latched, online, walk, runVars, stop, faults>>

-----------------------------------------------------------------------------
(* The driver: from discovery to OP.  bring_up and recover share the walk. *)

Fault == faults < MaxFaults /\ faults' = faults + 1

(* External: a device that lost its power comes back outside OP, with the  *)
(* defaults of its objects and registers.                                  *)
Restart(d) ==
    /\ assigned' = [assigned EXCEPT ![d] = Blank]
    /\ online' = online \ {d}

(* A failure may be that of a device that restarts. *)
Dropout == UNCHANGED <<assigned, online>> \/ \E d \in Present : Restart(d)

(* Drop of the driver, when the task ends: the TX/RX task is aborted if    *)
(* the driver's state holds it.                                            *)
DropDriver == txrx' = IF dstate \in {"Operational", "Recovering"} THEN "aborted" ELSE txrx

(* A walk that fails: bring_up's error ends the task with Down; recover    *)
(* parks the main device and the runner consults its policy again.         *)
WalkFails ==
    \/ /\ walk.by = "bring_up"
       /\ TransitionTo("Down")
       /\ pc' = "ended"
       /\ UNCHANGED <<dstate, attempts>>
    \/ /\ walk.by = "recover"
       /\ TransitionTo("Degraded")
       /\ dstate' = "Recovering"
       /\ pc' = "policy"
       /\ UNCHANGED attempts

(* bring_up up to the first await: the storage is split, the TX/RX task    *)
(* opens its socket and is spawned.                                        *)
Split ==
    /\ pc = "split"
    /\ \/ /\ txrx' = "running"
          /\ pc' = "discover"
          /\ UNCHANGED <<runVars, dstate, faults>>
       \/ /\ Fault /\ WalkFails
          /\ UNCHANGED <<txrx, expected>>
    /\ UNCHANGED <<chan, regVars, imageVars, assigned, latched, online, walk, stop>>

(* init_single_group takes every device back to PRE-OP. *)
Discover ==
    /\ pc = "discover"
    /\ \/ /\ pc' = "configure"
          /\ walk' = [walk EXCEPT !.todo = ConfigWrites]
          /\ online' = {}
          /\ UNCHANGED <<assigned, runVars, dstate, faults>>
       \/ /\ Fault /\ WalkFails /\ Dropout
          /\ UNCHANGED <<expected, walk>>
    /\ UNCHANGED <<chan, regVars, imageVars, txrx, latched, stop>>

(* apply_pdo_mapping_for_subdevice and program_sm_watchdogs, one write at  *)
(* a time.  A device of the map that is not on the bus is an error.        *)
Configure ==
    /\ pc = "configure"
    /\ \/ /\ walk.todo = <<>>
          /\ pc' = "safe_op"
          /\ UNCHANGED <<walk, assigned, online, runVars, dstate, faults>>
       \/ /\ walk.todo # <<>>
          /\ LET next == Head(walk.todo) IN
             \/ /\ next.address \in Present
                /\ Accepts(assigned[next.address], next.write)
                /\ assigned' = [assigned EXCEPT ![next.address] = Applied(@, next.write)]
                /\ walk' = [walk EXCEPT !.todo = Tail(@)]
                /\ UNCHANGED <<pc, online, runVars, dstate, faults>>
             \/ /\ IF next.address \in Present /\ Accepts(assigned[next.address], next.write)
                   THEN Fault /\ Dropout ELSE UNCHANGED <<faults, assigned, online>>
                /\ WalkFails
                /\ UNCHANGED <<walk, expected>>
    /\ UNCHANGED <<chan, regVars, imageVars, txrx, latched, stop>>

(* into_safe_op, request_into_op; the first output data has not arrived    *)
(* yet, so a device may latch an error.                                    *)
RequestOp ==
    /\ pc = "safe_op"
    /\ \/ /\ pc' = "op_wait"
          /\ walk' = [walk EXCEPT !.spins = 0]
          /\ latched' \in BOOLEAN
          /\ UNCHANGED <<runVars, dstate, assigned, online, faults>>
       \/ /\ Fault /\ WalkFails /\ Dropout
          /\ UNCHANGED <<walk, latched, expected>>
    /\ UNCHANGED <<chan, regVars, imageVars, txrx, stop>>

op_wait_action(spins) ==
    IF spins > OP_WAIT_MAX_SPINS THEN "GiveUp"
    ELSE IF spins % OP_WAIT_ACK_INTERVAL = 0 THEN "AckLatchedErrors"
    ELSE "Continue"

(* The group is in OP: the driver keeps it, the runner is built or goes    *)
(* on; outputs start at zero.                                              *)
IntoOp ==
    /\ ~latched
    /\ dstate' = "Operational"
    /\ online' = Present
    /\ expected' = expected_wkc_from_map
    /\ TransitionTo("Up")
    /\ outputs' = Zero(PdiBytes)
    /\ drained' = [c \in Channels |-> <<>>]
    /\ pc' = IF walk.by = "bring_up" THEN "top" ELSE "sleep"
    /\ UNCHANGED <<walk, latched, assigned, attempts, faults, inputs, received>>

(* walk_into_op: exchange until every device is in OP, acknowledge latched *)
(* errors now and then, give up in the end.                                *)
OpWait ==
    /\ pc = "op_wait"
    /\ \/ IntoOp
       \/ /\ Fault /\ WalkFails /\ Dropout
          /\ UNCHANGED <<walk, latched, expected, imageVars>>
       \/ LET spins == walk.spins + 1 IN
          \/ /\ op_wait_action(spins) # "GiveUp"
             /\ latched' = (latched /\ op_wait_action(spins) # "AckLatchedErrors")
             /\ walk' = [walk EXCEPT !.spins = spins]
             /\ UNCHANGED <<pc, dstate, assigned, online, runVars, imageVars, faults>>
          \/ /\ op_wait_action(spins) = "GiveUp"
             /\ WalkFails
             /\ UNCHANGED <<walk, latched, assigned, online, expected, imageVars, faults>>
    /\ UNCHANGED <<chan, regVars, txrx, stop>>

-----------------------------------------------------------------------------
(* The runner and the dispatcher *)

(* The loop tests stop; dispatch_one_cycle starts with the outbound pass.  *)
Top ==
    /\ pc = "top"
    /\ \/ stop /\ pc' = "ended" /\ DropDriver
       \/ ~stop /\ pc' = "outbound" /\ UNCHANGED txrx
    /\ chan' = 1
    /\ UNCHANGED <<regVars, imageVars, dstate, assigned, latched, online, walk, runVars, stop, faults>>

(* An error of a pass ends the task; the health monitor is not told.       *)
EndWithError == pc' = "ended" /\ DropDriver

(* dispatch_outbound: every pending envelope of every outbound channel is  *)
(* written to the outputs of its device.  A drain that fails, a slice that *)
(* overflows and a device that is missing end the task.                    *)
Outbound ==
    /\ pc = "outbound"
    /\ \/ /\ chan > Len(registry)
          /\ pc' = "cycle"
          /\ UNCHANGED <<chan, queue, outputs, drained, txrx, faults>>
       \/ /\ chan <= Len(registry)
          /\ LET c == registry[chan] IN
             \/ /\ c \notin Writers \/ queue[c] = <<>>
                /\ chan' = chan + 1
                /\ UNCHANGED <<pc, queue, outputs, drained, txrx, faults>>
             \/ /\ c \in Writers /\ Fault /\ EndWithError
                /\ UNCHANGED <<chan, queue, outputs, drained>>
             \/ /\ c \in Writers /\ queue[c] # <<>>
                /\ queue' = [queue EXCEPT ![c] = Tail(@)]
                /\ IF Routing[c].subdevice_address \in Present
                      /\ ~Overflows(outputs, Routing[c], Head(queue[c]))
                   THEN /\ outputs' = write_routing(outputs, Routing[c], Head(queue[c]))
                        /\ drained' = [drained EXCEPT ![c] = Head(queue[c])]
                        /\ UNCHANGED <<pc, txrx>>
                   ELSE EndWithError /\ UNCHANGED <<outputs, drained>>
                /\ UNCHANGED <<chan, faults>>
    /\ UNCHANGED <<registry, sends, inputs, received,
                   dstate, assigned, latched, online, walk, runVars, stop>>

evaluate_wkc(want, observed) == IF observed >= want THEN "Match" ELSE "Mismatch"

(* apply_verdict *)
apply_verdict(verdict) ==
    CASE verdict = "Mismatch" -> TransitionTo("Degraded")
      [] health = "Up" -> UNCHANGED health
      [] OTHER -> TransitionTo("Up")

(* cycle: the devices answer with an image and count up the working        *)
(* counter; one that is not in OP, or missed the frame, is absent from it. *)
Exchange(observed, image) ==
    /\ image \in Images
    /\ observed \in {expected - 1} \cup (IF online = Present THEN {expected} ELSE {})

(* tick: the exchange, the verdict on its working counter, and the         *)
(* inbound pass; or a failed exchange and the start of a recovery episode. *)
(* The task slept for a period after the last tick, so the scheduler never *)
(* skips.                                                                  *)
Cycle ==
    /\ pc = "cycle"
    /\ \/ \E image \in Images, observed \in 0..expected :
          /\ Exchange(observed, image)
          /\ inputs' = image
          /\ apply_verdict(evaluate_wkc(expected, observed))
          /\ pc' = "inbound"
          /\ \/ UNCHANGED <<assigned, online, faults>>
             \/ /\ observed < expected /\ Fault
                /\ \E d \in online : Restart(d)
          /\ UNCHANGED attempts
       \/ /\ Fault /\ Dropout
          /\ TransitionTo("Degraded")
          /\ attempts' = 0
          /\ pc' = "policy"
          /\ UNCHANGED inputs
    /\ chan' = 1
    /\ UNCHANGED <<regVars, outputs, received, drained, dstate, txrx, latched, walk, expected, stop>>

(* dispatch_inbound: the slice of every inbound channel is published; an   *)
(* error ends the task.                                                    *)
Inbound ==
    /\ pc = "inbound"
    /\ \/ /\ chan > Len(registry)
          /\ pc' = "sleep"
          /\ UNCHANGED <<chan, received, txrx, faults>>
       \/ /\ chan <= Len(registry)
          /\ LET c == registry[chan] IN
             \/ /\ c \in Writers
                /\ chan' = chan + 1
                /\ UNCHANGED <<pc, received, txrx, faults>>
             \/ /\ c \in Readers /\ Fault /\ EndWithError
                /\ UNCHANGED <<chan, received>>
             \/ /\ c \in Readers
                /\ IF /\ Routing[c].subdevice_address \in Present
                      /\ ~Overflows(inputs, Routing[c], inputs)
                   THEN /\ received' = [received EXCEPT ![c] = read_routing(inputs, Routing[c])]
                        /\ chan' = chan + 1
                        /\ UNCHANGED <<pc, txrx>>
                   ELSE EndWithError /\ UNCHANGED <<chan, received>>
                /\ UNCHANGED faults
    /\ UNCHANGED <<regVars, outputs, inputs, drained,
                   dstate, assigned, latched, online, walk, runVars, stop>>

(* sleep(cycle_period) *)
Sleep ==
    /\ pc = "sleep"
    /\ pc' = "top"
    /\ UNCHANGED <<chan, regVars, imageVars, busVars, runVars, stop, faults>>

(* recover_per_policy: the policy is asked for a delay. *)
Policy ==
    /\ pc = "policy"
    /\ \/ /\ Exhausted(attempts, Budget)
          /\ TransitionTo("Down")
          /\ EndWithError
          /\ UNCHANGED attempts
       \/ /\ ~Exhausted(attempts, Budget)
          /\ attempts' = IF Budget > 0 THEN attempts + 1 ELSE 0
          /\ pc' = "backoff"
          /\ UNCHANGED <<health, txrx>>
    /\ UNCHANGED <<chan, regVars, imageVars, dstate, assigned, latched, online, walk, expected, stop, faults>>

(* After the delay: Connecting, and recover takes the main device out of   *)
(* the driver's state for the time of the walk, or fails without it.       *)
Backoff ==
    /\ pc = "backoff"
    /\ IF dstate = "NotInitialised"
       THEN /\ health' = Transition(Transition(health, "Connecting"), "Degraded")
            /\ pc' = "policy"
            /\ UNCHANGED <<dstate, walk>>
       ELSE /\ TransitionTo("Connecting")
            /\ dstate' = "NotInitialised"
            /\ walk' = [walk EXCEPT !.by = "recover"]
            /\ pc' = "discover"
    /\ UNCHANGED <<chan, regVars, imageVars, txrx, assigned, latched, online, expected, attempts, stop, faults>>

Task ==
    \/ Split \/ Discover \/ Configure \/ RequestOp \/ OpWait
    \/ Top \/ Outbound \/ Cycle \/ Inbound \/ Sleep \/ Policy \/ Backoff

(* The task has ended or was not started, and the plugin rests. *)
Rest == pc \in {"unregistered", "ended"} /\ UNCHANGED vars

Next ==
    \/ RegisterWith
    \/ CreateChannel
    \/ \E c \in Channels : \E p \in Payloads[c] : WriterSend(c, p)
    \/ StopDispatcher \/ DropGateway
    \/ Task
    \/ Rest

(* The runtime polls the task, and every await ends: exchanges have        *)
(* timeouts, delays expire.  A publication waits for room in its service:  *)
(* the plugin is assumed to read.                                          *)
Spec == Init /\ [][Next]_vars /\ WF_vars(Task)

-----------------------------------------------------------------------------
TypeOK ==
    /\ pc \in {"unregistered", "split", "discover", "configure", "safe_op", "op_wait", "top",
               "outbound", "cycle", "inbound", "sleep", "policy", "backoff", "ended"}
    /\ dstate \in {"NotInitialised", "Operational", "Recovering"}
    /\ txrx \in {"none", "running", "aborted"}
    /\ health \in Kinds
    /\ chan \in 1..(Len(registry) + 1)
    /\ Len(outputs) = PdiBytes /\ Len(inputs) = PdiBytes
    /\ attempts \in 0..Budget

Cycling == pc \in {"top", "outbound", "cycle", "inbound", "sleep"}

(* When an exchange has been made, each outbound slice of the outputs      *)
(* holds the last payload drained for it since the bus last went into OP,  *)
(* whatever was written to neighbouring slices (dispatch_outbound,         *)
(* write_routing).                                                         *)
CommandsOnWire ==
    pc = "inbound" =>
        \A c \in Writers : drained[c] # <<>> =>
            Slice(outputs, Routing[c]) = Number(drained[c]) % 2 ^ Routing[c].bit_length

(* When the inbound pass ends, every inbound channel registered has been   *)
(* given its slice of this exchange's image (dispatch_inbound,             *)
(* read_routing).                                                          *)
InputsPublished ==
    pc = "inbound" =>
        \A k \in 1..(chan - 1) : registry[k] \in Readers =>
            Number(received[registry[k]]) = Slice(inputs, Routing[registry[k]])

(* Health is Up in the cyclic loop only with every device of the map       *)
(* configured, also after walks that failed half way and after a device    *)
(* that restarted with its defaults (apply_pdo_mapping_for_subdevice,      *)
(* program_sm_watchdogs, rewalk_into_op, apply_verdict).                   *)
OpIsConfigured ==
    Cycling /\ health = "Up" => \A k \in DOMAIN PdoMap : Configured(PdoMap[k])

(* The kind of health follows the runner although it ignores refused       *)
(* transitions: Degraded while it waits for its policy, Connecting during  *)
(* every walk, Up or Degraded in the cyclic loop.  And however many        *)
(* attempts failed, the next one finds the main device (tick,              *)
(* recover_per_policy, apply_verdict, recover).                            *)
HealthFollows ==
    /\ pc \in {"split", "discover", "configure", "safe_op", "op_wait"} => health = "Connecting"
    /\ pc \in {"policy", "backoff"} => health = "Degraded" /\ dstate # "NotInitialised"
    /\ Cycling => health \in {"Up", "Degraded"} /\ dstate = "Operational"

Stopping == stop /\ pc # "unregistered"
TaskEnded == pc = "ended"

(* stop_dispatcher ends the task, if recovery episodes are bounded         *)
(* (dispatcher_loop).                                                      *)
StopEnds == Stopping ~> TaskEnded
==============================================================================
