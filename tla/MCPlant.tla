------------------------------- MODULE MCPlant -------------------------------
(* The locks of the diagnostics gateway and, one at a time, the EtherCAT
   connector, the tools that configure its field bus, motion control, which
   stands on it, and the event streams of the gateway.  All but the locks
   share variables, since only one component runs. *)
EXTENDS MedkitLocks, Integers, Sequences, TLC

VARIABLES
    part,    \* the component that runs
    x1, x2, x3, x4, x5, x6, x7, x8, x9, x10, x11, x12, x13, x14, x15, x16, x17, x18, x19, x20

CONSTANTS
    Parts,         \* the components to run
    AxisCommands,  \* Motion: the commands
    InFlight,      \* MotionCore: a position inside a quintic
    None           \* BusConfig: what a document leaves out

\* While another component runs, no request reaches the locks.
Quiet == Init

(* EthercatConnector: two adjacent outbound slices, one across a byte boundary, *)
(* and an inbound one; a device with one PDO of each direction, a startup write *)
(* and a watchdog.                                                              *)
CreatedInOrder == <<"w1", "r", "w2">>
RoutingOf == [c \in {"w1", "r", "w2"} |->
    CASE c = "w1" -> [subdevice_address |-> "d", direction |-> "Rx", bit_offset |-> 0, bit_length |-> 1]
      [] c = "w2" -> [subdevice_address |-> "d", direction |-> "Rx", bit_offset |-> 1, bit_length |-> 2]
      [] c = "r" -> [subdevice_address |-> "d", direction |-> "Tx", bit_offset |-> 1, bit_length |-> 2]]
PdoMapOf == <<[address |-> "d", rx_pdos |-> <<1>>, tx_pdos |-> <<2>>, startup_sdos |-> <<1>>,
               expected_wkc |-> 2, sm_watchdog |-> TRUE]>>
TwoPayloads == [c \in {"w1", "r", "w2"} |->
    CASE c = "w1" -> {<<1>>} [] c = "w2" -> {<<3>>, <<>>} [] OTHER -> {}]
TwoImages == {<<2, 1>>}

Device == {"d"}

(* Motion: axis 0 follows axis 1. *)
Follows == {<<1, 0>>}

(* MotionCore *)
Distances == {0, 1, 2, 4, 6, 8, 12, 16, 18, 24, 32, 36, 48, 54, 64}
Velocities == {1, 2, 4, 6, 8}
Accelerations == {1, 2, 4}
TrapInputs ==
    [kind : {"trap"}, d : Distances, v : Velocities, a : Accelerations]
SCurveInputs ==
    [kind : {"scurve"}, d : Distances, v : Velocities, a : Accelerations, j : {1, 2}]
RampInputs == [kind : {"ramp"}, vel : -4..4, target : -4..4, a : Accelerations]
QuinticInputs ==
    [kind : {"quintic"}, p0 : {1}, v0 : {-1, 0, 2}, a0 : {-1, 0, 2}, p1 : {-3, 5},
     v1 : {-1, 0, 2}, a1 : {-1, 0, 2}, t : 1..3]
Starts == {<<p>> : p \in 0..4} \cup {<<0, 2>>, <<1, 4>>, <<0, 1, 3>>, <<0, 2, 3, 4>>, <<0, 1, 2, 3, 4>>}
CamInputs ==
    [kind : {"cam"}, cam : [coeffs : {<<1, 2, -1, 3>>}, starts : Starts, period : {6}],
     m : [pos : -7..7, vel : {2}, acc : {1}]]
UnwrapInputs ==
    {[kind |-> "unwrap", path |-> <<x, x + s, x + s + r, x + s + r + q>>,
      scale |-> [inc_per_unit |-> 1, zero_offset |-> o]] :
        x \in {0, 4}, s, r, q \in -3..3, o \in {0, 3}}

(* MedkitEvents: the app's faults and the triggers a client may register. *)
V == INSTANCE MedkitView
Confirmed(s) == "x" :> [severity |-> s, status |-> "CONFIRMED"]
TriggerSpecs == {[entity_id |-> "app", severity |-> s] : s \in 0..1}

(* BusConfig: a device with or without an ESI file that assigns its PDOs, its   *)
(* watchdog and that of the bus; two devices with outputs and two channels.     *)
Pdo(i, start, bits) == [index |-> i, bit_offset |-> start, bit_length |-> bits]
Plain ==
    [label |-> "a", esi |-> None, op_mode |-> None, rx |-> <<>>, tx |-> <<>>, identity |-> None,
     address_override |-> None, sm_watchdog_timeout |-> None, sm_watchdog_enabled |-> None,
     startup_sdos |-> <<>>]
Document(devices, channels, ftti) ==
    [count |-> 1, bus |-> [ftti |-> ftti], devices |-> devices, channels |-> channels]

EsiPdo(i, sm, bits) == [index |-> i, sm |-> sm, mandatory |-> i = 4, entries |-> bits]
Mapping(name, default, pdos) == [name |-> name, default |-> default, sm_assignments |-> pdos]
EsiDevice(managers, mappings, coe) ==
    [rx_pdos |-> <<EsiPdo(1, None, <<1, 2>>), EsiPdo(2, 2, <<6>>)>>,
     tx_pdos |-> <<EsiPdo(3, None, <<2>>), EsiPdo(4, None, <<9>>)>>,
     sync_managers |-> managers, alt_sm_mappings |-> mappings, coe |-> coe, identity |-> "i"]
TwoMappings == <<Mapping("m", FALSE, <<2, 1, 3>>), Mapping("n", TRUE, <<4>>)>>
EsiDevices ==
    {EsiDevice(managers, TwoMappings, TRUE) :
        managers \in {<<>>, <<4>>, <<68>>, <<68, 4>>, <<None, 32, 100>>}}
      \cup {EsiDevice(<<68>>, mappings, coe) :
            mappings \in {<<>>, TwoMappings, <<Mapping("m", FALSE, <<3, 5>>)>>}, coe \in BOOLEAN}
EsiFiles ==
    {[remote |-> FALSE, text |-> "ok", devices |-> <<e>>] : e \in EsiDevices}
      \cup {[remote |-> FALSE, text |-> t, devices |-> <<>>] : t \in {"ok", "Io", "Esi"}}
      \cup {[remote |-> TRUE, text |-> "Io", devices |-> <<>>]}

WatchdogDocuments ==
    {Document(<<[Plain EXCEPT !.rx = rx, !.esi = esi, !.op_mode = mode,
                              !.sm_watchdog_timeout = t, !.sm_watchdog_enabled = on]>>, <<>>, f) :
        rx \in {<<>>, <<Pdo(2, 0, 6)>>}, esi \in {None} \cup EsiFiles, mode \in {None, "m", "z"},
        t \in {None, 0, 1, 8, 11}, on \in {None, TRUE}, f \in {0, 1, 16, 40}}

Slice(n, d, direction, start, bits, allow) ==
    [name |-> n, device |-> d, direction |-> direction, bit_offset |-> start,
     bit_length |-> bits, allow_overlap |-> allow]
TwoDevices(label, first, second, value) ==
    <<[Plain EXCEPT !.rx = <<Pdo(1, 2, 1), Pdo(2, 0, 1)>>, !.sm_watchdog_enabled = TRUE,
                    !.address_override = first],
      [Plain EXCEPT !.label = label, !.rx = <<Pdo(1, 0, 3), Pdo(2, 1, 1)>>, !.identity = "j",
                    !.sm_watchdog_enabled = TRUE, !.address_override = second,
                    !.startup_sdos = <<[ty |-> "u8", value |-> value]>>]>>
ChannelDocuments ==
    {Document(TwoDevices(label, first, second, 3),
              <<Slice("c1", "a", "rx", 0, 2, FALSE), Slice(n, d, direction, start, bits, allow)>>, 2) :
        label \in {"a", "b"}, first, second \in {None, 1, 2}, n \in {"c1", "c2"},
        d \in {"a", "b", "z"}, direction \in {"rx", "tx"}, start \in {0, 1, 20}, bits \in 0..2,
        allow \in BOOLEAN}
      \cup {Document(TwoDevices("b", None, None, 4), <<>>, 2),
            [Document(TwoDevices("b", None, None, 3), <<>>, 2) EXCEPT !.count = 2]}

Net == INSTANCE BusConfig WITH
    Documents <- WatchdogDocuments \cup ChannelDocuments, Tick <- 1, Ms <- 2, MaxU16 <- 7,
    MaxU32 <- 20, SdoMin <- [u8 |-> 0], SdoMax <- [u8 |-> 3], FirstAddress <- 1,
    OverflowChecks <- TRUE, doc <- x1, stage <- x2, error <- x3, config <- x4, generated <- x5
ASSUME ConfigParameters == Net!Units /\ Net!Written

Ecat == INSTANCE EthercatConnector WITH
    Created <- CreatedInOrder, Routing <- RoutingOf, Present <- Device, PdoMap <- PdoMapOf,
    Payloads <- TwoPayloads, Images <- TwoImages, ByteBits <- 2, PdiBytes <- 2, Budget <- 1,
    OP_WAIT_MAX_SPINS <- 2, OP_WAIT_ACK_INTERVAL <- 2, MaxFaults <- 1, MaxSends <- 2,
    pc <- x1, walk <- x2, dstate <- x3, txrx <- x4, assigned <- x5, latched <- x6,
    expected <- x7, attempts <- x8, registry <- x9, chan <- x10, queue <- x11,
    outputs <- x12, inputs <- x13, received <- x14, health <- x15, stop <- x16,
    faults <- x17, sends <- x18, drained <- x19, online <- x20

\* The same bus with one channel, and several failures in a row.
Walks == INSTANCE EthercatConnector WITH
    Created <- <<"w1">>, Routing <- RoutingOf, Present <- Device, PdoMap <- PdoMapOf,
    Payloads <- TwoPayloads, Images <- TwoImages, ByteBits <- 2, PdiBytes <- 2, Budget <- 2,
    OP_WAIT_MAX_SPINS <- 2, OP_WAIT_ACK_INTERVAL <- 2, MaxFaults <- 3, MaxSends <- 1,
    pc <- x1, walk <- x2, dstate <- x3, txrx <- x4, assigned <- x5, latched <- x6,
    expected <- x7, attempts <- x8, registry <- x9, chan <- x10, queue <- x11,
    outputs <- x12, inputs <- x13, received <- x14, health <- x15, stop <- x16,
    faults <- x17, sends <- x18, drained <- x19, online <- x20

Drives == INSTANCE Motion WITH
    N <- 2, Edges <- Follows, Commands <- {"Power", "MoveVelocity", "GearIn"}, Targets <- {2},
    MaxCommands <- 3, MaxTrouble <- 1, MaxPos <- 4, ax <- x1, drive <- x2, engaged <- x3,
    issued <- x4, trouble <- x5, batch <- x6

\* One axis, and every other command.
Axis == INSTANCE Motion WITH
    N <- 1, Edges <- {}, Commands <- AxisCommands, Targets <- {2, -1}, MaxCommands <- 3,
    MaxTrouble <- 2, MaxPos <- 4, ax <- x1, drive <- x2, engaged <- x3, issued <- x4,
    trouble <- x5, batch <- x6

Saw == INSTANCE MotionCore WITH
    Home <- 0, TOn <- 2, TSync <- 2, VMax <- 1, AMax <- 1, Speeds <- {-2, 0, 1, 2},
    MaxEngagements <- 2, Width <- 3, saw <- x1, master <- x2, coupled <- x3,
    engagements <- x4

Events == INSTANCE MedkitEvents WITH
    Clients <- {"c"}, StreamKinds <- {"faults", "events", "trigger"},
    AppFaults <- {V!Empty, Confirmed(0)}, Specs <- TriggerSpecs, ReplayRing <- 2,
    EventBuffer <- 2, MaxEvents <- 3, MaxHealth <- 2, MaxConnects <- 2, conn <- x1,
    store <- x2, app <- x3, loop <- x4, ring <- x5, sent <- x6, triggers <- x7,
    stream <- x8, seen <- x9, excused <- x10, steps <- x11

ProfileInputs ==
    /\ x1 \in TrapInputs \cup SCurveInputs \cup RampInputs \cup QuinticInputs \cup CamInputs
            \cup UnwrapInputs
    /\ Saw!Exact(x1)

\* A component uses the first n of the variables.
Unused(n) ==
    /\ (n < 4 => x4 = 0) /\ (n < 5 => x5 = 0) /\ (n < 6 => x6 = 0) /\ (n < 7 => x7 = 0)
    /\ (n < 8 => x8 = 0) /\ (n < 9 => x9 = 0) /\ (n < 10 => x10 = 0) /\ (n < 11 => x11 = 0)
    /\ (n < 12 => x12 = 0) /\ (n < 13 => x13 = 0) /\ (n < 14 => x14 = 0) /\ (n < 15 => x15 = 0)
    /\ (n < 16 => x16 = 0) /\ (n < 17 => x17 = 0) /\ (n < 18 => x18 = 0) /\ (n < 19 => x19 = 0)
    /\ (n < 20 => x20 = 0)

Kept(n) ==
    /\ (n < 4 => x4' = x4) /\ (n < 5 => x5' = x5) /\ (n < 6 => x6' = x6) /\ (n < 7 => x7' = x7)
    /\ (n < 8 => x8' = x8) /\ (n < 9 => x9' = x9) /\ (n < 10 => x10' = x10) /\ (n < 11 => x11' = x11)
    /\ (n < 12 => x12' = x12) /\ (n < 13 => x13' = x13) /\ (n < 14 => x14' = x14) /\ (n < 15 => x15' = x15)
    /\ (n < 16 => x16' = x16) /\ (n < 17 => x17' = x17) /\ (n < 18 => x18' = x18) /\ (n < 19 => x19' = x19)
    /\ (n < 20 => x20' = x20)

mcVars == <<part, vars, x1, x2, x3, x4, x5, x6, x7, x8, x9, x10, x11, x12, x13, x14, x15, x16, x17,
          x18, x19, x20>>

MCInit ==
    /\ part \in Parts
    /\ \/ part = "locks" /\ Init /\ x1 = 0 /\ x2 = 0 /\ x3 = 0 /\ Unused(3)
       \/ part = "ethercat" /\ Ecat!Init /\ Unused(20) /\ Quiet
       \/ part = "walks" /\ Walks!Init /\ Unused(20) /\ Quiet
       \/ part = "config" /\ Net!Init /\ Unused(5) /\ Quiet
       \/ part = "motion" /\ Drives!Init /\ Unused(6) /\ Quiet
       \/ part = "axis" /\ Axis!Init /\ Unused(6) /\ Quiet
       \/ part = "saw" /\ Saw!Init /\ Unused(4) /\ Quiet
       \/ part = "profile" /\ ProfileInputs /\ x2 = 0 /\ x3 = 0 /\ Unused(3) /\ Quiet
       \/ part = "events" /\ Events!Init /\ Unused(11) /\ Quiet

MCNext ==
    \/ part = "locks" /\ Next /\ UNCHANGED <<part, x1, x2, x3, x4, x5, x6, x7, x8, x9, x10, x11, x12, x13, x14, x15, x16, x17, x18, x19, x20>>
    \/ part = "ethercat" /\ Ecat!Next /\ Kept(20) /\ UNCHANGED <<part, vars>>
    \/ part = "walks" /\ Walks!Next /\ Kept(20) /\ UNCHANGED <<part, vars>>
    \/ part = "config" /\ Net!Next /\ Kept(5) /\ UNCHANGED <<part, vars>>
    \/ part = "motion" /\ Drives!Next /\ Kept(6) /\ UNCHANGED <<part, vars>>
    \/ part = "axis" /\ Axis!Next /\ Kept(6) /\ UNCHANGED <<part, vars>>
    \/ part = "saw" /\ Saw!Next /\ Kept(4) /\ UNCHANGED <<part, vars>>
    \/ part = "events" /\ Events!Next /\ Kept(11) /\ UNCHANGED <<part, vars>>
    \/ part \in {"locks", "config", "motion", "axis", "saw", "profile", "events"} /\ UNCHANGED mcVars

MCFairness ==
    /\ WF_(Ecat!vars)(part = "ethercat" /\ Ecat!Task)
    /\ WF_(Walks!vars)(part = "walks" /\ Walks!Task)
    /\ WF_(Saw!vars)(part = "saw" /\ Saw!update)

MCSpec == MCInit /\ [][MCNext]_mcVars /\ MCFairness

------------------------------------------------------------------------------
(* Properties; LiveLockIsKept is that of the locks. *)

\* EthercatConnector: what was written is on the wire, what was on the wire is
\* published, the bus is up only with every device configured, also one that
\* restarted, and health follows the runner.  BusConfig: in the tables generated
\* for it every output is guarded by a watchdog within half the FTTI and no two
\* slices of an image meet.
ProcessImage ==
    /\ part = "ethercat" => /\ Ecat!CommandsOnWire /\ Ecat!InputsPublished
                            /\ Ecat!OpIsConfigured /\ Ecat!HealthFollows
    /\ part = "walks" => /\ Walks!CommandsOnWire /\ Walks!InputsPublished
                         /\ Walks!OpIsConfigured /\ Walks!HealthFollows
    /\ part = "config" => Net!ConfigSound

\* Motion: a geared axis follows its master within the cycle, and the base
\* generator of a latched axis holds.  MotionCore: the arithmetic of the profiles
\* is exact.
AxesHold ==
    /\ part = "motion" => Drives!SlaveFollows /\ Drives!LatchedHolds
    /\ part = "axis" => Axis!LatchedHolds
    /\ part = "profile" => Saw!ArithmeticSound(x1)

\* A fault stops everything coupled below it within its cycle and stays latched
\* until a command with a new token or request_power releases it, an axis starts
\* where it stands (Motion), and the saw moves as the line does (MotionCore).
AxesMove ==
    [][/\ part = "motion" => /\ Drives!SubtreeStopped
                             /\ \A i \in Drives!Axes : Drives!Steady(i) => Drives!StartsBumpless(i)
       /\ part = "axis" => /\ Axis!SubtreeStopped
                           /\ \A i \in Axis!Axes : Axis!Steady(i) => Axis!StartsBumpless(i)
       /\ part = "saw" => Saw!MovesWithLine]_mcVars

\* Motion, axis.rs 160-162: the first position commanded after an enable is
\* the actual position the axis had in its last disabled cycle.
BumplessStart == [][part = "axis" => \A i \in Axis!Axes : Axis!StartsBumpless(i)]_mcVars

\* MedkitEvents: a client gets the fault events in order and each once, and the
\* binding's active code is the one that the connector's health implies.
FaultsFollowed == part = "events" => Events!NoGapNoDuplicate /\ Events!OneActiveCode

Begun ==
    CASE part \in {"ethercat", "walks"} -> Ecat!Stopping
      [] part = "saw" -> Saw!CatchingUp
      [] OTHER -> FALSE

Completed ==
    CASE part \in {"ethercat", "walks"} -> Ecat!TaskEnded
      [] part = "saw" -> Saw!AtHome
      [] OTHER -> FALSE

\* The EtherCAT task ends after a stop, and a cut of the saw ends at home.
OperationsEnd == Begun ~> Completed
==============================================================================
