------------------------------ MODULE BusConfig ------------------------------
(***************************************************************************)
(* The build-time tools that turn the description of an EtherCAT bus into  *)
(* the tables its connector runs on: the document is parsed and its        *)
(* devices resolved, against ESI files where it names them, with the       *)
(* sync-manager watchdog of each output device                             *)
(* (crates/taktora-ethercat-netcfg, crates/taktora-ethercat-esi: dto.rs,   *)
(* model.rs, resolve.rs); then the configuration is validated and the      *)
(* tables are generated (crates/taktora-ethercat-netcfg-codegen).          *)
(*                                                                         *)
(* A document is given as what its text says; reading YAML and XML is left *)
(* out.  Names and identities are values.  Times are in microseconds, bits *)
(* and PDO indices are numbers.  A failing `expect` or an addition that    *)
(* overflows ends the tool (`panic`).                                      *)
(***************************************************************************)
EXTENDS Naturals, Sequences, TLC

CONSTANTS
    Documents,
    None,
    Tick,          \* a watchdog tick: 40 ns * (DEFAULT_WATCHDOG_DIVIDER + 2), 100
    Ms,            \* 1000
    MaxU16, MaxU32,
    SdoMin, SdoMax,  \* what each type of a startup SDO can hold
    FirstAddress,  \* 0x1000
    OverflowChecks \* the tools are built with overflow checks

(* FTTI/2 and every timeout of a document are whole ticks. *)
Units ==
    /\ Tick \in Nat \ {0} /\ Ms \in Nat /\ Ms % (2 * Tick) = 0
    /\ MaxU16 \in Nat \ {0} /\ MaxU32 \in Nat /\ FirstAddress \in Nat
    /\ OverflowChecks \in BOOLEAN

(* What reading a document guarantees: milliseconds and bits are numbers. *)
Written ==
    \A d \in Documents :
        /\ d.bus.ftti \in Nat /\ Len(d.devices) \in Nat /\ Len(d.channels) \in Nat
        /\ \A i \in 1..Len(d.devices) : d.devices[i].sm_watchdog_timeout \in Nat \cup {None}
        /\ \A i \in 1..Len(d.channels) :
               d.channels[i].bit_offset \in Nat /\ d.channels[i].bit_length \in Nat

VARIABLES
    doc,
    stage,     \* "parse" "validate" "generate" "done" "failed"
    error,     \* why it failed
    config,    \* NetworkConfig
    generated  \* PDO_MAP, the routing constants, EXPECTED_IDENTITIES

vars == <<doc, stage, error, config, generated>>

Directions == {"rx", "tx"}

Indices(s) == 1..Len(s)

Min(S) == CHOOSE x \in S : \A y \in S : x <= y
Max(S) == CHOOSE x \in S : \A y \in S : x >= y

(* The first of a sequence of checks that fails. *)
FirstError(errors) ==
    LET bad == {i \in Indices(errors) : errors[i] # "none"}
    IN  IF bad = {} THEN "none" ELSE errors[Min(bad)]

-----------------------------------------------------------------------------
(* The ESI file of a device. *)

(* sync_managers_from_dtos: bits 2 and 3 of the control byte say who       *)
(* writes, bit 6 arms the watchdog; an absent byte is zero.                *)
ControlByte(sm) == IF sm = None THEN 0 ELSE sm
IsOutput(sm) == (ControlByte(sm) \div 4) % 4 = 1
watchdog_trigger_enable(sm) == (ControlByte(sm) \div 64) % 2 = 1

(* esi_output_watchdog_enabled is Some(true). *)
esi_output_watchdog_enabled(sync_managers) ==
    LET outputs == SelectSeq(sync_managers, IsOutput)
    IN  outputs # <<>> /\ \A i \in Indices(outputs) : watchdog_trigger_enable(outputs[i])

Saturating(n) == IF n > MaxU16 THEN MaxU16 ELSE n

IndicesOf(pdos) == {pdos[i].index : i \in Indices(pdos)}

(* The first PDO of the pool with that index; its bits are those of its    *)
(* entries, padding included.                                              *)
pdo_total_bits(pool, index) ==
    LET found == {i \in Indices(pool) : pool[i].index = index}
        bits == pool[Min(found)].entries
        total[i \in 0..Len(bits)] == IF i = 0 THEN 0 ELSE Saturating(total[i - 1] + bits[i])
    IN  IF found = {} THEN 0 ELSE total[Len(bits)]

(* The PDOs follow one another in the process image of their direction. *)
entries_for(pool, indices) ==
    LET end[i \in 0..Len(indices)] ==
            IF i = 0 THEN 0 ELSE Saturating(end[i - 1] + pdo_total_bits(pool, indices[i]))
    IN  [i \in Indices(indices) |-> [index |-> indices[i], bit_offset |-> end[i - 1],
                                     bit_length |-> pdo_total_bits(pool, indices[i])]]

(* classify_assignment: an index of both pools is an output.  The          *)
(* assignments of a mapping are those of its sync managers in document     *)
(* order.                                                                  *)
classify_rx(esi, mapping) ==
    SelectSeq(mapping.sm_assignments, LAMBDA x : x \in IndicesOf(esi.rx_pdos))
classify_tx(esi, mapping) ==
    SelectSeq(mapping.sm_assignments, LAMBDA x : x \notin IndicesOf(esi.rx_pdos))
Dangling(esi, mapping) ==
    {mapping.sm_assignments[i] : i \in Indices(mapping.sm_assignments)}
      \ (IndicesOf(esi.rx_pdos) \cup IndicesOf(esi.tx_pdos))

(* The default set of a device without alternative mappings. *)
DefaultSet(pdos) ==
    LET on == SelectSeq(pdos, LAMBDA p : p.sm # None \/ p.mandatory)
    IN  [i \in Indices(on) |-> on[i].index]

(* The mapping that op_mode selects: the first of that name, or the first  *)
(* default.                                                                *)
Candidates(esi, op_mode) ==
    {i \in Indices(esi.alt_sm_mappings) :
        IF op_mode = None THEN esi.alt_sm_mappings[i].default
        ELSE esi.alt_sm_mappings[i].name = op_mode}

resolve_error(esi, op_mode) ==
    LET found == Candidates(esi, op_mode)
    IN  CASE esi.alt_sm_mappings = <<>> ->
               (IF op_mode = None THEN "none" ELSE "OpModeOnFlatDevice")
          [] esi.alt_sm_mappings # <<>> /\ found = {} ->
               (IF op_mode = None THEN "NoDefaultMapping" ELSE "OpModeNotFound")
          [] OTHER -> IF Dangling(esi, esi.alt_sm_mappings[Min(found)]) = {} THEN "none"
                      ELSE "UnknownAssignmentPdo"

resolve_assignment(esi, op_mode) ==
    IF esi.alt_sm_mappings = <<>>
    THEN [rx |-> entries_for(esi.rx_pdos, DefaultSet(esi.rx_pdos)),
          tx |-> entries_for(esi.tx_pdos, DefaultSet(esi.tx_pdos))]
    ELSE LET mapping == esi.alt_sm_mappings[Min(Candidates(esi, op_mode))]
         IN  [rx |-> entries_for(esi.rx_pdos, classify_rx(esi, mapping)),
              tx |-> entries_for(esi.tx_pdos, classify_tx(esi, mapping))]

-----------------------------------------------------------------------------
(* netcfg: the devices of the document. *)

(* convert_startup_sdo *)
SdoError(sdo) ==
    IF sdo.value < SdoMin[sdo.ty] \/ sdo.value > SdoMax[sdo.ty] THEN "SdoValueOutOfRange"
    ELSE "none"

(* An `esi:` reference is a file, of which the text may be unreadable, or  *)
(* a remote one (esi_local_path); it describes one device.                 *)
EsiError(ref) ==
    CASE ref.remote -> "RemoteEsiNotVendored"
      [] ~ ref.remote /\ ref.text # "ok" -> ref.text
      [] OTHER -> IF Len(ref.devices) # 1 THEN "AmbiguousEsiDevice" ELSE "none"

Esi(d) == d.esi.devices[1]

(* The PDOs of a device: those the ESI file resolves to, or inline ones. *)
Source(d) ==
    IF d.esi = None THEN [rx |-> d.rx, tx |-> d.tx] ELSE resolve_assignment(Esi(d), d.op_mode)

HasInline(d) == d.rx # <<>> \/ d.tx # <<>>

(* DeviceInstanceDto::resolve, up to the watchdog. *)
DeviceError(d) ==
    LET sdos == FirstError([i \in Indices(d.startup_sdos) |-> SdoError(d.startup_sdos[i])])
    IN  CASE d.esi = None /\ d.op_mode # None -> "OpModeOnFlatDevice"
          [] ~ (d.esi = None /\ d.op_mode # None) /\ sdos # "none" -> sdos
          [] d.esi = None /\ d.op_mode = None /\ sdos = "none" -> "none"
          [] d.esi # None /\ sdos = "none" /\ EsiError(d.esi) # "none" -> EsiError(d.esi)
          [] OTHER ->
               LET resolved == resolve_error(Esi(d), d.op_mode)
               IN  IF resolved # "none" THEN resolved
                   ELSE IF HasInline(d) /\ Source(d) # [rx |-> d.rx, tx |-> d.tx]
                   THEN "EsiContradiction" ELSE "none"

(* sm_watchdog_intervals: ticks rounded up, within 1..u16::MAX. *)
sm_watchdog_intervals(us) ==
    LET ticks == (us + Tick - 1) \div Tick
    IN  IF ticks < 1 THEN 1 ELSE Saturating(ticks)

effective_timeout(intervals) == Tick * intervals

ftti_half(bus) == (bus.ftti * Ms) \div 2

(* The timeout asked for: the device's own, or FTTI/2. *)
Timeout(d, half) == IF d.sm_watchdog_timeout = None THEN half ELSE d.sm_watchdog_timeout * Ms

WatchdogArmed(d) ==
    \/ d.sm_watchdog_enabled = TRUE
    \/ d.esi # None /\ esi_output_watchdog_enabled(Esi(d).sync_managers)

(* resolve_and_validate_watchdog: the window the hardware will enforce is  *)
(* compared, then the enable bit or the operator's attestation.            *)
WatchdogError(d, half) ==
    LET effective == effective_timeout(sm_watchdog_intervals(Timeout(d, half)))
    IN  CASE Source(d).rx = <<>> -> "none"
          [] Source(d).rx # <<>> /\ Timeout(d, half) > MaxU32 -> "panic"
          [] Source(d).rx # <<>> /\ ~ (Timeout(d, half) > MaxU32) /\ effective > half ->
               "SmWatchdogTimeoutTooLong"
          [] OTHER -> IF WatchdogArmed(d) THEN "none"
                      ELSE IF d.esi = None THEN "SmWatchdogNotAttested" ELSE "SmWatchdogDisabled"

ResolveError(d, half) ==
    IF DeviceError(d) # "none" THEN DeviceError(d) ELSE WatchdogError(d, half)

(* DeviceInstance: an identity of the document precedes that of the ESI    *)
(* file; inline devices accept a PDO assignment.                           *)
Instance(d, half) ==
    [label |-> d.label, rx |-> Source(d).rx, tx |-> Source(d).tx,
     identity |-> IF d.identity # None \/ d.esi = None THEN d.identity ELSE Esi(d).identity,
     address_override |-> d.address_override,
     sm_watchdog |-> IF Source(d).rx = <<>> THEN None
                     ELSE sm_watchdog_intervals(Timeout(d, half)),
     startup_sdos |-> d.startup_sdos,
     supports_coe |-> d.esi = None \/ Esi(d).coe]

(* parse: one document, then its devices in their order. *)
parse_error ==
    IF doc.count > 1 THEN "MultipleBuses"
    ELSE FirstError([i \in Indices(doc.devices) |->
                       ResolveError(doc.devices[i], ftti_half(doc.bus))])

NetworkConfig ==
    [bus |-> doc.bus, channels |-> doc.channels,
     devices |-> [i \in Indices(doc.devices) |-> Instance(doc.devices[i], ftti_half(doc.bus))]]

parse ==
    /\ stage = "parse"
    /\ error' = parse_error
    /\ IF parse_error # "none" THEN stage' = "failed" /\ UNCHANGED config
       ELSE stage' = "validate" /\ config' = NetworkConfig
    /\ UNCHANGED <<doc, generated>>

-----------------------------------------------------------------------------
(* netcfg-codegen: validation. *)

device_address(i) ==
    LET override == config.devices[i].address_override
    IN  IF override = None THEN FirstAddress + (i - 1) ELSE override

(* device_by_label and address_by_label: of two devices with one label the *)
(* maps keep the last.                                                     *)
Labelled(label) == {i \in Indices(config.devices) : config.devices[i].label = label}
device_by_label(label) == Max(Labelled(label))

image_bits(device, direction) ==
    LET entries == device[direction]
    IN  Max({0} \cup {entries[i].bit_offset + entries[i].bit_length : i \in Indices(entries)})

(* Addition of u32: it panics or wraps, as the tool was built. *)
Overflows(c) == c.bit_offset + c.bit_length > MaxU32
SliceEnd(c) == (c.bit_offset + c.bit_length) % (MaxU32 + 1)

(* validate_channel, rules 1, 2 and 5. *)
ChannelError(c) ==
    CASE c.bit_length = 0 -> "ZeroLengthSlice"
      [] c.bit_length # 0 /\ Labelled(c.device) = {} -> "UnknownDevice"
      [] OTHER ->
           IF Overflows(c) /\ OverflowChecks THEN "panic"
           ELSE IF SliceEnd(c) <= image_bits(config.devices[device_by_label(c.device)], c.direction)
           THEN "none" ELSE "SliceOutOfImage"

(* Rule 3. *)
DuplicateName ==
    \E i, k \in Indices(config.channels) :
        i # k /\ config.channels[i].name = config.channels[k].name

(* Rule 4. *)
DuplicateAddress ==
    \E i, k \in Indices(config.devices) : i # k /\ device_address(i) = device_address(k)

(* Rule 6: half-open ranges of the same device and direction intersect, and *)
(* neither channel allows it.                                              *)
Overlap(a, b) ==
    /\ a.device = b.device /\ a.direction = b.direction
    /\ ~ a.allow_overlap /\ ~ b.allow_overlap
    /\ a.bit_offset < SliceEnd(b) /\ b.bit_offset < SliceEnd(a)

OverlappingSlices ==
    \E i, k \in Indices(config.channels) :
        i # k /\ Overlap(config.channels[i], config.channels[k])

validation_error ==
    LET channels == FirstError([i \in Indices(config.channels) |->
                                  ChannelError(config.channels[i])])
    IN  CASE channels # "none" -> channels
          [] channels = "none" /\ DuplicateName -> "DuplicateChannelName"
          [] channels = "none" /\ ~ DuplicateName /\ DuplicateAddress -> "DuplicateAddress"
          [] OTHER -> IF OverlappingSlices THEN "OverlappingSlices" ELSE "none"

validate ==
    /\ stage = "validate"
    /\ error' = validation_error
    /\ stage' = IF validation_error = "none" THEN "generate" ELSE "failed"
    /\ UNCHANGED <<doc, config, generated>>

-----------------------------------------------------------------------------
(* netcfg-codegen: warnings and tables. *)

(* gap_warnings_for: a cursor over the entries, sorted by their start. *)
Ranges(device, direction) ==
    LET entries == device[direction]
    IN  SortSeq([i \in Indices(entries) |->
                   <<entries[i].bit_offset, entries[i].bit_offset + entries[i].bit_length>>],
                LAMBDA x, y : x[1] < y[1])

gap_warnings_for(device, direction) ==
    LET ranges == Ranges(device, direction)
        cursor[i \in 0..Len(ranges)] ==
            IF i = 0 THEN 0 ELSE Max({cursor[i - 1], ranges[i][2]})
    IN  {<<cursor[i - 1], ranges[i][1]>> : i \in {k \in Indices(ranges) : ranges[k][1] > cursor[k - 1]}}

(* The working counter: one for outputs, two for inputs. *)
expected_wkc(device) ==
    (IF device.rx # <<>> THEN 1 ELSE 0) + (IF device.tx # <<>> THEN 2 ELSE 0)

(* pdo_map_tokens: an assignment is written only to a device that has a    *)
(* mailbox for it.                                                         *)
PdoMap ==
    [i \in Indices(config.devices) |->
        LET d == config.devices[i]
        IN  [address |-> device_address(i),
             rx_pdos |-> IF d.supports_coe THEN d.rx ELSE <<>>,
             tx_pdos |-> IF d.supports_coe THEN d.tx ELSE <<>>,
             expected_wkc |-> expected_wkc(d), sm_watchdog |-> d.sm_watchdog,
             startup_sdos |-> d.startup_sdos]]

(* routing_const_tokens *)
Routing ==
    [i \in Indices(config.channels) |->
        LET c == config.channels[i]
        IN  [address |-> device_address(device_by_label(c.device)), direction |-> c.direction,
             bit_offset |-> c.bit_offset, bit_length |-> c.bit_length]]

(* identity_table_tokens *)
ExpectedIdentities ==
    {<<device_address(i), config.devices[i].identity>> :
        i \in {k \in Indices(config.devices) : config.devices[k].identity # None}}

generate ==
    /\ stage = "generate" /\ stage' = "done"
    /\ generated' = [pdo_map |-> PdoMap, routing |-> Routing, identities |-> ExpectedIdentities]
    /\ UNCHANGED <<doc, error, config>>

Nothing == [bus |-> [ftti |-> 0], channels |-> <<>>, devices |-> <<>>]

Init ==
    /\ doc \in Documents
    /\ stage = "parse" /\ error = "none" /\ config = Nothing
    /\ generated = [pdo_map |-> <<>>, routing |-> <<>>, identities |-> {}]

Next == parse \/ validate \/ generate

Spec == Init /\ [][Next]_vars

-----------------------------------------------------------------------------
(* Every output device of a generated table has a watchdog, never a        *)
(* disabled one, that trips within half the fault-tolerant time, whatever  *)
(* the document asked for and however ticks round and saturate             *)
(* (resolve_and_validate_watchdog: the quantized window is compared).      *)
OutputsGuarded ==
    stage = "done" =>
        \A i \in Indices(generated.pdo_map) :
            LET d == generated.pdo_map[i]
            IN  d.expected_wkc \in {1, 3} =>
                    /\ d.sm_watchdog \in 1..MaxU16
                    /\ effective_timeout(d.sm_watchdog) <= ftti_half(config.bus)

(* A device that asks for no timeout of its own and whose watchdog is      *)
(* armed is not refused for it: FTTI/2 survives its quantization           *)
(* (sm_watchdog_intervals), if there is any time at all.                   *)
InheritedFits ==
    \A i \in Indices(doc.devices) :
        LET d == doc.devices[i]
            half == ftti_half(doc.bus)
        IN  d.sm_watchdog_timeout = None /\ DeviceError(d) = "none" /\ half \in 1..MaxU32 =>
                WatchdogError(d, half) # "SmWatchdogTimeoutTooLong"

(* Two channels of the generated tables that are routed to the same        *)
(* subdevice and direction share no bit unless one allows it, though they  *)
(* were compared by device label and are routed by address: addresses are  *)
(* unique, labels need not be (validate, address_by_label).                *)
SlicesApart ==
    stage = "done" =>
        \A i, k \in Indices(generated.routing) :
            LET a == generated.routing[i]
                b == generated.routing[k]
            IN  /\ i # k /\ a.address = b.address /\ a.direction = b.direction
                /\ ~ config.channels[i].allow_overlap /\ ~ config.channels[k].allow_overlap
                => \/ a.bit_offset + a.bit_length <= b.bit_offset
                   \/ b.bit_offset + b.bit_length <= a.bit_offset

(* A slice lies within the process image of the subdevice it is routed to  *)
(* (rule 5 of validate), which exists in the table.                        *)
SlicesInImage ==
    stage = "done" =>
        \A i \in Indices(generated.routing) :
            LET r == generated.routing[i]
            IN  \E k \in Indices(config.devices) :
                    /\ generated.pdo_map[k].address = r.address
                    /\ r.bit_offset + r.bit_length <= image_bits(config.devices[k], r.direction)

(* The warnings name the bits of a process image that no entry covers, all *)
(* of them and no others, although the code assumes that entries do not    *)
(* overlap (gap_warnings_for).                                             *)
GapsExact ==
    stage = "generate" =>
        \A i \in Indices(config.devices), direction \in Directions :
            LET d == config.devices[i]
                covered == UNION {d[direction][k].bit_offset
                                    ..(d[direction][k].bit_offset + d[direction][k].bit_length - 1) :
                                    k \in Indices(d[direction])}
            IN  UNION {g[1]..(g[2] - 1) : g \in gap_warnings_for(d, direction)}
                    = (0..(image_bits(d, direction) - 1)) \ covered

ConfigSound ==
    OutputsGuarded /\ InheritedFits /\ SlicesApart /\ SlicesInImage /\ GapsExact
==============================================================================
