------------------------------ MODULE CanFrames ------------------------------
(***************************************************************************)
(* What lets a CAN frame through, and what a CAN frame carries.            *)
(*                                                                         *)
(* The receive filter of an interface (crates/taktora-connector-can): the  *)
(* routings of its inbound channels compiled into the array the kernel     *)
(* gets (filter.rs, real.rs), the kernel's test of a frame, and the test   *)
(* by which the dispatcher hands a frame to a channel.  Identifiers have   *)
(* IdBits bits; the bit above them is CAN_EFF_FLAG, which the kernel sets  *)
(* in the identifier of an extended frame.                                 *)
(*                                                                         *)
(* The messages (crates/taktora-idl-dbc, -core, -codegen, -codegen-can and *)
(* -wire): a DBC file read into messages, signals and value tables,        *)
(* lowered onto structs, enums and a frame layout, and the encode and      *)
(* decode of the generated type.  A byte has ByteBits bits (8 in the code) *)
(* and the widest scalar eight bytes.  A frame is the function from its    *)
(* positions to its bits.  A source name is the sequence of its words, with*)
(* the underscores between them.  The text of the lines, the scaling of a  *)
(* signal and the text of the generated code are left out.                 *)
(***************************************************************************)
EXTENDS Integers, Sequences, FiniteSets, Bitwise, SequencesExt

CONSTANTS
    IdBits,       \* bits of an identifier
    MaxChannels,  \* channels of the interface
    ByteBits,     \* bits of a byte
    Files         \* the DBC files, each the sequence of its lines

VARIABLE in       \* the routings in their order, and a frame; or a DBC file

---------------------------------------------------------------------------
(* The filter. *)

CAN_EFF_FLAG == 2 ^ IdBits
Values == 0..(2 ^ IdBits - 1)

(* CanId and CanRouting::new: any identifier, with any mask.               *)
CanIds == [value : Values, extended : BOOLEAN]
CanRoutings == [can_id : CanIds, mask : Values]

filter_forUnflagged(r) ==
    [can_id |-> r.can_id.value | (IF r.can_id.extended THEN CAN_EFF_FLAG ELSE 0),
     can_mask |-> r.mask]

filter_for(r) ==
    [can_id |-> r.can_id.value | (IF r.can_id.extended THEN CAN_EFF_FLAG ELSE 0),
     can_mask |-> r.mask | CAN_EFF_FLAG]

(* compile: the filters of the routings in their order, each one once.     *)
compile(routings) ==
    FoldLeft(LAMBDA filters, r : IF Contains(filters, filter_for(r)) THEN filters
                                 ELSE Append(filters, filter_for(r)),
             <<>>, routings)

(* matches: the test of demux_inbound.                                     *)
matches(r, id) ==
    /\ r.can_id.extended = id.extended
    /\ ((r.can_id.value ^^ id.value) & r.mask) = 0

(* to_socketcan_filter and the kernel: the identifier of an extended frame *)
(* has the flag.                                                           *)
Passes(filter, id) ==
    LET raw == id.value | (IF id.extended THEN CAN_EFF_FLAG ELSE 0)
    IN  ((raw ^^ filter.can_id) & filter.can_mask) = 0

FilterInit == in \in [routings : SeqOf(CanRoutings, MaxChannels) \ {<<>>}, id : CanIds]

(* The kernel hands a frame up just when some channel is routed to it: no  *)
(* channel misses a frame for the filter of another, standard and extended *)
(* identifiers stay apart, and the dispatcher is not woken for frames      *)
(* nobody wants.  No filter appears twice.                                 *)
FilterIsUnion ==
    LET filters == compile(in.routings)
    IN  /\ (\E k \in DOMAIN filters : Passes(filters[k], in.id))
               <=> (\E k \in DOMAIN in.routings : matches(in.routings[k], in.id))
        /\ IsInjective(filters)

---------------------------------------------------------------------------
(* The bits of a signal. *)

MAX_BITS == 8 * ByteBits

Bytes(frame) == Cardinality(DOMAIN frame) \div ByteBits

(* for_each_bit: where each bit of the value lies.  A big-endian signal    *)
(* starts at its most significant bit, walks down the byte and goes on at  *)
(* the top of the next.                                                    *)
for_each_bit(sig) ==
    LET at[k \in Nat] ==
          LET up == at[k - 1] IN
          CASE k = 0 -> [byte |-> sig.start_bit \div ByteBits, bit |-> sig.start_bit % ByteBits]
            [] k > 0 /\ up.bit = 0 -> [byte |-> up.byte + 1, bit |-> ByteBits - 1]
            [] OTHER -> [up EXCEPT !.bit = @ - 1]
        abs(p) == p.byte * ByteBits + p.bit
    IN  [i \in 0..(sig.bit_len - 1) |->
           IF sig.order = "little" THEN sig.start_bit + i ELSE abs(at[sig.bit_len - 1 - i])]

check(frame, sig) ==
    CASE sig.bit_len \notin 1..MAX_BITS -> "InvalidBitLength"
      [] sig.bit_len \in 1..MAX_BITS
         /\ Max(Range(for_each_bit(sig))) \div ByteBits >= Bytes(frame) -> "SignalOutOfBounds"
      [] OTHER -> "none"

(* Every bit of the signal is written, all others are left.                *)
pack_unsigned(frame, sig, raw) ==
    LET at == for_each_bit(sig)
        value_bit(p) == CHOOSE i \in DOMAIN at : at[i] = p
    IN  CASE check(frame, sig) # "none" -> [frame |-> frame, err |-> check(frame, sig)]
          [] check(frame, sig) = "none" /\ raw >= 2 ^ sig.bit_len ->
               [frame |-> frame, err |-> "ValueOutOfRange"]
          [] OTHER ->
               [frame |-> [p \in DOMAIN frame |-> IF p \notin Range(at) THEN frame[p]
                                                ELSE (raw \div 2 ^ value_bit(p)) % 2],
                err |-> "none"]

pack_signed(frame, sig, value) ==
    LET limit == 2 ^ (sig.bit_len - 1)
    IN  CASE check(frame, sig) # "none" -> [frame |-> frame, err |-> check(frame, sig)]
          [] check(frame, sig) = "none" /\ sig.bit_len < MAX_BITS
             /\ (value < -limit \/ value >= limit) -> [frame |-> frame, err |-> "ValueOutOfRange"]
          [] OTHER -> pack_unsigned(frame, sig, value % 2 ^ sig.bit_len)

unpack_unsigned(frame, sig) ==
    LET at == for_each_bit(sig)
    IN  IF check(frame, sig) # "none" THEN [value |-> 0, err |-> check(frame, sig)]
        ELSE [value |-> MapThenSumSet(LAMBDA i : frame[at[i]] * 2 ^ i, DOMAIN at), err |-> "none"]

sign_extend(raw, bit_len) == IF raw < 2 ^ (bit_len - 1) THEN raw ELSE raw - 2 ^ bit_len

unpack_signed(frame, sig) ==
    LET u == unpack_unsigned(frame, sig)
    IN  IF u.err # "none" THEN u ELSE [u EXCEPT !.value = sign_extend(@, sig.bit_len)]

---------------------------------------------------------------------------
(* From a DBC file to structs, enums and a layout. *)

(* parse: a signal belongs to the message before it.                       *)
parse(file) ==
    FoldLeft(LAMBDA db, line :
               CASE db.err # "none" -> db
                 [] db.err = "none" /\ line.keyword = "BO_" ->
                      [db EXCEPT !.messages = Append(@, line.message)]
                 [] db.err = "none" /\ line.keyword = "SG_" /\ db.messages = <<>> ->
                      [db EXCEPT !.err = "OrphanSignal"]
                 [] db.err = "none" /\ line.keyword = "SG_" /\ db.messages # <<>> ->
                      [db EXCEPT !.messages[Len(db.messages)].signals = Append(@, line.signal)]
                 [] OTHER -> [db EXCEPT !.tables = Append(@, line.table)],
             [messages |-> <<>>, tables |-> <<>>, err |-> "none"], file)

(* The tables of a signal, of which the first counts; the extended flag of *)
(* the identifier is not compared.                                         *)
value_table_for(db, id, signal) ==
    SelectSeq(db.tables, LAMBDA t : t.id.value = id.value /\ t.signal = signal)

integer_for_bits(bits, signed) ==
    [bits |-> Min({w \in {ByteBits, 2 * ByteBits, 4 * ByteBits, 8 * ByteBits} : bits <= w}),
     signed |-> signed]

signal_byte_extent(sig) ==
    LET first_byte_bits == (sig.start_bit % ByteBits) + 1
        more == sig.bit_len - first_byte_bits
    IN  CASE sig.order = "little" -> (sig.start_bit + sig.bit_len - 1) \div ByteBits + 1
          [] sig.order = "big" /\ more <= 0 -> sig.start_bit \div ByteBits + 1
          [] OTHER -> sig.start_bit \div ByteBits + (more + ByteBits - 1) \div ByteBits + 1

signal_error(message, sig) ==
    CASE sig.bit_len \notin 1..MAX_BITS -> "SignalTooWide"
      [] sig.bit_len \in 1..MAX_BITS /\ signal_byte_extent(sig) > message.dlc ->
           "SignalExceedsFrame"
      [] OTHER -> "none"

(* A field: its signal, the scalar it rides on and, for an enum, the name  *)
(* and the entries of it.  A table with a negative entry makes the scalar  *)
(* signed.                                                                 *)
field(db, message, sig) ==
    LET tables == value_table_for(db, message.id, sig.name)
        negative == \E e \in ToSet(Head(tables).entries) : e.value < 0
    IN  IF tables = <<>>
        THEN [name |-> sig.name, sig |-> sig, kind |-> "scalar",
              scalar |-> integer_for_bits(sig.bit_len, sig.signed)]
        ELSE [name |-> sig.name, sig |-> sig, kind |-> "enum",
              scalar |-> integer_for_bits(sig.bit_len, sig.signed \/ negative),
              enum |-> message.name \o <<"_">> \o sig.name,
              entries |-> Head(tables).entries]

structs(db) ==
    [m \in DOMAIN db.messages |->
       LET message == db.messages[m]
       IN  [name |-> message.name, dlc |-> message.dlc,
            fields |-> [s \in DOMAIN message.signals |-> field(db, message, message.signals[s])]]]

enums(module) ==
    FlattenSeq([m \in DOMAIN module |->
                  SelectSeq(module[m].fields, LAMBDA f : f.kind = "enum")])

(* The structs and the enums share one space of names.                     *)
type_names(module) ==
    [m \in DOMAIN module |-> module[m].name]
    \o [e \in DOMAIN enums(module) |-> enums(module)[e].enum]

(* lower: the first error of a signal, else what Module::validate finds.   *)
lower(db) ==
    LET errors == FlattenSeq([m \in DOMAIN db.messages |->
                                [s \in DOMAIN db.messages[m].signals |->
                                   signal_error(db.messages[m], db.messages[m].signals[s])]])
        bad == SelectSeq(errors, LAMBDA e : e # "none")
    IN  CASE bad # <<>> -> [err |-> Head(bad), module |-> <<>>]
          [] bad = <<>> /\ ~ IsInjective(type_names(structs(db))) ->
               [err |-> "DuplicateName", module |-> <<>>]
          [] OTHER -> [err |-> "none", module |-> structs(db)]

(* An identifier is made of the words of a name; what separated them is    *)
(* lost.                                                                   *)
words(name) == SelectSeq(name, LAMBDA w : w # "_")

Distinct(names) == IsInjective([i \in DOMAIN names |-> words(names[i])])

(* resolve and check_unique_idents.                                        *)
resolve(module) ==
    LET variants == {[i \in DOMAIN e.entries |-> e.entries[i].name] : e \in ToSet(enums(module))}
        fields == {[i \in DOMAIN s.fields |-> s.fields[i].name] : s \in ToSet(module)}
    IN  IF ~ Distinct(type_names(module)) THEN "DuplicateType"
        ELSE IF \E names \in variants : ~ Distinct(names) THEN "DuplicateVariant"
        ELSE IF \E names \in fields : ~ Distinct(names) THEN "DuplicateField"
        ELSE "none"

---------------------------------------------------------------------------
(* What the generated type does. *)

ScalarValues(scalar) ==
    LET half == 2 ^ (scalar.bits - 1)
    IN  IF scalar.signed THEN (-half)..(half - 1) ELSE 0..(2 * half - 1)

Discriminants(f) == {e.value : e \in ToSet(f.entries)}

(* rustc refuses an enum with two equal discriminants, or with one that    *)
(* its repr does not hold.                                                 *)
Compiles(module) ==
    \A f \in ToSet(enums(module)) :
        /\ Cardinality(Discriminants(f)) = Len(f.entries)
        /\ Discriminants(f) \subseteq ScalarValues(f.scalar)

FieldValues(f) == IF f.kind = "enum" THEN Discriminants(f) ELSE ScalarValues(f.scalar)

signal_for(struct, f) == SelectSeq(struct.fields, LAMBDA g : g.name = f.name)[1].sig

encode_field(struct, f, frame, value) ==
    IF f.scalar.signed THEN pack_signed(frame, signal_for(struct, f), value)
    ELSE pack_unsigned(frame, signal_for(struct, f), value)

(* encode: the frame is cleared and the fields are packed in their order;  *)
(* the first error ends it.                                                *)
encode(struct, values, buf) ==
    LET cleared == [p \in DOMAIN buf |-> IF p < struct.dlc * ByteBits THEN 0 ELSE buf[p]]
    IN  IF Bytes(buf) < struct.dlc THEN [frame |-> buf, err |-> "BufferTooSmall"]
        ELSE FoldLeftDomain(
               LAMBDA out, i :
                 IF out.err # "none" THEN out
                 ELSE encode_field(struct, struct.fields[i], out.frame, values[i]),
               [frame |-> cleared, err |-> "none"], struct.fields)

(* decode_field and from_raw.                                              *)
decode_field(struct, f, buf) ==
    LET u == IF f.scalar.signed THEN unpack_signed(buf, signal_for(struct, f))
             ELSE unpack_unsigned(buf, signal_for(struct, f))
    IN  IF u.err = "none" /\ f.kind = "enum" /\ u.value \notin Discriminants(f)
        THEN [u EXCEPT !.err = "UnknownEnumValue"] ELSE u

decode(struct, buf) ==
    LET all == [i \in DOMAIN struct.fields |-> decode_field(struct, struct.fields[i], buf)]
        bad == SelectSeq(all, LAMBDA u : u.err # "none")
    IN  CASE Bytes(buf) < struct.dlc -> [values |-> <<>>, err |-> "BufferTooSmall"]
          [] Bytes(buf) >= struct.dlc /\ bad # <<>> -> [values |-> <<>>, err |-> Head(bad).err]
          [] OTHER -> [values |-> [i \in DOMAIN all |-> all[i].value], err |-> "none"]

MessageInit == in \in Files

---------------------------------------------------------------------------
Positions(f) == Range(for_each_bit(f.sig))

Apart(struct) ==
    \A i, j \in DOMAIN struct.fields :
        i # j => Positions(struct.fields[i]) \cap Positions(struct.fields[j]) = {}

StructValues(struct) ==
    {v \in [DOMAIN struct.fields -> UNION {FieldValues(f) : f \in ToSet(struct.fields)}] :
       \A i \in DOMAIN v : v[i] \in FieldValues(struct.fields[i])}

Frames(bytes) == [0..(bytes * ByteBits - 1) -> {0, 1}]

(* The values that a signal of its width and the sign of its scalar holds. *)
Fits(f, value) == value \in ScalarValues([f.scalar EXCEPT !.bits = f.sig.bit_len])

EncodeAgrees(struct, buf) ==
    \A values \in StructValues(struct) :
        LET out == encode(struct, values, buf) IN
        /\ out.err = IF \A i \in DOMAIN values : Fits(struct.fields[i], values[i])
                     THEN "none" ELSE "ValueOutOfRange"
        /\ out.err = "none" /\ Apart(struct) =>
               decode(struct, out.frame) = [values |-> values, err |-> "none"]
        /\ out.err = "none" => \A p \in DOMAIN buf :
               p \notin UNION {Positions(f) : f \in ToSet(struct.fields)} =>
                   out.frame[p] = IF p < struct.dlc * ByteBits THEN 0 ELSE buf[p]

DecodeAgrees(struct, buf) ==
    LET read == decode(struct, buf) IN
    /\ read.err \in {"none", "UnknownEnumValue"}
    /\ read.err = "none" =>
           \A f \in ToSet(struct.fields) : \A p \in Positions(f) :
               encode(struct, read.values, buf).frame[p] = buf[p]

(* A DBC message is carried as its file declares it.  A signal is refused  *)
(* by lower just when the packing functions would refuse it in every frame *)
(* of the message.  The repr of an enum holds what a signed signal of its  *)
(* width does, the negative entries included.  Of what the tools accept    *)
(* and rustc compiles: encode fails only for a value its signal does not   *)
(* hold; where signals do not overlap, decode returns what was encoded;    *)
(* decode fails only for a value that no entry of the table names, and     *)
(* what it returns encodes to the same bits; bits of no signal are sent as *)
(* 0, and bytes past the message are left alone.                           *)
CarriedAsDeclared ==
    LET db == parse(in)
        lowered == lower(db)
    IN  /\ \A m \in ToSet(db.messages) : \A sig \in ToSet(m.signals) :
             (signal_error(m, sig) = "none")
                 <=> (check([p \in 0..(m.dlc * ByteBits - 1) |-> 0], sig) = "none")
        /\ \A f \in ToSet(enums(lowered.module)) :
             Discriminants(f) \subseteq ScalarValues([bits |-> f.sig.bit_len, signed |-> TRUE])
                 => Discriminants(f) \subseteq ScalarValues(f.scalar)
        /\ (/\ db.err = "none" /\ lowered.err = "none"
            /\ resolve(lowered.module) = "none" /\ Compiles(lowered.module)) =>
             \A struct \in ToSet(lowered.module) :
                 /\ EncodeAgrees(struct, [p \in 0..((struct.dlc + 1) * ByteBits - 1) |-> 1])
                 /\ \A buf \in Frames(struct.dlc) : DecodeAgrees(struct, buf)

==============================================================================
