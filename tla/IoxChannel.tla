------------------------------ MODULE IoxChannel ------------------------------
(***************************************************************************)
(* One channel of the iceoryx2 transport                                   *)
(* (crates/taktora-connector-transport-iox): a writer that stamps each     *)
(* envelope with a sequence number and a checksum (channel.rs, raw.rs,     *)
(* envelope.rs), and a reader that verifies both and counts what it finds. *)
(* A typed channel uses ChannelWriter and ChannelReader, otherwise the raw *)
(* pair does: separate code.  The service is external: a queue of          *)
(* BufferSize envelopes with a history of one, which reaches a reader that *)
(* joins late with the writer's next send; a full queue makes the writer   *)
(* wait (no safe overflow), shared memory may be damaged.  Sequence        *)
(* numbers wrap at SeqMod.                                                 *)
(***************************************************************************)
EXTENDS Naturals, Sequences

CONSTANTS
    Values,
    SeqMod,        \* 2^64 in the code
    BufferSize,    \* SUBSCRIBER_MAX_BUFFER_SIZE
    MaxSends, MaxFaults

VARIABLES
    typed,
    sequence,      \* ChannelWriter.sequence
    queue,         \* envelopes in the subscriber's queue
    history,       \* the last envelope sent, at most one
    joined,        \* the reader: "no", "new" until the next send, "yes"
    expected_sequence, crc_errors, sequence_gaps,
    sends, faults, \* bounds
    log            \* history: what happened to the envelopes of this reader

vars == <<typed, sequence, queue, history, joined, expected_sequence, crc_errors, sequence_gaps,
          sends, faults, log>>

Envelope(n, v) == [sequence_number |-> n, value |-> v, intact |-> TRUE]

Init ==
    /\ typed \in BOOLEAN
    /\ sequence = 0
    /\ queue = <<>>
    /\ history = <<>>
    /\ joined \in {"no", "yes"}
    /\ expected_sequence = 0 /\ crc_errors = 0 /\ sequence_gaps = 0
    /\ sends = 0 /\ faults = 0
    /\ log = [sent |-> <<>>, received |-> <<>>, corrupt |-> 0, unsent |-> 0, missed |-> 0, failed |-> 0]

(* The number is taken, the envelope stamped and handed to the service. *)
Transmit(v) ==
    LET envelope == Envelope(sequence, v)
        delivered == IF joined = "no" THEN <<>>
                     ELSE IF joined = "new" THEN Append(history, envelope)
                     ELSE <<envelope>>
    IN  /\ sends < MaxSends
        /\ Len(queue) + Len(delivered) <= BufferSize
        /\ sequence' = (sequence + 1) % SeqMod
        /\ sends' = sends + 1
        /\ history' = <<envelope>>
        /\ queue' = queue \o delivered
        /\ joined' = IF joined = "new" THEN "yes" ELSE joined
        /\ log' = [log EXCEPT !.sent = @ \o [k \in DOMAIN delivered |-> delivered[k].value],
                              !.missed = @ + 1 - Len(delivered)]
        /\ UNCHANGED <<typed, expected_sequence, crc_errors, sequence_gaps, faults>>

(* A codec error or an overflow returns before the number is taken and     *)
(* changes nothing.                                                        *)
send_with_correlation(v) == typed /\ Transmit(v)

send_raw_bytes_v2(v) == ~typed /\ Transmit(v)

(* The sequence number is taken and the service refuses the envelope. *)
SendFails ==
    /\ sends < MaxSends /\ faults < MaxFaults
    /\ sequence' = (sequence + 1) % SeqMod
    /\ sends' = sends + 1 /\ faults' = faults + 1
    /\ log' = [log EXCEPT !.unsent = @ + 1]
    /\ UNCHANGED <<typed, queue, history, joined, expected_sequence, crc_errors, sequence_gaps>>

(* External: the bytes of a queued envelope are damaged. *)
Damage ==
    /\ faults < MaxFaults
    /\ \E k \in DOMAIN queue :
        /\ queue[k].intact
        /\ queue' = [queue EXCEPT ![k].intact = FALSE, ![k].value = "damaged"]
    /\ faults' = faults + 1
    /\ UNCHANGED <<typed, sequence, history, joined, expected_sequence, crc_errors, sequence_gaps, sends, log>>

(* A reader is created. *)
Join ==
    /\ joined = "no"
    /\ joined' = "new"
    /\ UNCHANGED <<typed, sequence, queue, history, expected_sequence, crc_errors, sequence_gaps,
                   sends, faults, log>>

verify_crc(envelope) == envelope.intact

CheckSequence(envelope) ==
    /\ sequence_gaps' = IF envelope.sequence_number = expected_sequence THEN sequence_gaps
                        ELSE sequence_gaps + 1
    /\ expected_sequence' = (envelope.sequence_number + 1) % SeqMod

(* An intact envelope: its number is checked, decoding may still fail. *)
Accept(envelope) ==
    /\ CheckSequence(envelope)
    /\ \/ /\ log' = [log EXCEPT !.received = Append(@, envelope.value)]
          /\ UNCHANGED faults
       \/ /\ faults < MaxFaults
          /\ faults' = faults + 1
          /\ log' = [log EXCEPT !.failed = @ + 1]
    /\ UNCHANGED crc_errors

(* ChannelReader drops a damaged envelope. *)
try_recv ==
    /\ typed /\ queue # <<>>
    /\ queue' = Tail(queue)
    /\ \/ /\ ~verify_crc(Head(queue))
          /\ log' = [log EXCEPT !.corrupt = @ + 1]
          /\ UNCHANGED <<crc_errors, expected_sequence, sequence_gaps, faults>>
       \/ verify_crc(Head(queue)) /\ Accept(Head(queue))
    /\ UNCHANGED <<typed, sequence, history, joined, sends>>

(* RawChannelReader counts it, too. *)
try_recv_into ==
    /\ ~typed /\ queue # <<>>
    /\ queue' = Tail(queue)
    /\ \/ /\ ~verify_crc(Head(queue))
          /\ crc_errors' = crc_errors + 1
          /\ log' = [log EXCEPT !.corrupt = @ + 1]
          /\ UNCHANGED <<expected_sequence, sequence_gaps, faults>>
       \/ verify_crc(Head(queue)) /\ Accept(Head(queue))
    /\ UNCHANGED <<typed, sequence, history, joined, sends>>

Next ==
    \/ \E v \in Values : send_with_correlation(v) \/ send_raw_bytes_v2(v)
    \/ SendFails \/ Damage \/ Join \/ try_recv \/ try_recv_into

Spec == Init /\ [][Next]_vars

-----------------------------------------------------------------------------
TypeOK ==
    /\ sequence \in 0..(SeqMod - 1) /\ expected_sequence \in 0..(SeqMod - 1)
    /\ Len(queue) <= BufferSize /\ Len(history) <= 1

(* The counters of a raw reader tell whether it got everything: when its   *)
(* queue is empty and no counter moved and no call failed, the values it   *)
(* returned are the values sent, in order; and a gap is counted only if an *)
(* envelope really is missing (try_recv_into, and try_recv for the gaps).  *)
CountersTellLoss ==
    joined # "no" /\ queue = <<>> =>
        /\ ~typed /\ crc_errors = 0 /\ sequence_gaps = 0 /\ log.failed = 0 => log.received = log.sent
        /\ sequence_gaps > 0 => log.unsent + log.corrupt + log.missed > 0

(* "the crc_errors() counter is incremented" (try_recv) for every envelope *)
(* dropped because its checksum does not match.                            *)
CorruptCounted == crc_errors = log.corrupt
==============================================================================
