-------------------------------- MODULE MCCan --------------------------------
(* The CAN connector, the acceptance filters it compiles, and the messages   *)
(* that DBC files declare.                                                   *)
EXTENDS CanConnector, Integers

VARIABLES
    part,      \* the one that runs
    in         \* CanFrames: the channels, or a DBC file

(* Two interfaces: channels are created on the first, the second sends.  The  *)
(* filter and the outbound queue of an interface concern its own task only,   *)
(* both tasks share the health monitor and the stop flag.                     *)
Channels == [i \in Ifaces |-> IF i = "a" THEN 2 ELSE 0]
Sends == [i \in Ifaces |-> IF i = "b" THEN 2 ELSE 0]

(* Lines of a DBC file.  *)
Message(id, extended, name, dlc) ==
    [keyword |-> "BO_", message |-> [id |-> [value |-> id, extended |-> extended], name |-> name,
                                     dlc |-> dlc, signals |-> <<>>]]
Signal(name, start, len, order, signed) ==
    [keyword |-> "SG_", signal |-> [name |-> name, start_bit |-> start, bit_len |-> len,
                                    order |-> order, signed |-> signed]]
Entry(name, value) == [name |-> name, value |-> value]
Table(id, extended, signal, entries) ==
    [keyword |-> "VAL_", table |-> [id |-> [value |-> id, extended |-> extended],
                                    signal |-> signal, entries |-> entries]]

(* One message of two signals, over places, widths, orders and signs, with    *)
(* and without a table.                                                       *)
Placed ==
    {<<Message(1, FALSE, <<"A">>, 2), Signal(<<"S">>, start, len, order, signed),
       Signal(<<"T">>, start2, len2, order2, FALSE)>> \o table :
       start \in 0..4, len \in 1..3, order \in {"little", "big"}, signed \in BOOLEAN,
       start2 \in 0..3, len2 \in 1..2, order2 \in {"little", "big"},
       table \in {<<>>, <<Table(1, FALSE, <<"S">>, <<Entry(<<"P">>, 0), Entry(<<"Q">>, 1)>>)>>,
                  <<Table(1, FALSE, <<"S">>, <<Entry(<<"P">>, -1), Entry(<<"Q">>, 3)>>)>>}}

(* Names that meet: as types, as enums, as fields and as variants, and tables *)
(* of messages that differ in the extended flag only.                         *)
Named ==
    {<<Message(1, FALSE, m, 1), Signal(s, 0, 1, "little", FALSE),
       Message(1, TRUE, m2, 1), Signal(s2, 0, 1, "big", FALSE), Signal(<<"T">>, 1, 1, "big", FALSE),
       Table(1, extended, <<"C">>, <<Entry(<<"P">>, 0), Entry(q, 1)>>)>> :
       m, m2 \in {<<"A">>, <<"A", "B">>, <<"A", "_", "B">>},
       s, s2 \in {<<"C">>, <<"T">>, <<"_", "T">>}, extended \in BOOLEAN,
       q \in {<<"P">>, <<"_", "P">>, <<"Q">>}}

Malformed ==
    {<<Signal(<<"S">>, 0, 1, "little", FALSE), Message(1, FALSE, <<"A">>, 1)>>}
    \cup {<<Message(1, FALSE, <<"A">>, 1), Signal(<<"S">>, 0, len, "big", FALSE)>> :
            len \in {0, 17}}

Files == Placed \cup Named \cup Malformed

Frames == INSTANCE CanFrames WITH IdBits <- 2, MaxChannels <- 2, ByteBits <- 2

mcVars == <<part, vars, in>>

MCInit ==
    /\ Init
    /\ \/ part = "can" /\ in = <<>>
       \/ part = "filter" /\ Frames!FilterInit
       \/ part = "message" /\ Frames!MessageInit

MCNext ==
    \/ part = "can" /\ Next /\ UNCHANGED <<part, in>>
    \/ part \in {"filter", "message"} /\ UNCHANGED mcVars

MCFairness == \A i \in Ifaces : WF_vars(part = "can" /\ Task(i))

MCSpec == MCInit /\ [][MCNext]_mcVars /\ MCFairness

------------------------------------------------------------------------------
(* Properties.  AggregateTruthful and CanServed are the connector's own. *)

\* CanFrames: the kernel passes exactly the channels' identifiers, and a message
\* is encoded and decoded as its DBC file declares it.
FramesAsDeclared ==
    /\ part = "filter" => Frames!FilterIsUnion
    /\ part = "message" => Frames!CarriedAsDeclared

\* CanConnector: all tasks end after a stop, and a channel is let through in the
\* end.
CanEnds == (Stopping ~> AllEnded) /\ ChannelsServed
==============================================================================
