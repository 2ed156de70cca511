------------------------------- MODULE MCJ1939 -------------------------------
(* The J1939 connector: the transport protocol, the address claim, the
   identifiers, one at a time.  Claim and identifiers share variables, since
   only one component runs. *)
EXTENDS J1939Tp

VARIABLES
    part,    \* the component that runs
    x1, x2, x3, x4, x5, x6, x7, x8, x9, x10, x11, x12

CONSTANT Parts    \* the components to run

(* J1939Tp: two nodes, windows of two packets, connection-mode messages of two *)
(* and three packets and extended ones of four and more.                       *)
MaxEtpPerNode == [n \in Nodes |-> IF n = "a" THEN 6 ELSE 5]

(* All protocols compete for one session while packets are lost. *)
OneSession == [protos |-> Protos, pgns |-> {"p"}, sizes |-> {3, 5}, limits |-> {NoLimit},
               sessions |-> 1, loss |-> "data", senders |-> {"a"}, transfers |-> 2]

(* A connection given up and retried twice. *)
Retries == [OneSession EXCEPT !.protos = {"tp"}, !.sizes = {3}, !.transfers = 3]

(* Two PGNs on a bus that loses nothing. *)
TwoPgns == [OneSession EXCEPT !.protos = {"bam", "tp"}, !.sizes = {3}, !.pgns = {"p", "q"},
                              !.loss = "none", !.sessions = 2]

(* Connections in both directions under one PGN, one packet per clear-to-send. *)
BothWays == [OneSession EXCEPT !.protos = {"tp"}, !.sizes = {3}, !.limits = {1},
                               !.senders = {"a", "b"}]

(* Extended messages of several sizes, one too large for the receiver. *)
Oversize == [OneSession EXCEPT !.protos = {"etp"}, !.sizes = {4, 5, 6}, !.loss = "none"]

(* Any frame of a connection may be lost. *)
Lossy == [OneSession EXCEPT !.protos = {"tp", "etp"}, !.sizes = {2, 4}, !.loss = "any"]

Safe == {OneSession, Retries, TwoPgns, BothWays, Oversize, Lossy}

(* Broadcasts of two PGNs, with packets lost. *)
Broadcasts == {[OneSession EXCEPT !.protos = {"bam"}, !.pgns = {"p", "q"}, !.sizes = {2, 3},
                                  !.sessions = 2]}

(* While another component runs, the transport is at rest. *)
Quiet == conf = OneSession /\ Init

(* J1939Claim: the node "a" has the smaller NAME, both want one address. *)
Names == [n \in Nodes |-> IF n = "a" THEN 1 ELSE 2]
Wanted == [n \in Nodes |-> 1]
Addresses == {1, 2}
Spare == {2}

(* Identifiers: parameter groups on both sides of the limit between PDU1 and   *)
(* PDU2, with and without a low byte, and of every data page.                  *)
Pgns == {0, 1, 256, 61183, 61184, 61440, 65535, 126720, 262143, 262144}
Addrs == {0, 1, 255}
OptionalAddrs == Addrs \cup {NoLimit}
Routings ==
    [out : [pgn : Pgns, priority : {6, 9}, source_addr : Addrs, dest_addr : OptionalAddrs],
     inb : [pgn : Pgns, source_addr : OptionalAddrs, dest_addr : OptionalAddrs]]

Claims == INSTANCE J1939Claim WITH
    Name <- Names, Configured <- Wanted, Commandable <- Spare, Null <- 254, None <- NoLimit,
    MaxInputs <- 2, eng <- x1, events <- x2, pc <- x3, gate <- x4, health <- x5,
    inbox <- x6, writer <- x7, queued <- x8, missed <- x9, stray <- x10, budget <- x11,
    closed <- x12

\* A component uses the first n of the variables.
Unused(n) ==
    /\ (n < 2 => x2 = 0) /\ (n < 3 => x3 = 0) /\ (n < 4 => x4 = 0) /\ (n < 5 => x5 = 0)
    /\ (n < 6 => x6 = 0) /\ (n < 7 => x7 = 0) /\ (n < 8 => x8 = 0) /\ (n < 9 => x9 = 0)
    /\ (n < 10 => x10 = 0) /\ (n < 11 => x11 = 0) /\ (n < 12 => x12 = 0)

Kept(n) ==
    /\ (n < 2 => x2' = x2) /\ (n < 3 => x3' = x3) /\ (n < 4 => x4' = x4) /\ (n < 5 => x5' = x5)
    /\ (n < 6 => x6' = x6) /\ (n < 7 => x7' = x7) /\ (n < 8 => x8' = x8) /\ (n < 9 => x9' = x9)
    /\ (n < 10 => x10' = x10) /\ (n < 11 => x11' = x11) /\ (n < 12 => x12' = x12)

mcVars == <<part, vars, x1, x2, x3, x4, x5, x6, x7, x8, x9, x10, x11, x12>>

MCInit ==
    /\ part \in Parts
    /\ \/ part = "tp" /\ Init /\ x1 = 0 /\ Unused(1)
       \/ part = "claim" /\ Claims!Init /\ Unused(12) /\ Quiet
       \/ part = "id" /\ x1 \in Routings /\ Unused(1) /\ Quiet

MCNext ==
    \/ part = "tp" /\ Next /\ UNCHANGED <<part, x1, x2, x3, x4, x5, x6, x7, x8, x9, x10, x11, x12>>
    \/ part = "claim" /\ Claims!Next /\ Kept(12) /\ UNCHANGED <<part, vars>>
    \/ part \in {"claim", "id"} /\ UNCHANGED mcVars

MCFairness ==
    /\ WF_vars(part = "tp" /\ Tick)
    /\ \A n \in Nodes : WF_vars(part = "tp" /\ Iterate(n))
    /\ \A n \in Nodes : WF_(Claims!vars)(part = "claim" /\ Claims!Iterate(n))
    /\ \A n \in Nodes : WF_(Claims!vars)(part = "claim" /\ Claims!WaitElapses(n))

MCSpec == MCInit /\ [][MCNext]_mcVars /\ MCFairness

------------------------------------------------------------------------------
(* Properties; those of the transport are its own. *)

\* J1939Claim: two nodes hold one address only while a claim between them is on
\* its way, and between iterations the writers' gate is the state of the claim.
OneOwner == part = "claim" => Claims!OneOwner /\ Claims!GateIsState

\* J1939Claim: a frame is published to exactly the channels its address names.
RoutedAsAddressed == part = "id" => Claims!RoutedAsAddressed(x1.out, x1.inb)

\* No session is kept for ever, and no exchange of claims goes on for ever.
ExchangesEnd ==
    /\ []<>(part = "tp" => NoSession)
    /\ <>[](part = "claim" => Claims!Settled)
==============================================================================
