------------------------- MODULE CanConnectorProofs -------------------------
(***************************************************************************)
(* For any number of interfaces, the health the CAN connector reports is   *)
(* the aggregate of its interfaces, up to the one exception that           *)
(* AggregateTruthful names.  The invariant is not inductive alone: that an *)
(* ignored illegal transition does no harm rests on what each task has     *)
(* last told the monitor, which follows from where the task is.  A second  *)
(* invariant, about filters and queues, shows that a task serves the       *)
(* channels it has counted and sends its envelopes in order.               *)
(***************************************************************************)
EXTENDS CanConnector, SequenceTheorems, TLAPS

Types == pc \in [Ifaces -> Steps] /\ kind \in [Ifaces -> Kinds] /\ agg \in Kinds

KindOfStep ==
    \A i \in Ifaces :
        /\ pc[i] \in {"new", "start", "bringup", "up"} => kind[i] = "Connecting"
        /\ pc[i] \in {"top", "compile", "apply", "drain", "send", "rx"} =>
              kind[i] \in {"Up", "Degraded"}
        /\ pc[i] \in {"busoff", "closed", "delay", "reopened", "connecting"} => kind[i] = "Down"
        /\ pc[i] = "ended" => kind[i] # "Connecting"

\* register_with spawns all tasks at once.
NewTogether ==
    (\E i \in Ifaces : pc[i] = "new") =>
        agg = "Connecting" /\ \A i \in Ifaces : pc[i] = "new"

Close(a, k) == a = Aggregate(k) \/ (a = "Up" /\ Aggregate(k) = "Connecting")

IInv == Types /\ KindOfStep /\ NewTogether /\ Close(agg, kind)

(* aggregate returns a kind of health.                                     *)
LEMMA AggregateType == \A k : Aggregate(k) \in Kinds
  BY DEF Aggregate, Kinds

(* set_iface keeps the report close to the aggregate, provided that an     *)
(* interface that is down is first set to Connecting.                      *)
LEMMA SetIfaceClose ==
  ASSUME NEW a \in Kinds, NEW k \in [Ifaces -> Kinds], NEW i \in Ifaces, NEW new \in Kinds,
         Close(a, k), k[i] = "Down" => new \in {"Connecting", "Down"}
  PROVE  LET k2 == [k EXCEPT ![i] = new]
         IN  Close(IF Legal(a, Aggregate(k2)) THEN Aggregate(k2) ELSE a, k2)
<1> DEFINE k2 == [k EXCEPT ![i] = new]
<1>1. k2 \in [Ifaces -> Kinds] /\ k2[i] = new
  OBVIOUS
<1>2. CASE a = "Down"
  <2>1. \A j \in Ifaces : k[j] = "Down"
    BY <1>2 DEF Close, Aggregate
  <2>2. \A j \in Ifaces : k2[j] \in {"Connecting", "Down"}
    BY <2>1, Zenon
  <2>3. Aggregate(k2) \in {"Connecting", "Down"}
    BY <2>2 DEF Aggregate
  <2> QED
    BY <1>2, <2>3 DEF Close, Legal
<1>3. CASE a \in {"Connecting", "Degraded"}
  BY <1>3, AggregateType DEF Close, Legal, Kinds
<1>4. CASE a = "Up"
  BY <1>4, AggregateType DEF Close, Legal, Kinds
<1> QED
  BY <1>2, <1>3, <1>4 DEF Kinds

(* The report is truthful once the invariant holds: an interface that is   *)
(* Connecting has a task that is about to bring it up.                     *)
LEMMA Truthful == IInv => AggregateTruthful
<1> SUFFICES ASSUME IInv, agg = "Up", Aggregate(kind) = "Connecting"
             PROVE  \E i \in Ifaces : kind[i] = "Connecting" /\ pc[i] \in {"start", "bringup", "up"}
  BY DEF IInv, Close, AggregateTruthful
<1>1. PICK i \in Ifaces : kind[i] = "Connecting"
  BY DEF Aggregate, IInv, Types, Kinds
<1>2. pc[i] # "new"
  BY DEF IInv, NewTogether
<1>3. pc[i] \in Steps
  BY DEF IInv, Types
<1> QED
  BY <1>1, <1>2, <1>3 DEF IInv, KindOfStep, Steps

(* A step of a task that tells the monitor k and goes on to s.             *)
LEMMA Told ==
  ASSUME IInv, NEW i \in Ifaces, NEW k \in Kinds, NEW s \in Steps \ {"new"},
         pc[i] # "new", SetIface(i, k), Goto(i, s),
         kind[i] = "Down" => k \in {"Connecting", "Down"},
         s \in {"start", "bringup", "up"} => k = "Connecting",
         s \in {"top", "compile", "apply", "drain", "send", "rx"} => k \in {"Up", "Degraded"},
         s \in {"busoff", "closed", "delay", "reopened", "connecting"} => k = "Down",
         s = "ended" => k # "Connecting"
  PROVE  IInv'
<1>1. Types'
  BY AggregateType DEF IInv, Types, SetIface, Goto
<1>2. KindOfStep'
  BY DEF IInv, Types, KindOfStep, SetIface, Goto
<1>3. NewTogether'
  BY DEF IInv, Types, NewTogether, Goto
<1>4. Close(agg, kind)'
  BY SetIfaceClose, Zenon DEF IInv, Types, SetIface
<1> QED
  BY <1>1, <1>2, <1>3, <1>4 DEF IInv

(* A step of a task that tells the monitor nothing.                        *)
LEMMA Silent ==
  ASSUME IInv, NEW i \in Ifaces, NEW s \in Steps \ {"new"}, pc[i] # "new",
         UNCHANGED healthVars, Goto(i, s),
         s \in {"start", "bringup", "up"} => kind[i] = "Connecting",
         s \in {"top", "compile", "apply", "drain", "send", "rx"} => kind[i] \in {"Up", "Degraded"},
         s \in {"busoff", "closed", "delay", "reopened", "connecting"} => kind[i] = "Down",
         s = "ended" => kind[i] # "Connecting"
  PROVE  IInv'
<1>1. Types'
  BY DEF IInv, Types, healthVars, Goto
<1>2. KindOfStep'
  BY DEF IInv, Types, KindOfStep, healthVars, Goto
<1>3. NewTogether'
  BY DEF IInv, Types, NewTogether, healthVars, Goto
<1>4. Close(agg, kind)'
  BY DEF IInv, healthVars, Close, Aggregate
<1> QED
  BY <1>1, <1>2, <1>3, <1>4 DEF IInv

(* Every step of a dispatcher task keeps the invariant.                    *)
LEMMA TaskStep == ASSUME IInv, NEW i \in Ifaces, Task(i) PROVE IInv'
<1> USE DEF Steps, Kinds
<1>1. CASE CompileInitial(i)
  <2>1. kind[i] = "Connecting"
    BY <1>1 DEF CompileInitial, IInv, KindOfStep
  <2> QED
    BY <1>1, <2>1, Silent DEF CompileInitial
<1>2. CASE BringUp(i)
  <2>1. kind[i] = "Connecting"
    BY <1>2 DEF BringUp, IInv, KindOfStep
  <2>2. CASE SetIface(i, "Up") /\ Goto(i, "top")
    BY <1>2, <2>1, <2>2, Told DEF BringUp
  <2>3. CASE SetIface(i, "Down") /\ Goto(i, "ended")
    BY <1>2, <2>1, <2>3, Told DEF BringUp
  <2> QED
    BY <1>2, <2>2, <2>3 DEF BringUp
<1>3. CASE Top(i) \/ Recompile(i) \/ Apply(i) \/ Drain(i) \/ Receive(i)
  <2>1. kind[i] \in {"Up", "Degraded"} /\ pc[i] # "new"
    BY <1>3 DEF Top, Recompile, Apply, Drain, Receive, IInv, KindOfStep
  <2>2. UNCHANGED healthVars
    BY <1>3 DEF Top, Recompile, Apply, Drain, Receive
  <2>3. \E s \in {"top", "compile", "apply", "drain", "send", "rx", "ended"} : Goto(i, s)
    BY <1>3 DEF Top, Recompile, Apply, Drain, Receive
  <2> QED
    BY <2>1, <2>2, <2>3, Silent
<1>4. CASE Send(i)
  <2>1. kind[i] \in {"Up", "Degraded"} /\ pc[i] = "send" /\ UNCHANGED healthVars
    BY <1>4 DEF Send, IInv, KindOfStep
  <2>2. \E s \in {"send", "rx", "ended"} : Goto(i, s)
    BY <1>4, <2>1 DEF Send, FailedSend, Goto, IInv, Types
  <2> QED
    BY <2>1, <2>2, Silent
<1>5. CASE ReceiveError(i)
  <2>1. kind[i] \in {"Up", "Degraded"} /\ pc[i] # "new"
    BY <1>5 DEF ReceiveError, IInv, KindOfStep
  <2>2. CASE SetIface(i, "Degraded") /\ Goto(i, "top")
    BY <2>1, <2>2, Told
  <2>3. CASE SetIface(i, "Down") /\ (Goto(i, "busoff") \/ Goto(i, "closed"))
    BY <2>1, <2>3, Told
  <2> QED
    BY <1>5, <2>2, <2>3 DEF ReceiveError
<1>6. CASE Retry(i) \/ Reopen(i) \/ Reapply(i)
  <2>1. kind[i] = "Down" /\ pc[i] # "new"
    BY <1>6 DEF Retry, Reopen, Reapply, IInv, KindOfStep
  <2>2. UNCHANGED healthVars
    BY <1>6 DEF Retry, Reopen, Reapply
  <2>3. \E s \in {"closed", "delay", "reopened", "connecting", "ended"} : Goto(i, s)
    BY <1>6 DEF Retry, Reopen, Reapply
  <2> QED
    BY <2>1, <2>2, <2>3, Silent
<1>7. CASE Reconnecting(i)
  BY <1>7, Told DEF Reconnecting
<1>8. CASE Reconnected(i)
  <2>1. kind[i] = "Connecting"
    BY <1>8 DEF Reconnected, IInv, KindOfStep
  <2> QED
    BY <1>8, <2>1, Told DEF Reconnected
<1> QED
  BY <1>1, <1>2, <1>3, <1>4, <1>5, <1>6, <1>7, <1>8 DEF Task

(* The invariant that ties the report to the interfaces and the interfaces *)
(* to the steps of their tasks (set_iface, dispatcher_loop) always holds.  *)
THEOREM HealthInvariance == Spec => []IInv
<1>1. Init => IInv
  <2> SUFFICES ASSUME Init PROVE IInv
    OBVIOUS
  <2>1. Types /\ KindOfStep /\ NewTogether
    BY DEF Init, Types, KindOfStep, NewTogether, Steps, Kinds
  <2>2. Aggregate(kind) = "Connecting"
    BY CanAssumption DEF Init, Aggregate
  <2> QED
    BY <2>1, <2>2 DEF IInv, Close, Init
<1>2. IInv /\ [Next]_vars => IInv'
  <2> SUFFICES ASSUME IInv, [Next]_vars PROVE IInv'
    OBVIOUS
  <2>1. ASSUME pc' = pc, UNCHANGED healthVars PROVE IInv'
    BY <2>1 DEF IInv, Types, KindOfStep, NewTogether, Close, Aggregate, healthVars
  <2>2. CASE RegisterWith
    <3>1. Types' /\ KindOfStep' /\ NewTogether'
      BY <2>2, CanAssumption DEF RegisterWith, healthVars, IInv, Types, KindOfStep, NewTogether,
                                 Steps
    <3>2. Close(agg, kind)'
      BY <2>2 DEF RegisterWith, healthVars, IInv, Close, Aggregate
    <3> QED
      BY <3>1, <3>2 DEF IInv
  <2>3. CASE \E i \in Ifaces : Task(i)
    BY <2>3, TaskStep
  <2>4. CASE \/ StopDispatchers \/ Ended \/ \E i \in Ifaces : WriterSend(i)
             \/ \E i \in Ifaces, id \in Ids : CreateReader(i, id)
    BY <2>4, <2>1 DEF StopDispatchers, Ended, WriterSend, CreateReader, vars, healthVars
  <2>5. CASE UNCHANGED vars
    BY <2>5, <2>1 DEF vars, healthVars
  <2> QED
    BY <2>2, <2>3, <2>4, <2>5 DEF Next
<1> QED
  BY <1>1, <1>2, PTL DEF Spec

(* For any set of interfaces: the health that CanConnector::health reports *)
(* is the aggregate of the interfaces (REQ_0630), except that Up is        *)
(* reported instead of Connecting while an interface is brought up.        *)
THEOREM AggregateSafety == Spec => []AggregateTruthful
  BY HealthInvariance, Truthful, PTL

-----------------------------------------------------------------------------
(* What the driver lets through, and the queue.  A task remembers how many *)
(* channels it compiled its filter for, not which: since channels are only *)
(* ever added, an equal count means equal channels.  A reopened socket     *)
(* accepts every identifier, so that a filter which is not applied again,  *)
(* or fails to be, is never narrower than the last one remembered.         *)
Registry ==
    /\ inbound \in [Ifaces -> Seq(Ids)]
    /\ filter \in [Ifaces -> SUBSET Ids] /\ lastFilter \in [Ifaces -> SUBSET Ids]
    /\ compiled \in [Ifaces -> SUBSET Ids]
    /\ lastCount \in [Ifaces -> Nat] /\ count \in [Ifaces -> Nat]

FilterOf(i) ==
    /\ lastCount[i] <= Len(inbound[i]) /\ count[i] <= Len(inbound[i])
    /\ lastFilter[i] \subseteq filter[i]
    /\ pc[i] \in {"new", "start", "bringup"} => lastCount[i] = 0 /\ filter[i] = Ids
    /\ pc[i] = "reopened" => filter[i] = Ids
    /\ pc[i] = "apply" /\ count[i] = Len(inbound[i]) => Wanted(i) \subseteq compiled[i]
    /\ lastCount[i] = Len(inbound[i]) => Wanted(i) \subseteq filter[i]

Queues ==
    /\ outbox \in [Ifaces -> Seq(Nat)] /\ jobs \in [Ifaces -> Seq(Nat)]
    /\ sent \in [Ifaces -> Seq(Nat)]

QueueOf(i) ==
    /\ pc[i] # "send" => jobs[i] = <<>>
    /\ pc[i] # "ended" => sent[i] \o jobs[i] \o outbox[i] = Numbers(Written(i))

Steady == pc \in [Ifaces -> Steps]

FInv == Steady /\ Registry /\ \A i \in Ifaces : FilterOf(i)
QInv == Steady /\ Queues /\ \A i \in Ifaces : QueueOf(i)

LEMMA WantedIds ==
    ASSUME Registry, NEW i \in Ifaces
    PROVE  /\ Wanted(i) \subseteq Ids /\ Len(inbound[i]) \in Nat
           /\ Len(inbound[i]) = 0 => Wanted(i) = {}
<1>1. inbound[i] \in Seq(Ids)
  BY DEF Registry
<1>2. /\ Len(inbound[i]) \in Nat /\ DOMAIN inbound[i] = 1..Len(inbound[i])
      /\ inbound[i] \in [1..Len(inbound[i]) -> Ids]
  BY <1>1, LenProperties
<1> QED BY <1>2 DEF Wanted

(* A step of the task of i leaves what other tasks know alone. *)
Moves(i) ==
    /\ UNCHANGED inbound /\ Steady' /\ Registry'
    /\ \A j \in Ifaces \ {i} :
          /\ pc'[j] = pc[j] /\ filter'[j] = filter[j] /\ lastFilter'[j] = lastFilter[j]
          /\ compiled'[j] = compiled[j] /\ lastCount'[j] = lastCount[j] /\ count'[j] = count[j]

(* The dispatcher's steps, the registry locked for each of its two reads.  *)
LEMMA TaskFilter ==
    ASSUME FInv, NEW i \in Ifaces, Task(i)
    PROVE  FInv'
<1> USE DEF FInv, Steady
<1>1. UNCHANGED inbound
  BY DEF Task, CompileInitial, BringUp, Top, Recompile, Apply, Drain, Send, Receive, ReceiveError,
         Retry, Reopen, Reapply, Reconnecting, Reconnected
<1>2. \A j \in Ifaces : Wanted(j)' = Wanted(j)
  BY <1>1 DEF Wanted
<1>3. /\ Wanted(i) \subseteq Ids /\ Len(inbound[i]) \in Nat
      /\ Len(inbound[i]) = 0 => Wanted(i) = {}
  BY WantedIds
<1> SUFFICES Moves(i) /\ FilterOf(i)'
  BY <1>1, <1>2 DEF Moves, FilterOf
<1>4. CASE CompileInitial(i)
  <2>1. Moves(i)
    BY <1>1, <1>3, <1>4 DEF CompileInitial, Goto, Registry, Moves, Steps
  <2>2. FilterOf(i)'
    BY <1>1, <1>2, <1>3, <1>4 DEF CompileInitial, Goto, Registry, FilterOf
  <2> QED BY <2>1, <2>2
<1>5. CASE Recompile(i)
  <2>1. Moves(i)
    BY <1>1, <1>3, <1>5 DEF Recompile, Goto, Registry, Moves, Steps
  <2>2. FilterOf(i)'
    BY <1>1, <1>2, <1>3, <1>5 DEF Recompile, Goto, Registry, FilterOf
  <2> QED BY <2>1, <2>2
<1>6. CASE BringUp(i)
  <2>1. Moves(i)
    <3>1. /\ pc' = [pc EXCEPT ![i] = "top"] \/ pc' = [pc EXCEPT ![i] = "ended"]
          /\ filter' = filter \/ filter' = [filter EXCEPT ![i] = compiled[i]]
          /\ lastFilter' = lastFilter \/ lastFilter' = [lastFilter EXCEPT ![i] = compiled[i]]
          /\ UNCHANGED <<lastCount, count, compiled>>
      BY <1>6 DEF BringUp, ApplyFilter, Goto
    <3> QED BY <1>1, <3>1, Zenon DEF Registry, Moves, Steps
  <2>2. FilterOf(i)'
    BY <1>1, <1>2, <1>3, <1>6 DEF BringUp, ApplyFilter, Goto, Registry, FilterOf
  <2> QED BY <2>1, <2>2
<1>7. CASE Top(i)
  <2>1. Moves(i)
    BY <1>1, <1>3, <1>7, Zenon DEF Top, Goto, Registry, Moves, Steps
  <2>2. FilterOf(i)'
    BY <1>1, <1>2, <1>3, <1>7 DEF Top, Goto, Registry, FilterOf
  <2> QED BY <2>1, <2>2
<1>8. CASE Apply(i)
  <2>1. Moves(i)
    <3>1. /\ pc' = [pc EXCEPT ![i] = "drain"] \/ pc' = [pc EXCEPT ![i] = "ended"]
          /\ filter' = filter \/ filter' = [filter EXCEPT ![i] = compiled[i]]
          /\ lastFilter' = lastFilter \/ lastFilter' = [lastFilter EXCEPT ![i] = compiled[i]]
          /\ lastCount' = lastCount \/ lastCount' = [lastCount EXCEPT ![i] = count[i]]
          /\ UNCHANGED <<count, compiled>>
      BY <1>8 DEF Apply, ApplyFilter, Remembered, Goto
    <3> QED BY <1>1, <3>1, Zenon DEF Registry, Moves, Steps
  <2>2. FilterOf(i)'
    BY <1>1, <1>2, <1>3, <1>8 DEF Apply, ApplyFilter, Remembered, Goto, Registry, FilterOf
  <2> QED BY <2>1, <2>2
<1>9. CASE Reopen(i)
  <2>1. Moves(i)
    BY <1>1, <1>3, <1>9, Zenon DEF Reopen, ApplyFilter, Goto, Registry, Moves, Steps
  <2>2. FilterOf(i)'
    BY <1>1, <1>2, <1>3, <1>9 DEF Reopen, ApplyFilter, Goto, Registry, FilterOf
  <2> QED BY <2>1, <2>2
<1>10. CASE Reapply(i)
  <2>1. Moves(i)
    BY <1>1, <1>3, <1>10, Zenon DEF Reapply, ApplyFilter, Goto, Registry, Moves, Steps
  <2>2. FilterOf(i)'
    BY <1>1, <1>2, <1>3, <1>10 DEF Reapply, ApplyFilter, Goto, Registry, FilterOf
  <2> QED BY <2>1, <2>2
<1>11. CASE Drain(i) \/ Send(i) \/ Receive(i) \/ ReceiveError(i) \/ Retry(i) \/ Reconnecting(i)
            \/ Reconnected(i)
  <2>1. UNCHANGED filterVars /\ pc[i] \notin {"new", "start", "bringup"}
    BY <1>11 DEF Drain, Send, Receive, ReceiveError, Retry, Reconnecting, Reconnected
  <2>2. PICK s \in {"top", "send", "rx", "ended", "busoff", "closed", "delay", "up"} :
          pc' = [pc EXCEPT ![i] = s]
    BY <1>11 DEF Drain, Send, FailedSend, Receive, ReceiveError, Retry, Reconnecting, Reconnected, Goto
  <2> QED BY <1>1, <1>2, <2>1, <2>2 DEF filterVars, Registry, FilterOf, Moves, Steps
<1> QED BY <1>4, <1>5, <1>6, <1>7, <1>8, <1>9, <1>10, <1>11, SMTT(20) DEF Task

LEMMA CreateReaderFilter ==
    ASSUME FInv, NEW i \in Ifaces, NEW id \in Ids, CreateReader(i, id)
    PROVE  FInv'
<1> USE DEF FInv, Steady
<1>1. inbound' = [inbound EXCEPT ![i] = Append(inbound[i], id)] /\ UNCHANGED <<pc, filterVars>>
  BY DEF CreateReader
<1>2. inbound \in [Ifaces -> Seq(Ids)] /\ inbound[i] \in Seq(Ids)
  BY DEF Registry
<1>3. Append(inbound[i], id) \in Seq(Ids) /\ Len(Append(inbound[i], id)) = Len(inbound[i]) + 1
  BY <1>2
<1>4. Registry'
  BY <1>1, <1>2, <1>3 DEF Registry, filterVars
<1>5. ASSUME NEW j \in Ifaces PROVE FilterOf(j)'
  <2>1. CASE j = i
    <3>1. Len(inbound'[i]) = Len(inbound[i]) + 1 /\ Len(inbound[i]) \in Nat
      BY <1>1, <1>2, <1>3
    <3> QED BY <1>1, <2>1, <3>1 DEF FilterOf, Registry, filterVars
  <2>2. CASE j # i
    <3>1. inbound'[j] = inbound[j]
      BY <1>1, <1>2, <2>2
    <3>2. Wanted(j)' = Wanted(j)
      BY <3>1 DEF Wanted
    <3> QED BY <1>1, <3>1, <3>2, Zenon DEF FilterOf, filterVars
  <2> QED BY <2>1, <2>2
<1> QED BY <1>1, <1>4, <1>5

LEMMA FilterInvariance == Spec => []FInv
<1>1. Init => FInv
  <2> SUFFICES ASSUME Init PROVE FInv
    OBVIOUS
  <2>1. Steady /\ Registry
    BY DEF Init, Steady, Steps, Registry
  <2>2. \A i \in Ifaces : Wanted(i) = {}
    BY <2>1, WantedIds, Zenon DEF Init
  <2> QED BY <2>1, <2>2 DEF Init, FInv, FilterOf
<1>2. FInv /\ [Next]_vars => FInv'
  <2> SUFFICES ASSUME FInv, [Next]_vars PROVE FInv'
    OBVIOUS
  <2>1. CASE RegisterWith
    <3>1. UNCHANGED <<inbound, filterVars>> /\ pc' = [i \in Ifaces |-> "start"]
          /\ \A i \in Ifaces : pc[i] = "new"
      BY <2>1 DEF RegisterWith
    <3>2. \A j \in Ifaces : Wanted(j)' = Wanted(j)
      BY <3>1 DEF Wanted
    <3> QED BY <3>1, <3>2 DEF filterVars, FInv, Steady, Registry, FilterOf, Steps
  <2>2. CASE StopDispatchers \/ Ended \/ (\E i \in Ifaces : WriterSend(i)) \/ UNCHANGED vars
    <3>1. UNCHANGED <<pc, inbound, filterVars>>
      BY <2>2 DEF StopDispatchers, Ended, WriterSend, vars
    <3>2. \A j \in Ifaces : Wanted(j)' = Wanted(j)
      BY <3>1 DEF Wanted
    <3> QED BY <3>1, <3>2 DEF filterVars, FInv, Steady, Registry, FilterOf
  <2> QED BY <2>1, <2>2, TaskFilter, CreateReaderFilter DEF Next
<1> QED BY <1>1, <1>2, PTL DEF Spec

-----------------------------------------------------------------------------
LEMMA Sums ==
    ASSUME NEW a \in Nat, NEW b \in Nat, NEW c \in Nat
    PROVE  a + b + c \in Nat /\ a + b + (c + 1) = (a + b + c) + 1
BY SMT

LEMMA UpToNext ==
    ASSUME NEW n \in Nat, NEW k \in 1..(n + 1)
    PROVE  k <= n \/ k = n + 1
BY SMT

LEMMA AppendToQueue ==
    ASSUME NEW s \in Seq(Nat), NEW j \in Seq(Nat), NEW o \in Seq(Nat),
           NEW n \in Nat, n = Len(s) + Len(j) + Len(o), s \o j \o o = Numbers(n)
    PROVE  s \o j \o Append(o, n + 1) = Numbers(n + 1)
<1> DEFINE h == s \o j
           e == Append(o, n + 1)
<1>1. /\ h \in Seq(Nat) /\ Len(h) = Len(s) + Len(j)
      /\ Len(s) \in Nat /\ Len(j) \in Nat /\ Len(o) \in Nat
  BY ConcatProperties, LenProperties
<1>2. /\ e \in Seq(Nat) /\ Len(e) = Len(o) + 1 /\ e[Len(o) + 1] = n + 1
      /\ \A k \in 1..Len(o) : e[k] = o[k]
  OBVIOUS
<1> SUFFICES h \o e = Numbers(n + 1)
  BY Zenon
<1> HIDE DEF h, e
<1>3. /\ h \o e \in Seq(Nat) /\ Len(h \o e) = Len(h) + Len(e)
      /\ \A k \in 1..(Len(h) + Len(e)) : (h \o e)[k] = IF k <= Len(h) THEN h[k] ELSE e[k - Len(h)]
  BY <1>1, <1>2, ConcatProperties
<1>4. \A k \in 1..(Len(h) + Len(o)) : (h \o o)[k] = IF k <= Len(h) THEN h[k] ELSE o[k - Len(h)]
  BY <1>1, ConcatProperties
<1>5. \A k \in 1..n : (h \o o)[k] = k
  BY DEF Numbers, h
<1>6. n = Len(h) + Len(o) /\ Len(h) + Len(e) = n + 1
  BY <1>1, <1>2
<1>7. ASSUME NEW k \in 1..(n + 1) PROVE (h \o e)[k] = k
  <2>1. CASE k <= Len(h)
    BY <1>1, <1>3, <1>4, <1>5, <1>6, <2>1
  <2>2. CASE ~(k <= Len(h)) /\ k <= n
    <3>1. k \in 1..n /\ k - Len(h) \in 1..Len(o)
      BY <1>1, <1>6, <2>2
    <3> QED BY <1>2, <1>3, <1>4, <1>5, <1>6, <2>2, <3>1, Zenon
  <2>3. CASE k = n + 1
    <3>1. ~(k <= Len(h)) /\ k - Len(h) = Len(o) + 1
      BY <1>1, <1>6, <2>3
    <3> QED BY <1>2, <1>3, <1>6, <2>3, <3>1, SMTT(20)
  <2>4. k <= n \/ k = n + 1
    BY UpToNext, Zenon
  <2> QED BY <2>1, <2>2, <2>3, <2>4, Zenon
<1>8. h \o e \in [1..(n + 1) -> Nat]
  BY <1>3, <1>6, LenProperties, Zenon
<1> QED BY <1>7, <1>8, Zenon DEF Numbers

LEMMA SendFirst ==
    ASSUME NEW s \in Seq(Nat), NEW j \in Seq(Nat), j # <<>>
    PROVE  /\ Append(s, Head(j)) \in Seq(Nat) /\ Tail(j) \in Seq(Nat)
           /\ Append(s, Head(j)) \o Tail(j) = s \o j
           /\ Len(Append(s, Head(j))) + Len(Tail(j)) = Len(s) + Len(j)
<1> DEFINE a == Append(s, Head(j))
           r == Tail(j)
<1>1. /\ Head(j) \in Nat /\ r \in Seq(Nat) /\ Len(r) = Len(j) - 1
      /\ \A k \in 1..Len(r) : r[k] = j[k + 1]
  BY HeadTailProperties
<1>2. Head(j) = j[1] /\ Len(j) \in Nat \ {0} /\ Len(s) \in Nat
  BY EmptySeq, LenProperties
<1>3. /\ a \in Seq(Nat) /\ Len(a) = Len(s) + 1 /\ a[Len(s) + 1] = j[1]
      /\ \A k \in 1..Len(s) : a[k] = s[k]
  BY <1>1, <1>2
<1> SUFFICES a \in Seq(Nat) /\ r \in Seq(Nat) /\ a \o r = s \o j /\ Len(a) + Len(r) = Len(s) + Len(j)
  BY SMTT(20)
<1> HIDE DEF a, r
<1>4. Len(a) + Len(r) = Len(s) + Len(j)
  BY <1>1, <1>2, <1>3
<1>5. /\ a \o r \in Seq(Nat) /\ Len(a \o r) = Len(a) + Len(r)
      /\ \A k \in 1..(Len(a) + Len(r)) : (a \o r)[k] = IF k <= Len(a) THEN a[k] ELSE r[k - Len(a)]
  BY <1>1, <1>3, ConcatProperties, Zenon
<1>6. /\ s \o j \in Seq(Nat) /\ Len(s \o j) = Len(s) + Len(j)
      /\ \A k \in 1..(Len(s) + Len(j)) : (s \o j)[k] = IF k <= Len(s) THEN s[k] ELSE j[k - Len(s)]
  BY ConcatProperties
<1>7. ASSUME NEW k \in 1..(Len(s) + Len(j)) PROVE (a \o r)[k] = (s \o j)[k]
  <2>1. CASE k <= Len(s)
    BY <1>2, <1>3, <1>4, <1>5, <1>6, <2>1
  <2>2. CASE k = Len(s) + 1
    <3>1. (a \o r)[k] = a[k]
      BY <1>2, <1>3, <1>4, <1>5, <2>2
    <3>2. (s \o j)[k] = j[1]
      BY <1>2, <1>6, <2>2
    <3> QED BY <1>3, <2>2, <3>1, <3>2
  <2>3. CASE k > Len(s) + 1
    <3>1. k - Len(a) \in 1..Len(r) /\ k - Len(a) + 1 = k - Len(s)
      BY <1>1, <1>2, <1>3, <2>3
    <3>2. (a \o r)[k] = r[k - Len(a)]
      <4>1. k \in 1..(Len(a) + Len(r)) /\ ~(k <= Len(a))
        BY <1>2, <1>3, <1>4, <2>3
      <4> QED BY <1>5, <4>1, Zenon
    <3>3. (s \o j)[k] = j[k - Len(s)]
      BY <1>2, <1>6, <2>3
    <3> QED BY <1>1, <3>1, <3>2, <3>3, Zenon
  <2>4. k <= Len(s) \/ k = Len(s) + 1 \/ k > Len(s) + 1
    BY <1>2
  <2> QED BY <2>1, <2>2, <2>3, <2>4, Zenon
<1>8. a \o r = s \o j
  BY <1>4, <1>5, <1>6, <1>7, SeqEqual, Zenon
<1> QED BY <1>1, <1>3, <1>4, <1>8, Zenon

(* A step of the task of i leaves the other queues alone. *)
Serves(i) ==
    /\ Steady' /\ Queues'
    /\ \A j \in Ifaces \ {i} : /\ pc'[j] = pc[j] /\ outbox'[j] = outbox[j]
                                /\ jobs'[j] = jobs[j] /\ sent'[j] = sent[j]

LEMMA ServesStep ==
    ASSUME QInv, NEW i \in Ifaces, Serves(i), QueueOf(i)'
    PROVE  QInv'
BY Zenon DEF QInv, Serves, QueueOf, Written

(* Steps that do not touch a queue: the jobs have been sent, or dropped    *)
(* by a task that has ended.                                               *)
LEMMA OtherSteps ==
    ASSUME QInv, NEW i \in Ifaces, NEW s \in Steps, pc' = [pc EXCEPT ![i] = s],
           UNCHANGED <<outbox, jobs, sent>>, jobs[i] = <<>>, pc[i] # "ended"
    PROVE  QInv'
<1>1. Serves(i)
  BY DEF QInv, Steady, Queues, Serves
<1>2. QueueOf(i)'
  BY Zenon DEF QInv, Steady, QueueOf, Written
<1> QED BY <1>1, <1>2, ServesStep

LEMMA TaskQueue ==
    ASSUME QInv, NEW i \in Ifaces, Task(i)
    PROVE  QInv'
<1> USE DEF QInv, Steady
<1>1. CASE Drain(i)
  <2>1. CASE Goto(i, "ended") /\ UNCHANGED <<jobs, outbox>>
    BY <1>1, <2>1, OtherSteps, Zenon DEF Drain, Goto, Steps, QueueOf
  <2>2. CASE /\ jobs' = [jobs EXCEPT ![i] = outbox[i]] /\ outbox' = [outbox EXCEPT ![i] = <<>>]
             /\ Goto(i, "send")
    <3>1. pc[i] = "drain" /\ UNCHANGED sent
      BY <1>1 DEF Drain
    <3>2. <<>> \in Seq(Nat) /\ outbox[i] \in Seq(Nat) /\ sent[i] \in Seq(Nat) /\ jobs[i] = <<>>
      BY <3>1, EmptySeq DEF Queues, QueueOf
    <3>3. Serves(i)
      BY <2>2, <3>1, <3>2 DEF Serves, Queues, Goto, Steps
    <3>4. /\ pc'[i] = "send" /\ jobs'[i] = outbox[i] /\ outbox'[i] = <<>> /\ sent'[i] = sent[i]
      BY <2>2, <3>1 DEF Goto, Queues
    <3>5. /\ sent[i] \o <<>> = sent[i] /\ (sent[i] \o outbox[i]) \o <<>> = sent[i] \o outbox[i]
          /\ Len(<<>>) = 0 /\ Len(sent[i]) \in Nat /\ Len(outbox[i]) \in Nat
      BY <3>2, ConcatEmptySeq, ConcatProperties, EmptySeq, LenProperties
    <3>6. Written(i)' = Written(i)
      BY <3>2, <3>4, <3>5 DEF Written
    <3>7. sent'[i] \o jobs'[i] \o outbox'[i] = sent[i] \o jobs[i] \o outbox[i]
      BY <3>2, <3>4, <3>5
    <3>8. QueueOf(i)'
      BY <3>1, <3>4, <3>6, <3>7, Zenon DEF QueueOf, Numbers
    <3> QED BY <3>3, <3>8, ServesStep
  <2> QED BY <1>1, <2>1, <2>2 DEF Drain
<1>2. CASE Send(i)
  <2>1. pc[i] = "send" /\ UNCHANGED outbox
    BY <1>2 DEF Send
  <2>2. CASE jobs[i] = <<>>
    BY <1>2, <2>1, <2>2, OtherSteps DEF Send, FailedSend, Goto, Steps
  <2>3. CASE FailedSend(i)
    <3>1. <<>> \in Seq(Nat)
      BY EmptySeq
    <3>2. Serves(i) /\ QueueOf(i)'
      BY <2>1, <2>3, <3>1 DEF FailedSend, Goto, Serves, Queues, QueueOf, Steps
    <3> QED BY <3>2, ServesStep
  <2>4. CASE /\ jobs[i] # <<>> /\ UNCHANGED pc
             /\ sent' = [sent EXCEPT ![i] = Append(sent[i], Head(jobs[i]))]
             /\ jobs' = [jobs EXCEPT ![i] = Tail(jobs[i])]
    <3>1. jobs[i] \in Seq(Nat) /\ sent[i] \in Seq(Nat) /\ outbox[i] \in Seq(Nat)
      BY DEF Queues
    <3>2. /\ Append(sent[i], Head(jobs[i])) \in Seq(Nat) /\ Tail(jobs[i]) \in Seq(Nat)
          /\ Append(sent[i], Head(jobs[i])) \o Tail(jobs[i]) = sent[i] \o jobs[i]
          /\ Len(Append(sent[i], Head(jobs[i]))) + Len(Tail(jobs[i])) = Len(sent[i]) + Len(jobs[i])
      BY <2>4, <3>1, SendFirst, Zenon
    <3>3. Serves(i)
      BY <2>1, <2>4, <3>2 DEF Serves, Queues
    <3>4. /\ sent'[i] = Append(sent[i], Head(jobs[i])) /\ jobs'[i] = Tail(jobs[i])
          /\ outbox'[i] = outbox[i]
      BY <2>1, <2>4 DEF Queues
    <3>5. Written(i)' = Written(i) /\ sent'[i] \o jobs'[i] = sent[i] \o jobs[i]
      BY <3>2, <3>4, Zenon DEF Written
    <3>6. QueueOf(i)'
      BY <2>1, <2>4, <3>4, <3>5, Zenon DEF QueueOf, Numbers
    <3> QED BY <3>3, <3>6, ServesStep
  <2> QED BY <1>2, <2>2, <2>3, <2>4 DEF Send
<1>3. CASE \/ CompileInitial(i) \/ BringUp(i) \/ Top(i) \/ Recompile(i) \/ Apply(i) \/ Receive(i)
           \/ ReceiveError(i) \/ Retry(i) \/ Reopen(i) \/ Reapply(i) \/ Reconnecting(i)
           \/ Reconnected(i)
  <2>1. UNCHANGED <<outbox, jobs, sent>> /\ pc[i] \notin {"ended", "send"}
    BY <1>3, Zenon DEF CompileInitial, BringUp, Top, Recompile, Apply, Receive, ReceiveError, Retry, Reopen,
                Reapply, Reconnecting, Reconnected
  <2>2. PICK s \in Steps : pc' = [pc EXCEPT ![i] = s]
    BY <1>3 DEF CompileInitial, BringUp, Top, Recompile, Apply, Receive, ReceiveError, Retry, Reopen,
                Reapply, Reconnecting, Reconnected, Goto, Steps
  <2> QED BY <2>1, <2>2, OtherSteps, Zenon DEF QueueOf
<1> QED BY <1>1, <1>2, <1>3 DEF Task

LEMMA WriterSendQueue ==
    ASSUME QInv, NEW i \in Ifaces, WriterSend(i)
    PROVE  QInv'
<1> USE DEF QInv, Steady
<1>1. /\ jobs[i] \in Seq(Nat) /\ sent[i] \in Seq(Nat) /\ outbox[i] \in Seq(Nat)
      /\ Len(sent[i]) \in Nat /\ Len(jobs[i]) \in Nat /\ Len(outbox[i]) \in Nat
  BY LenProperties DEF Queues
<1>2. PICK n \in Nat : n = Written(i) /\ n = Len(sent[i]) + Len(jobs[i]) + Len(outbox[i])
  BY <1>1, Sums, Zenon DEF Written
<1>3. /\ outbox' = [outbox EXCEPT ![i] = Append(outbox[i], n + 1)]
      /\ UNCHANGED <<pc, jobs, sent>>
  BY <1>2 DEF WriterSend
<1>4. /\ Append(outbox[i], n + 1) \in Seq(Nat)
      /\ Len(Append(outbox[i], n + 1)) = Len(outbox[i]) + 1
  BY <1>1
<1>5. Serves(i)
  BY <1>3, <1>4 DEF Serves, Queues
<1>6. outbox'[i] = Append(outbox[i], n + 1)
  BY <1>3 DEF Queues
<1>7. Written(i)' = n + 1
  <2>1. Written(i)' = Len(sent[i]) + Len(jobs[i]) + Len(Append(outbox[i], n + 1))
    BY <1>3, <1>6, Zenon DEF Written
  <2>2. Len(sent[i]) + Len(jobs[i]) + (Len(outbox[i]) + 1)
          = (Len(sent[i]) + Len(jobs[i]) + Len(outbox[i])) + 1
    BY <1>1, Sums, ZenonT(30)
  <2> QED BY <1>2, <1>4, <2>1, <2>2, Zenon
<1>8. ASSUME pc[i] # "ended" PROVE sent'[i] \o jobs'[i] \o outbox'[i] = Numbers(n + 1)
  <2>1. sent[i] \o jobs[i] \o outbox[i] = Numbers(n)
    BY <1>2, <1>8, Zenon DEF QueueOf
  <2>2. sent[i] \o jobs[i] \o Append(outbox[i], n + 1) = Numbers(n + 1)
    BY <1>1, <1>2, <2>1, AppendToQueue, Zenon
  <2> QED BY <1>3, <1>6, <2>2, Zenon
<1>9. QueueOf(i)'
  BY <1>3, <1>7, <1>8, Zenon DEF QueueOf, Numbers
<1> QED BY <1>5, <1>9, ServesStep

LEMMA QueueInvariance == Spec => []QInv
<1>1. Init => QInv
  <2> SUFFICES ASSUME Init PROVE QInv
    OBVIOUS
  <2>1. <<>> \in Seq(Nat) /\ Len(<<>>) = 0 /\ <<>> \o <<>> \o <<>> = <<>>
    BY EmptySeq, ConcatEmptySeq
  <2>2. Steady /\ Queues
    BY <2>1 DEF Init, Steady, Steps, Queues
  <2>3. Numbers(0) = <<>>
    BY DEF Numbers
  <2>4. ASSUME NEW i \in Ifaces PROVE QueueOf(i)
    <3>1. Written(i) = 0 /\ sent[i] = <<>> /\ jobs[i] = <<>> /\ outbox[i] = <<>>
      BY <2>1 DEF Init, Written
    <3> QED BY <2>1, <2>3, <3>1 DEF QueueOf
  <2> QED BY <2>2, <2>4 DEF QInv
<1>2. QInv /\ [Next]_vars => QInv'
  <2> SUFFICES ASSUME QInv, [Next]_vars PROVE QInv'
    OBVIOUS
  <2>1. CASE RegisterWith
    <3>1. UNCHANGED <<outbox, jobs, sent>> /\ pc' = [i \in Ifaces |-> "start"]
          /\ \A i \in Ifaces : pc[i] = "new"
      BY <2>1 DEF RegisterWith
    <3> QED BY <3>1 DEF QInv, Steady, Queues, QueueOf, Written, Steps
  <2>2. CASE \/ StopDispatchers \/ Ended \/ UNCHANGED vars
             \/ \E i \in Ifaces, id \in Ids : CreateReader(i, id)
    <3>1. UNCHANGED <<pc, outbox, jobs, sent>>
      BY <2>2 DEF StopDispatchers, Ended, CreateReader, vars
    <3> QED BY <3>1 DEF QInv, Steady, Queues, QueueOf, Written
  <2> QED BY <2>1, <2>2, TaskQueue, WriterSendQueue DEF Next
<1> QED BY <1>1, <1>2, PTL DEF Spec

(* For any interfaces, channels and envelopes, and whenever channels are   *)
(* created, buses go off and sockets close: when dispatcher_loop leaves    *)
(* the filter alone, every channel passes it; and each envelope is sent    *)
(* once, in the order of send (drain_outbound_once), while the task lives. *)
THEOREM ServiceSafety == Spec => []CanServed
<1>1. FInv => FilterCurrent
  BY DEF FInv, FilterOf, FilterCurrent
<1>2. QInv => SentInOrder
  BY Zenon DEF QInv, QueueOf, SentInOrder
<1> QED BY <1>1, <1>2, FilterInvariance, QueueInvariance, PTL DEF CanServed
=============================================================================
