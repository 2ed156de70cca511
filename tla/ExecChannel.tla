----------------------------- MODULE ExecChannel -----------------------------
(***************************************************************************)
(* A Channel between publishers and an item of the executor: Publisher's   *)
(* loan_send, which sends a sample and then notifies the paired event      *)
(* service, and the item that the subscriber's listener triggers, which    *)
(* takes the samples.  The item is a SlotItem (TakePolicy Single or All),  *)
(* an item of its own with a deadline trigger, or one on a raw listener    *)
(* that drains the listener itself.                                        *)
(*                                                                         *)
(* iceoryx2 is external: a subscriber's buffer of BufferSize samples that  *)
(* drops its oldest, a listener that keeps up to SocketCap notifications   *)
(* until they are read, and a WaitSet that is level-triggered: it returns  *)
(* for an attachment as long as a notification is there.  process_attachment *)
(* reads the notifications of the stop listener only.                      *)
(***************************************************************************)
EXTENDS Naturals, Sequences, TLAPS

\* Items: the kinds of item tried; Deadline: of TriggerDecl::Deadline;
\* MaxSends, MaxClock: bounds.
CONSTANTS Publishers, Items, BufferSize, SocketCap, Deadline, MaxSends, MaxClock

\* What the code requires of the constants: a listener that holds a notification.
ASSUME ChannelAssumption == SocketCap \in Nat \ {0}

VARIABLES
    item,       \* "single" "all" "deadline" "raw"
    pub,        \* publisher -> "idle", "loaned", "sent" (not yet notified)
    sends,      \* samples sent
    queue,      \* the subscriber's buffer
    notes,      \* notifications in the listener
    loop,       \* "wait", or "take": the item is executing
    delivered,  \* this execution took a sample
    clock, reset, noted, missed \* time; of the deadline's last reset; of the
                                \* last notification; of the last missed deadline

vars == <<item, pub, sends, queue, notes, loop, delivered, clock, reset, noted, missed>>

TypeOK ==
    /\ item \in Items /\ pub \in [Publishers -> {"idle", "loaned", "sent"}]
    /\ sends \in 0..MaxSends /\ Len(queue) <= BufferSize /\ notes \in 0..SocketCap
    /\ loop \in {"wait", "take"} /\ delivered \in BOOLEAN
    /\ {clock, reset, noted, missed} \subseteq 0..MaxClock

Init ==
    /\ item \in Items /\ pub = [p \in Publishers |-> "idle"] /\ sends = 0
    /\ queue = <<>> /\ notes = 0 /\ loop = "wait" /\ delivered = FALSE
    /\ clock = 0 /\ reset = 0 /\ noted = 0 /\ missed = 0

execVars == <<item, loop, delivered, clock, reset, missed>>

------------------------------------------------------------------------------
(* Publisher::loan_send *)

Loan(p) ==
    /\ pub[p] = "idle" /\ sends < MaxSends /\ sends' = sends + 1
    /\ pub' = [pub EXCEPT ![p] = "loaned"]
    /\ UNCHANGED <<queue, notes, noted, execVars>>

\* The closure asks to skip: nothing is sent, nobody is notified.
Skip(p) ==
    /\ pub[p] = "loaned" /\ pub' = [pub EXCEPT ![p] = "idle"]
    /\ UNCHANGED <<sends, queue, notes, noted, execVars>>

Enqueued(q, s) == IF Len(q) < BufferSize THEN Append(q, s) ELSE Append(Tail(q), s)

\* A full socket buffer drops the notification; the sample is delivered.
Notified(n) == IF n < SocketCap THEN n + 1 ELSE n

\* Mutant of loan_send: the listener is notified before the sample is sent.
loan_sendBackwards(p) ==
    \/ /\ pub[p] = "loaned" /\ pub' = [pub EXCEPT ![p] = "sent"]
       /\ notes' = Notified(notes) /\ noted' = clock /\ UNCHANGED queue
    \/ /\ pub[p] = "sent" /\ pub' = [pub EXCEPT ![p] = "idle"]
       /\ queue' = Enqueued(queue, p) /\ UNCHANGED <<notes, noted>>

\* send, then notify.
loan_send(p) ==
    \/ /\ pub[p] = "loaned" /\ pub' = [pub EXCEPT ![p] = "sent"]
       /\ queue' = Enqueued(queue, p) /\ UNCHANGED <<notes, noted>>
    \/ /\ pub[p] = "sent" /\ pub' = [pub EXCEPT ![p] = "idle"]
       /\ notes' = Notified(notes) /\ noted' = clock /\ UNCHANGED queue

Send(p) == loan_send(p) /\ UNCHANGED <<sends, execVars>>

------------------------------------------------------------------------------
(* The item on the executor's thread. *)

\* An event resets the deadline; only an item with its own listener reads the
\* notifications, and it does before it takes.
Event ==
    /\ loop = "wait" /\ notes > 0 /\ loop' = "take" /\ delivered' = FALSE
    /\ notes' = IF item = "raw" THEN 0 ELSE notes
    /\ reset' = clock
    /\ UNCHANGED <<item, pub, sends, queue, clock, noted, missed>>

MissedDeadline ==
    /\ loop = "wait" /\ item = "deadline" /\ notes = 0 /\ clock >= reset + Deadline
    /\ loop' = "take" /\ delivered' = FALSE /\ reset' = clock /\ missed' = clock
    /\ UNCHANGED <<item, pub, sends, queue, notes, clock, noted>>

\* One turn of SlotItem::execute: after a sample, after_recv may end the
\* execution, and TakePolicy::Single does.
take ==
    /\ loop = "take"
    /\ \/ queue = <<>> /\ loop' = "wait" /\ UNCHANGED <<queue, delivered>>
       \/ /\ queue # <<>> /\ queue' = Tail(queue) /\ delivered' = TRUE
          /\ \/ item # "single" /\ UNCHANGED loop
             \/ item \in {"single", "all"} /\ loop' = "wait"
    /\ UNCHANGED <<item, pub, sends, notes, clock, reset, noted, missed>>

\* Time passes while the thread sleeps, or after it served what is ready now.
Pass ==
    /\ clock < MaxClock /\ loop = "wait" /\ (notes > 0 => reset = clock)
    /\ ~(item = "deadline" /\ notes = 0 /\ clock >= reset + Deadline)
    /\ clock' = clock + 1
    /\ UNCHANGED <<item, pub, sends, queue, notes, loop, delivered, reset, noted, missed>>

Thread == Event \/ MissedDeadline \/ take

Next == Thread \/ Pass \/ \E p \in Publishers : Loan(p) \/ Skip(p) \/ Send(p)

Spec == Init /\ [][Next]_vars

------------------------------------------------------------------------------
(* Properties. *)

\* No sample lies in the subscriber's buffer with nothing left to wake its item:
\* when the thread waits and the buffer holds a sample, a notification is there
\* or a publisher is about to send one (loan_send notifies after it sends; the
\* listener of a SlotItem is never drained, that of a raw item before it takes).
NoSampleStranded ==
    loop = "wait" /\ queue # <<>> =>
        notes > 0 \/ \E p \in Publishers : pub[p] = "sent"

\* The deadline trigger "also fires the deadline if no event arrives within
\* `deadline`": when the channel has been silent for longer (and for the unit of
\* time the thread takes to serve an event), a missed deadline was reported
\* since its last notification.
DeadlineFires ==
    item = "deadline" /\ loop = "wait" /\ clock > noted + Deadline + 1 => missed > noted

-----------------------------------------------------------------------------
(* No sample is stranded, for any number of publishers, any size of the       *)
(* subscriber's buffer and of the listener's.                                 *)

(* A SlotItem returns to the wait with samples left, so NoSampleStranded      *)
(* needs that its notifications outlast its execution.                        *)
NotesKept == loop = "take" /\ item \in {"single", "all"} => notes > 0

IInv ==
    /\ notes \in Nat
    /\ pub \in [Publishers -> {"idle", "loaned", "sent"}]
    /\ loop \in {"wait", "take"}
    /\ NotesKept
    /\ NoSampleStranded

(* A notification leaves the listener with one at least, and loses none. *)
LEMMA NotifiedPositive ==
    ASSUME NEW n \in Nat
    PROVE  Notified(n) \in Nat /\ Notified(n) > 0
BY ChannelAssumption, SMT DEF Notified

LEMMA InitIInv == Init => IInv
BY SMT DEF Init, IInv, NotesKept, NoSampleStranded

(* A publisher's step: the buffer grows only when its sender is about to      *)
(* notify, and a sender stops being about to only by notifying.               *)
LEMMA PublisherStep ==
    ASSUME IInv, NEW p \in Publishers, Loan(p) \/ Skip(p) \/ Send(p)
    PROVE  IInv'
<1>1. CASE Loan(p)
  <2>1. \A q \in Publishers : pub[q] = "sent" => pub'[q] = "sent"
    BY <1>1, SMT DEF Loan, IInv
  <2> QED BY <1>1, <2>1, SMT DEF Loan, execVars, IInv, NotesKept, NoSampleStranded
<1>2. CASE Skip(p)
  <2>1. \A q \in Publishers : pub[q] = "sent" => pub'[q] = "sent"
    BY <1>2, SMT DEF Skip, IInv
  <2> QED BY <1>2, <2>1, SMT DEF Skip, execVars, IInv, NotesKept, NoSampleStranded
<1>3. CASE Send(p)
  <2>1. CASE pub[p] = "loaned"
    <3>1. pub' = [pub EXCEPT ![p] = "sent"] /\ notes' = notes
      BY <1>3, <2>1, SMT DEF Send, loan_send
    <3>2. pub'[p] = "sent"
      BY <3>1, SMT DEF IInv
    <3> QED BY <1>3, <3>1, <3>2, SMT DEF Send, execVars, IInv, NotesKept, NoSampleStranded
  <2>2. CASE pub[p] # "loaned"
    <3>1. notes' = Notified(notes) /\ pub' = [pub EXCEPT ![p] = "idle"]
      BY <1>3, <2>2, SMT DEF Send, loan_send
    <3>2. notes' \in Nat /\ notes' > 0
      BY <3>1, NotifiedPositive, SMT DEF IInv
    <3> QED BY <1>3, <3>1, <3>2, SMT DEF Send, execVars, IInv, NotesKept, NoSampleStranded
  <2> QED BY <2>1, <2>2
<1> QED BY <1>1, <1>2, <1>3

(* A step of the executor's thread, or time that passes. *)
LEMMA ThreadStep ==
    ASSUME IInv, Thread \/ Pass
    PROVE  IInv'
<1>1. CASE Event
  BY <1>1, SMT DEF Event, IInv, NotesKept, NoSampleStranded
<1>2. CASE MissedDeadline
  BY <1>2, SMT DEF MissedDeadline, IInv, NotesKept, NoSampleStranded
<1>3. CASE take
  <2>1. CASE queue = <<>>
    BY <1>3, <2>1, SMT DEF take, IInv, NotesKept, NoSampleStranded
  <2>2. CASE queue # <<>>
    BY <1>3, <2>2, SMT DEF take, IInv, NotesKept, NoSampleStranded
  <2> QED BY <2>1, <2>2
<1>4. CASE Pass
  BY <1>4, SMT DEF Pass, IInv, NotesKept, NoSampleStranded
<1> QED BY <1>1, <1>2, <1>3, <1>4 DEF Thread

(* loan_send notifies after it sends, and no item goes back to sleep on a     *)
(* sample that nothing will wake it for.                                      *)
THEOREM SamplesServed == Spec => []NoSampleStranded
<1>1. Init => IInv
  BY InitIInv
<1>2. IInv /\ [Next]_vars => IInv'
  <2> SUFFICES ASSUME IInv, [Next]_vars PROVE IInv'
    OBVIOUS
  <2>1. CASE Next
    BY <2>1, PublisherStep, ThreadStep DEF Next
  <2>2. CASE UNCHANGED vars
    BY <2>2, SMT DEF vars, IInv, NotesKept, NoSampleStranded
  <2> QED BY <2>1, <2>2
<1>3. IInv => NoSampleStranded
  BY DEF IInv
<1> QED BY <1>1, <1>2, <1>3, PTL DEF Spec
==============================================================================
