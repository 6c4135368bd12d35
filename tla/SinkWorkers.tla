----------------------------- MODULE SinkWorkers -----------------------------
(***************************************************************************)
(* The daemon's sinks (crates/daemon/src/sinks.rs): one bounded mailbox    *)
(* and one worker thread per sink, a fan-out that offers every event to    *)
(* each mailbox, and the shutdown that drains, closes and joins them.      *)
(*                                                                         *)
(* Threads: the venue tasks and the shutdown exclude each other through    *)
(* the mutex of SharedDaemonSinks, so they are one thread of control here; *)
(* each worker is another.  A step is a stretch under a mailbox's mutex,   *)
(* a call of the sink, or an access to the shared health counters.         *)
(***************************************************************************)
EXTENDS Integers, Sequences, SequencesExt, FiniteSets

CONSTANTS
    Sinks,      \* the sinks in the order of the fan-out: a sequence without repetition
    Policies,   \* the configurations considered: overflow policies by sink
    Required,   \* the required sinks
    Capacity,   \* of each mailbox
    MaxEvents   \* bound: events offered

Sink == Range(Sinks)

ASSUME SinksAssumption ==
    /\ \A i, j \in DOMAIN Sinks : Sinks[i] = Sinks[j] => i = j
    /\ Policies \subseteq [Sink -> {"DropNewest", "DropOldest", "FailEngine", "BlockWithDeadline"}]
    /\ Required \subseteq Sink
    /\ Capacity \in Nat \ {0} /\ MaxEvents \in Nat

VARIABLES
    mailbox,    \* by sink: items, closed, inFlight
    notified,   \* the sinks whose worker has been woken
    worker,     \* by sink: where the worker thread is
    item,       \* by sink: the item it holds; 0 when none
    health,     \* by sink: healthy, enqueued, dropped
    discarded,  \* by sink: what finish_item discarded and the worker has yet to count
    offered,    \* events offered so far; event n is the n-th
    fanout,     \* the sinks the event at hand is still to be offered to
    tally,      \* what enqueue has yet to count of the push it made to the first of them
    refused,    \* history, by sink: pushes that returned an error to the session
    delivered,  \* history, by sink: what the sink accepted
    lost,       \* history, by sink: events that were dropped or discarded
    closing,    \* the sinks still to shut down; the daemon runs while it is all of Sinks
    stopper,    \* where the shutdown is with the first of them
    status,     \* the mailbox status it read: whether it was empty
    drained,    \* by sink: "None", or whether wait_for_drain returned "Ok" or "Err"
    expired,    \* the shutdown deadline has passed
    policy      \* the configured policies; never changes

workVars == <<mailbox, notified, worker, item, health, discarded>>
pushVars == <<offered, fanout, tally, refused>>
stopVars == <<closing, stopper, status, drained, expired>>
stepVars == <<workVars, pushVars, delivered, lost, stopVars>>
vars == <<stepVars, policy>>

Event == 1 .. MaxEvents

Tally(enqueued, dropped) == [enqueued |-> enqueued, dropped |-> dropped]
NoTally == Tally(0, 0)

TypeOK ==
    /\ mailbox \in [Sink -> [items: Seq(Event), closed: BOOLEAN, inFlight: {0, 1}]]
    /\ \A s \in Sink : Len(mailbox[s].items) <= Capacity
    /\ notified \subseteq Sink
    /\ worker \in [Sink -> {"Pop", "Wait", "Deliver", "Finish", "Fail", "Count", "Exit"}]
    /\ item \in [Sink -> 0 .. MaxEvents]
    /\ health \in [Sink -> [healthy: BOOLEAN, enqueued: Nat, dropped: Nat]]
    /\ discarded \in [Sink -> 0 .. Capacity]
    /\ offered \in 0 .. MaxEvents
    /\ IsSuffix(fanout, Sinks) /\ IsSuffix(closing, Sinks)
    /\ tally \in [enqueued: {0, 1}, dropped: {0, 1}]
    /\ refused \in [Sink -> Nat]
    /\ delivered \in [Sink -> Seq(Event)]
    /\ lost \in [Sink -> SUBSET Event]
    /\ stopper \in {"Off", "Status", "Health", "Close", "Join", "Returned"}
    /\ status \in BOOLEAN /\ expired \in BOOLEAN
    /\ drained \in [Sink -> {"None", "Ok", "Err"}]

Init ==
    /\ mailbox = [s \in Sink |-> [items |-> <<>>, closed |-> FALSE, inFlight |-> 0]]
    /\ notified = {}
    /\ worker = [s \in Sink |-> "Pop"] /\ item = [s \in Sink |-> 0]
    /\ health = [s \in Sink |-> [healthy |-> TRUE, enqueued |-> 0, dropped |-> 0]]
    /\ discarded = [s \in Sink |-> 0]
    /\ offered = 0 /\ fanout = <<>> /\ tally = NoTally /\ refused = [s \in Sink |-> 0]
    /\ delivered = [s \in Sink |-> <<>>] /\ lost = [s \in Sink |-> {}]
    /\ closing = Sinks /\ stopper = "Off" /\ status = FALSE
    /\ drained = [s \in Sink |-> "None"] /\ expired = FALSE
    /\ policy \in Policies

-----------------------------------------------------------------------------
(* The fan-out of a venue task. *)

(* EventSink::push_batch / push_system of DaemonSinks, for the next event. *)
Offer ==
    /\ stopper = "Off" /\ fanout = <<>> /\ offered < MaxEvents
    /\ offered' = offered + 1 /\ fanout' = Sinks
    /\ UNCHANGED <<workVars, tally, refused, delivered, lost, stopVars>>

Notify(s) == notified' = notified \union {s}

(* Mutant of Accept: the worker is not woken. *)
AcceptSilently(s, items, dropped) ==
    /\ mailbox' = [mailbox EXCEPT ![s].items = Append(items, offered)]
    /\ tally' = Tally(1, dropped)
    /\ UNCHANGED <<notified, fanout, refused>>

(* Mutant of Accept: the event overtakes those in the mailbox. *)
AcceptAtFront(s, items, dropped) ==
    /\ mailbox' = [mailbox EXCEPT ![s].items = <<offered>> \o items]
    /\ tally' = Tally(1, dropped)
    /\ Notify(s) /\ UNCHANGED <<fanout, refused>>

Accept(s, items, dropped) ==
    /\ mailbox' = [mailbox EXCEPT ![s].items = Append(items, offered)]
    /\ tally' = Tally(1, dropped)
    /\ Notify(s) /\ UNCHANGED <<fanout, refused>>

(* Mutant of Full: one more fits. *)
FullOffByOne(s) == Len(mailbox[s].items) > Capacity

Full(s) == Len(mailbox[s].items) >= Capacity

DropNew(s) ==
    /\ tally' = Tally(0, 1)
    /\ lost' = [lost EXCEPT ![s] = @ \union {offered}]
    /\ UNCHANGED <<mailbox, fanout, refused>>

Refuse(s) ==
    /\ refused' = [refused EXCEPT ![s] = @ + 1] /\ fanout' = Tail(fanout)
    /\ UNCHANGED <<mailbox, notified, tally, lost>>

(* SinkMailbox::push, called by SinkWorker::enqueue.  A closed mailbox is an   *)
(* error for a required sink and a drop for an optional one; a full one is an  *)
(* error for both when the policy does not drop.                               *)
PushOne ==
    /\ fanout # <<>> /\ tally = NoTally
    /\ LET s == Head(fanout)
           items == mailbox[s].items
       IN  \/ /\ mailbox[s].closed /\ s \in Required
              /\ Refuse(s)
           \/ /\ mailbox[s].closed /\ s \notin Required
              /\ DropNew(s) /\ UNCHANGED notified
           \/ /\ ~mailbox[s].closed /\ ~Full(s)
              /\ Accept(s, items, 0) /\ UNCHANGED lost
           \/ /\ ~mailbox[s].closed /\ Full(s) /\ policy[s] = "DropNewest"
              /\ DropNew(s) /\ Notify(s)
           \/ /\ ~mailbox[s].closed /\ Full(s) /\ policy[s] = "DropOldest"
              /\ Accept(s, Tail(items), 1)
              /\ lost' = [lost EXCEPT ![s] = @ \union {Head(items)}]
           \/ /\ ~mailbox[s].closed /\ Full(s) /\ policy[s] \in {"FailEngine", "BlockWithDeadline"}
              /\ Refuse(s)
    /\ UNCHANGED <<worker, item, health, discarded, offered, delivered, stopVars>>

(* The rest of enqueue: its outcome is counted after the mailbox's mutex is    *)
(* released.                                                                   *)
CountPush ==
    /\ tally # NoTally
    /\ health' = [health EXCEPT ![Head(fanout)].enqueued = @ + tally.enqueued,
                                ![Head(fanout)].dropped = @ + tally.dropped]
    /\ tally' = NoTally /\ fanout' = Tail(fanout)
    /\ UNCHANGED <<mailbox, notified, worker, item, discarded, offered, refused, delivered, lost,
                   stopVars>>

-----------------------------------------------------------------------------
(* The worker thread of sink s. *)

(* SinkMailbox::wait_pop, up to the wait on the condition variable. *)
WaitPop(s) ==
    /\ worker[s] = "Pop"
    /\ LET items == mailbox[s].items
       IN  \/ /\ items # <<>>
              /\ mailbox' = [mailbox EXCEPT ![s].items = Tail(items), ![s].inFlight = 1]
              /\ item' = [item EXCEPT ![s] = Head(items)]
              /\ worker' = [worker EXCEPT ![s] = "Deliver"]
              /\ UNCHANGED notified
           \/ /\ items = <<>>
              /\ worker' = [worker EXCEPT ![s] = IF mailbox[s].closed THEN "Exit" ELSE "Wait"]
              /\ notified' = notified \ {s}
              /\ UNCHANGED <<mailbox, item>>
    /\ UNCHANGED <<health, discarded, pushVars, delivered, lost, stopVars>>

Wake(s) ==
    /\ worker[s] = "Wait" /\ s \in notified
    /\ worker' = [worker EXCEPT ![s] = "Pop"]
    /\ UNCHANGED <<mailbox, notified, item, health, discarded, pushVars, delivered, lost, stopVars>>

(* The call of the sink returns: accepted, or dropped by the sink. *)
Deliver(s) ==
    /\ worker[s] = "Deliver"
    /\ worker' = [worker EXCEPT ![s] = "Finish"]
    /\ \/ /\ delivered' = [delivered EXCEPT ![s] = Append(@, item[s])]
          /\ UNCHANGED <<health, lost>>
       \/ /\ health' = [health EXCEPT ![s].dropped = @ + 1]
          /\ lost' = [lost EXCEPT ![s] = @ \union {item[s]}]
          /\ UNCHANGED delivered
    /\ UNCHANGED <<mailbox, notified, item, discarded, pushVars, stopVars>>

(* The sink returned an error or panicked: unhealthy first ... *)
DeliverError(s) ==
    /\ worker[s] = "Deliver"
    /\ worker' = [worker EXCEPT ![s] = "Fail"]
    /\ health' = [health EXCEPT ![s].healthy = FALSE]
    /\ UNCHANGED <<mailbox, notified, item, discarded, pushVars, delivered, lost, stopVars>>

(* finish_item(false). *)
Finish(s) ==
    /\ worker[s] = "Finish"
    /\ worker' = [worker EXCEPT ![s] = "Pop"]
    /\ mailbox' = [mailbox EXCEPT ![s].inFlight = 0]
    /\ item' = [item EXCEPT ![s] = 0]
    /\ Notify(s)
    /\ UNCHANGED <<health, discarded, pushVars, delivered, lost, stopVars>>

(* ... then finish_item(true) closes the mailbox and discards what is in it ... *)
Discard(s) ==
    /\ worker[s] = "Fail"
    /\ worker' = [worker EXCEPT ![s] = "Count"]
    /\ discarded' = [discarded EXCEPT ![s] = Len(mailbox[s].items)]
    /\ lost' = [lost EXCEPT ![s] = @ \union {item[s]} \union Range(mailbox[s].items)]
    /\ mailbox' = [mailbox EXCEPT ![s] = [items |-> <<>>, closed |-> TRUE, inFlight |-> 0]]
    /\ item' = [item EXCEPT ![s] = 0]
    /\ Notify(s)
    /\ UNCHANGED <<health, pushVars, delivered, stopVars>>

(* Mutant of CountDiscarded: the item that failed is not counted. *)
CountDiscardedQueue(s) ==
    /\ worker[s] = "Count"
    /\ worker' = [worker EXCEPT ![s] = "Exit"]
    /\ health' = [health EXCEPT ![s].dropped = @ + discarded[s]]
    /\ discarded' = [discarded EXCEPT ![s] = 0]
    /\ UNCHANGED <<mailbox, notified, item, pushVars, delivered, lost, stopVars>>

(* ... and the worker counts the discarded items and the one it held. *)
CountDiscarded(s) ==
    /\ worker[s] = "Count"
    /\ worker' = [worker EXCEPT ![s] = "Exit"]
    /\ health' = [health EXCEPT ![s].dropped = @ + discarded[s] + 1]
    /\ discarded' = [discarded EXCEPT ![s] = 0]
    /\ UNCHANGED <<mailbox, notified, item, pushVars, delivered, lost, stopVars>>

(* The steps of a worker that do not wait for the sink. *)
WorkerStep(s) == WaitPop(s) \/ Wake(s) \/ Finish(s) \/ Discard(s) \/ CountDiscarded(s)
SinkReturns(s) == Deliver(s) \/ DeliverError(s)

-----------------------------------------------------------------------------
(* DaemonSinks::shutdown, sink by sink. *)

BeginShutdown ==
    /\ stopper = "Off" /\ fanout = <<>>
    /\ stopper' = IF Sinks = <<>> THEN "Returned" ELSE "Status"
    /\ UNCHANGED <<workVars, pushVars, delivered, lost, closing, status, drained, expired>>

(* snapshot() reads the mailbox first and the health after it. *)
ReadStatus ==
    /\ stopper = "Status"
    /\ LET m == mailbox[Head(closing)] IN status' = (m.items = <<>> /\ m.inFlight = 0)
    /\ stopper' = "Health"
    /\ UNCHANGED <<workVars, pushVars, delivered, lost, closing, drained, expired>>

(* Mutant of ReadHealth: an empty mailbox is enough. *)
ReadHealthIgnored ==
    /\ stopper = "Health"
    /\ \/ /\ status \/ expired
          /\ drained' = [drained EXCEPT ![Head(closing)] = IF status THEN "Ok" ELSE "Err"]
          /\ stopper' = "Close"
       \/ /\ ~status /\ ~expired
          /\ stopper' = "Status" /\ UNCHANGED drained
    /\ UNCHANGED <<workVars, pushVars, delivered, lost, closing, status, expired>>

(* One round of wait_for_drain, from what was read. *)
ReadHealth ==
    /\ stopper = "Health"
    /\ LET s == Head(closing)
           failed == s \in Required /\ ~health[s].healthy
       IN  \/ /\ failed \/ status \/ expired
              /\ drained' = [drained EXCEPT ![s] = IF ~failed /\ status THEN "Ok" ELSE "Err"]
              /\ stopper' = "Close"
           \/ /\ ~failed /\ ~status /\ ~expired
              /\ stopper' = "Status" /\ UNCHANGED drained
    /\ UNCHANGED <<workVars, pushVars, delivered, lost, closing, status, expired>>

CloseMailbox ==
    /\ stopper = "Close"
    /\ mailbox' = [mailbox EXCEPT ![Head(closing)].closed = TRUE]
    /\ Notify(Head(closing))
    /\ stopper' = "Join"
    /\ UNCHANGED <<worker, item, health, discarded, pushVars, delivered, lost, closing,
                   status, drained, expired>>

(* Mutant of Join: every worker is joined. *)
JoinAlways ==
    /\ stopper = "Join"
    /\ worker[Head(closing)] = "Exit"
    /\ closing' = Tail(closing)
    /\ stopper' = IF Len(closing) = 1 THEN "Returned" ELSE "Status"
    /\ UNCHANGED <<workVars, pushVars, delivered, lost, status, drained, expired>>

(* A drained worker is joined; one that is still in its sink is left behind. *)
Join ==
    /\ stopper = "Join"
    /\ drained[Head(closing)] = "Ok" => worker[Head(closing)] = "Exit"
    /\ closing' = Tail(closing)
    /\ stopper' = IF Len(closing) = 1 THEN "Returned" ELSE "Status"
    /\ UNCHANGED <<workVars, pushVars, delivered, lost, status, drained, expired>>

DeadlinePasses ==
    /\ stopper \notin {"Off", "Returned"} /\ ~expired
    /\ expired' = TRUE
    /\ UNCHANGED <<workVars, pushVars, delivered, lost, closing, stopper, status, drained>>

Shutdown == ReadStatus \/ ReadHealth \/ CloseMailbox \/ Join

Terminated == stopper = "Returned" /\ UNCHANGED stepVars

Next ==
    /\ \/ Offer \/ PushOne \/ CountPush
       \/ \E s \in Sink : WorkerStep(s) \/ SinkReturns(s)
       \/ BeginShutdown \/ Shutdown \/ DeadlinePasses
       \/ Terminated
    /\ UNCHANGED policy

Spec == Init /\ [][Next]_vars

(* Threads are scheduled and time passes; a sink may stay in its call forever. *)
FairSpec ==
    /\ Spec
    /\ \A s \in Sink : WF_stepVars(WorkerStep(s))
    /\ WF_stepVars(PushOne) /\ WF_stepVars(CountPush)
    /\ WF_stepVars(Shutdown) /\ WF_stepVars(DeadlinePasses)

-----------------------------------------------------------------------------
(* A sink sees the events in the order they were offered, each at most     *)
(* once, whatever was dropped in between: what it accepted, the one it is  *)
(* working on and what waits in its mailbox form one increasing sequence,  *)
(* and none of them has been reported lost.                                *)
Pipeline(s) ==
    delivered[s] \o (IF worker[s] \in {"Deliver", "Fail"} THEN <<item[s]>> ELSE <<>>)
                 \o mailbox[s].items
InOrder ==
    \A s \in Sink :
      /\ \A i, j \in DOMAIN Pipeline(s) : i < j => Pipeline(s)[i] < Pipeline(s)[j]
      /\ Range(Pipeline(s)) \intersect lost[s] = {}

(* No event disappears from the counters the operator sees: every event    *)
(* pushed to a sink was accepted by it, is counted as dropped, was refused *)
(* with an error, is still on its way, or is about to be counted, by       *)
(* enqueue or by a failing worker that has discarded it.                   *)
Counting(s) == tally # NoTally /\ s = Head(fanout)
Pushed(s)   == offered - (IF s \in Range(fanout) /\ ~Counting(s) THEN 1 ELSE 0)
EveryEventAccounted ==
    \A s \in Sink :
      Pushed(s) = Len(Pipeline(s)) + health[s].dropped + refused[s]
                    + (IF Counting(s) THEN tally.dropped ELSE 0)
                    + (IF worker[s] = "Count" THEN discarded[s] + 1 ELSE 0)

(* A required sink whose worker failed never reports a clean drain: when   *)
(* wait_for_drain returned Ok the sink is healthy and has settled every    *)
(* event its mailbox ever took.                                            *)
RequiredDrainIsHonest ==
    \A s \in Required :
      drained[s] = "Ok" => /\ health[s].healthy
                           /\ mailbox[s].items = <<>> /\ mailbox[s].inFlight = 0

(* No wake-up is left out between the mailbox and its worker: a worker     *)
(* that sleeps on the condition variable although its mailbox holds an     *)
(* event, or has been closed, has been notified.  (Check and wait are one  *)
(* step, as the mutex makes them.)                                         *)
NoLostWakeup ==
    \A s \in Sink :
      worker[s] = "Wait" /\ (mailbox[s].items # <<>> \/ mailbox[s].closed) => s \in notified

(* The shutdown returns, even when a sink never comes back from its call:  *)
(* the deadline frees the drain and only a drained worker is joined.       *)
ShutdownReturns == stopper = "Status" ~> stopper = "Returned"
=============================================================================
