------------------------------ MODULE LiveLoop ------------------------------
(***************************************************************************)
(* The live session loop (crates/engine/src/live.rs) with the runner it    *)
(* drives (runner.rs) and the reconnect budget (reconnect.rs), for any     *)
(* session machine.  The machine is the set of action lists it may answer  *)
(* each input with; <<"Error">> is an on_input that returns Err.           *)
(*                                                                         *)
(* A step is a stretch of the loop without an await, except that the       *)
(* actions of one answer are applied one step each, because the readiness  *)
(* and stop flags are shared with other threads all the while.  The        *)
(* overflow policy is FailEngine, the one the daemon runs live sessions    *)
(* with.  Frame recording, metrics and diagnostic mirrors are left out.    *)
(***************************************************************************)
EXTENDS Integers, Sequences

CONSTANTS
    Capacity,          \* dispatch_capacity, of each lane
    MaxPendingHttp, MaxPendingWrites, MaxTimerFires,
    MaxReconnects,     \* max_reconnects
    ResetAfterLive,    \* reset_after_live_ms, in ticks of the model's clock
    OnConnectedActs, OnFrameActs, OnTimerActs, OnResponseActs, OnDisconnectedActs,
    ClockJumps         \* how many ClockJump events a clock sample may push: a subset of {0, 1}

Act == {"Batch", "System", "Write", "Http", "Timer", "CancelTimer", "Mirror",
        "Live", "Degraded", "Reconnect", "Stop", "Error"}

ASSUME LoopAssumption ==
    /\ {Capacity, MaxPendingHttp, MaxPendingWrites, MaxTimerFires, ResetAfterLive} \subseteq Nat \ {0}
    /\ MaxReconnects \in Nat
    /\ OnConnectedActs \union OnFrameActs \union OnTimerActs \union OnResponseActs
         \union OnDisconnectedActs \subseteq Seq(Act)
    /\ ClockJumps \subseteq {0, 1}

VARIABLES
    pc,          \* where the loop is
    todo, ret,   \* actions still to apply, and where to go after them
    fin,         \* where to go after the flush of side effects
    before,      \* lifecycle_before
    fired,       \* timers fired by this poll
    taken,       \* HTTP requests taken by flush_http and not yet sent
    exit,        \* why the inner loop ends: "None", "Closed" or "Error" (transport_error)
    runner,      \* SessionRunner
    recon,       \* ReconnectState
    stopSignal,  \* the stop flag shared with the daemon
    up,          \* the machine saw Connected, and no Disconnected since
    connAge,     \* history: age of the connection, up to ResetAfterLive
    result       \* how the loop returned

controlVars == <<ret, fin, before, fired, exit>>
vars == <<pc, todo, controlVars, taken, runner, recon, stopSignal, up, connAge, result>>

Lifecycle == {"Planned", "Connecting", "Connected", "Live", "Degraded", "Backoff",
              "Draining", "Stopped"}

Label == {"Top", "Connecting", "Apply", "ConnStatus", "Handled", "FlushWrites", "FlushHttp",
          "HttpWait", "Session", "Poll", "PreRead", "Read", "IdleConsume", "FrameConsume",
          "Lost", "LostDone", "Backoff", "StopStart", "StopDone", "Done"}

NotLive == -1

TypeOK ==
    /\ {pc, ret, fin} \subseteq Label
    /\ todo \in Seq(Act)
    /\ before \in Lifecycle
    /\ fired \in 0 .. MaxTimerFires
    /\ taken \in 0 .. MaxPendingHttp
    /\ exit \in {"None", "Closed", "Error"}
    /\ runner \in [lifecycle: Lifecycle, live: BOOLEAN, stop: BOOLEAN, reconnect: BOOLEAN,
                   timer: BOOLEAN, writes: 0 .. MaxPendingWrites, http: 0 .. MaxPendingHttp,
                   batches: 0 .. Capacity, systems: 0 .. Capacity]
    /\ recon \in [reconnects: 0 .. MaxReconnects + 1, liveFor: NotLive .. ResetAfterLive,
                  applied: BOOLEAN]
    /\ {stopSignal, up} \subseteq BOOLEAN
    /\ connAge \in 0 .. ResetAfterLive
    /\ result \in {"None", "Ok", "Err", "Overflow"}

Init ==
    /\ pc = "Top" /\ todo = <<>> /\ ret = "Top" /\ fin = "Top"
    /\ before = "Planned" /\ fired = 0 /\ taken = 0 /\ exit = "None"
    /\ runner = [lifecycle |-> "Planned", live |-> FALSE, stop |-> FALSE, reconnect |-> FALSE,
                 timer |-> FALSE, writes |-> 0, http |-> 0, batches |-> 0, systems |-> 0]
    /\ recon = [reconnects |-> 0, liveFor |-> NotLive, applied |-> FALSE]
    /\ stopSignal = FALSE /\ up = FALSE /\ connAge = 0 /\ result = "None"

StopRequested == runner.stop \/ stopSignal

-----------------------------------------------------------------------------
(* StableLiveReset::observe and ReconnectState. *)

(* Mutant of ClearStable: the interval goes on. *)
ClearStableKeeps(k) == [k EXCEPT !.applied = FALSE]

ClearStable(k) == [k EXCEPT !.liveFor = NotLive, !.applied = FALSE]

Observe(k, isLive) ==
    LET since == IF k.liveFor = NotLive THEN 0 ELSE k.liveFor
    IN  CASE ~isLive -> ClearStable(k)
          [] isLive /\ ~k.applied /\ since >= ResetAfterLive ->
               [reconnects |-> 0, liveFor |-> since, applied |-> TRUE]
          [] OTHER -> [k EXCEPT !.liveFor = since]

ObserveTransition(k, from, to) ==
    Observe(IF from = "Live" /\ to # "Live" THEN Observe(k, TRUE) ELSE k, to = "Live")

NoteFailure(k) == [k EXCEPT !.reconnects = @ + 1]
Exhausted(k)   == k.reconnects > MaxReconnects

-----------------------------------------------------------------------------
(* The ways a step ends. *)

Return(r, how) == pc' = "Done" /\ runner' = r /\ result' = how

(* run_session_with_reconnect_to on an error of the inner loop. *)
Fail(how) == Return([runner EXCEPT !.live = FALSE, !.lifecycle = "Stopped"], how)

(* Mutant of Limit: one more than fits. *)
LimitOffByOne(lane) == IF lane = "http" THEN MaxPendingHttp + 1 ELSE Capacity + 1

Limit(lane) == CASE lane \in {"batches", "systems"} -> Capacity
                 [] lane = "http"   -> MaxPendingHttp
                 [] lane = "writes" -> MaxPendingWrites

(* Push onto a bounded queue of r and go on at label; a full queue is fatal. *)
Push(r, lane, label) ==
    \/ /\ r[lane] < Limit(lane)
       /\ runner' = [r EXCEPT ![lane] = @ + 1]
       /\ pc' = label /\ UNCHANGED result
    \/ r[lane] >= Limit(lane) /\ Fail("Overflow")

Become(r, label) == runner' = r /\ pc' = label /\ UNCHANGED result

(* Run the loop on with answer acts of the machine, then at label. *)
Deliver(r, acts, label) ==
    /\ todo' = acts /\ ret' = label
    /\ Become(r, IF acts = <<>> THEN label ELSE "Apply")

(* note_clock_jump, at the start of a handler: the runners it can leave, and *)
(* the report that no longer fits.                                           *)
Sampled == { [runner EXCEPT !.systems = @ + j] :
               j \in {k \in ClockJumps : runner.systems + k <= Capacity} }
JumpOverflow ==
    /\ pc \in {"Connecting", "Session", "Read"}
    /\ pc = "Session" => ~StopRequested /\ ~runner.reconnect
    /\ \E j \in ClockJumps : runner.systems + j > Capacity
    /\ Fail("Overflow")
    /\ UNCHANGED <<todo, controlVars, taken, recon, stopSignal, up, connAge>>

(* consume_dispatch: both lanes are forwarded; EventsDropped follows when the *)
(* sink dropped something.                                                    *)
Consumed(r) ==
    { [r EXCEPT !.batches = 0, !.systems = d] :
        d \in IF r.batches + r.systems > 0 THEN {0, 1} ELSE {0} }

-----------------------------------------------------------------------------
(* apply_actions, one action per step. *)

Marked(r, a) ==
    CASE a = "Live"      -> [r EXCEPT !.lifecycle = "Live", !.live = TRUE]
      [] a = "Degraded"  -> [r EXCEPT !.lifecycle = "Degraded", !.live = FALSE]
      [] a = "Reconnect" -> [r EXCEPT !.lifecycle = "Backoff", !.live = FALSE, !.reconnect = TRUE]
      [] a = "Stop"      -> [r EXCEPT !.live = FALSE, !.stop = TRUE]
      [] a = "Timer"     -> [r EXCEPT !.timer = TRUE]
      [] a = "CancelTimer" -> [r EXCEPT !.timer = FALSE]
      [] OTHER -> r

ApplyAction ==
    /\ pc = "Apply"
    /\ LET a == Head(todo)
           next == IF Len(todo) = 1 THEN ret ELSE "Apply"
       IN  \/ a \in {"Batch", "Live", "Degraded"} /\ Push(Marked(runner, a), "batches", next)
           \/ a = "System" /\ Push(runner, "systems", next)
           \/ a = "Write"  /\ Push(runner, "writes", next)
           \/ a = "Http"   /\ Push(runner, "http", next)
           \/ a \in {"Timer", "CancelTimer", "Reconnect", "Stop", "Mirror"}
              /\ Become(Marked(runner, a), next)
           \/ a = "Error"  /\ Fail("Err")
    /\ todo' = Tail(todo)
    /\ UNCHANGED <<controlVars, taken, recon, stopSignal, up, connAge>>

-----------------------------------------------------------------------------
(* Connecting. *)

Top ==
    /\ pc = "Top"
    /\ \/ StopRequested /\ Become(runner, "StopStart")
       \/ ~StopRequested /\ Become([runner EXCEPT !.lifecycle = "Connecting"], "Connecting")
    /\ UNCHANGED <<todo, controlVars, taken, recon, stopSignal, up, connAge>>

(* wait_for_stop won the race against connect. *)
ConnectStopped ==
    /\ pc = "Connecting" /\ stopSignal
    /\ Become(runner, "StopStart")
    /\ UNCHANGED <<todo, controlVars, taken, recon, stopSignal, up, connAge>>

ConnectFailed ==
    /\ pc = "Connecting"
    /\ recon' = NoteFailure(recon)
    /\ IF Exhausted(recon') \/ StopRequested THEN Fail("Err") ELSE Become(runner, "Backoff")
    /\ UNCHANGED <<todo, controlVars, taken, stopSignal, up, connAge>>

StartConnection(r) ==
    /\ recon' = ClearStable(recon) /\ before' = r.lifecycle
    /\ up' = TRUE /\ connAge' = 0 /\ exit' = "None"
    /\ \E acts \in OnConnectedActs :
         Deliver([r EXCEPT !.lifecycle = "Connected", !.timer = FALSE], acts, "ConnStatus")
    /\ UNCHANGED <<fin, fired, taken, stopSignal>>

OnConnected == pc = "Connecting" /\ \E r \in Sampled : StartConnection(r)

(* emit_venue_status("connected") ends on_connected. *)
ConnStatus ==
    /\ pc = "ConnStatus"
    /\ Push(runner, "batches", "Handled")
    /\ fin' = "Session"
    /\ UNCHANGED <<todo, ret, before, fired, exit, taken, recon, stopSignal, up, connAge>>

-----------------------------------------------------------------------------
(* After a handler: observe the lifecycle, flush the side effects, observe *)
(* again.                                                                  *)

Handled ==
    /\ pc = "Handled"
    /\ recon' = ObserveTransition(recon, before, runner.lifecycle)
    /\ before' = runner.lifecycle
    /\ Become(runner, "FlushWrites")
    /\ UNCHANGED <<todo, ret, fin, fired, exit, taken, stopSignal, up, connAge>>

(* take_pending_writes empties the queue; a stop or a failed write drops the rest. *)
FlushWrites ==
    /\ pc = "FlushWrites"
    /\ \/ Become([runner EXCEPT !.writes = 0], "FlushHttp")
       \/ runner.writes > 0 /\ stopSignal /\ Become([runner EXCEPT !.writes = 0], "StopStart")
       \/ runner.writes > 0 /\ Fail("Err")
    /\ UNCHANGED <<todo, controlVars, taken, recon, stopSignal, up, connAge>>

(* Mutant of FlushHttp: the stop flag is not looked at before a request. *)
FlushHttpDeaf ==
    /\ pc = "FlushHttp"
    /\ \/ /\ taken = 0 /\ runner.http = 0
          /\ recon' = ObserveTransition(recon, before, runner.lifecycle)
          /\ Become(runner, fin) /\ UNCHANGED taken
       \/ /\ taken = 0 /\ runner.http > 0
          /\ taken' = runner.http /\ Become([runner EXCEPT !.http = 0], "FlushHttp")
          /\ UNCHANGED recon
       \/ taken > 0 /\ Become(runner, "HttpWait") /\ UNCHANGED <<taken, recon>>
    /\ UNCHANGED <<todo, controlVars, stopSignal, up, connAge>>

FlushHttp ==
    /\ pc = "FlushHttp"
    /\ \/ /\ taken = 0 /\ runner.http = 0
          /\ recon' = ObserveTransition(recon, before, runner.lifecycle)
          /\ Become(runner, fin) /\ UNCHANGED taken
       \/ /\ taken = 0 /\ runner.http > 0
          /\ taken' = runner.http /\ Become([runner EXCEPT !.http = 0], "FlushHttp")
          /\ UNCHANGED recon
       \/ /\ taken > 0
          /\ Become(runner, IF stopSignal THEN "StopStart" ELSE "HttpWait")
          /\ UNCHANGED <<taken, recon>>
    /\ UNCHANGED <<todo, controlVars, stopSignal, up, connAge>>

OnHttpResponse ==
    /\ pc = "HttpWait"
    /\ taken' = taken - 1
    /\ \E acts \in OnResponseActs : Deliver(runner, acts, "FlushHttp")
    /\ UNCHANGED <<fin, before, fired, exit, recon, stopSignal, up, connAge>>

(* http.request fails, or the stop flag is noticed while it is pending. *)
HttpAborted ==
    /\ pc = "HttpWait"
    /\ \/ Fail("Err")
       \/ stopSignal /\ Become(runner, "StopStart")
    /\ UNCHANGED <<todo, controlVars, taken, recon, stopSignal, up, connAge>>

-----------------------------------------------------------------------------
(* The inner loop. *)

StartPoll(r, label) ==
    /\ recon' = Observe(recon, r.lifecycle = "Live")
    /\ before' = r.lifecycle /\ fired' = 0 /\ fin' = label
    /\ Become(r, "Poll")
    /\ UNCHANGED <<todo, ret, exit, taken, stopSignal, up, connAge>>

SessionHead ==
    /\ pc = "Session"
    /\ \/ /\ StopRequested \/ runner.reconnect
          /\ Become(runner, IF StopRequested THEN "StopStart" ELSE "Lost")
          /\ UNCHANGED <<todo, controlVars, taken, recon, stopSignal, up, connAge>>
       \/ /\ ~StopRequested /\ ~runner.reconnect
          /\ \E r \in Sampled : StartPoll(r, "PreRead")

(* poll_timers; whether a scheduled timer is due is the clock's choice. *)
OnTimer ==
    /\ pc = "Poll" /\ runner.timer /\ fired < MaxTimerFires
    /\ fired' = fired + 1
    /\ \E acts \in OnTimerActs : Deliver([runner EXCEPT !.timer = FALSE], acts, "Poll")
    /\ UNCHANGED <<fin, before, exit, taken, recon, stopSignal, up, connAge>>

PollDone ==
    /\ pc = "Poll"
    /\ Become(runner, "Handled")
    /\ UNCHANGED <<todo, controlVars, taken, recon, stopSignal, up, connAge>>

(* Mutant of PreRead: what the timers and responses asked for is not looked at. *)
PreReadBlind ==
    /\ pc = "PreRead"
    /\ Become(runner, "Read")
    /\ UNCHANGED <<todo, controlVars, taken, recon, stopSignal, up, connAge>>

PreRead ==
    /\ pc = "PreRead"
    /\ Become(runner, IF runner.reconnect \/ StopRequested THEN "Session" ELSE "Read")
    /\ UNCHANGED <<todo, controlVars, taken, recon, stopSignal, up, connAge>>

(* read_frame timed out. *)
IdleTick == pc = "Read" /\ \E r \in Sampled : StartPoll(r, "IdleConsume")

(* A frame; a close frame is handled like the others and ends the inner loop. *)
HandleFrame(r, close) ==
    /\ recon' = Observe(recon, runner.lifecycle = "Live")
    /\ before' = r.lifecycle /\ fin' = "FrameConsume"
    /\ exit' = IF close THEN "Closed" ELSE exit
    /\ \E acts \in OnFrameActs : Deliver(r, acts, "Handled")
    /\ UNCHANGED <<fired, taken, stopSignal, up, connAge>>

OnFrame == pc = "Read" /\ \E close \in BOOLEAN, r \in Sampled : HandleFrame(r, close)

ReadFailed ==
    /\ pc = "Read"
    /\ recon' = Observe(recon, runner.lifecycle = "Live")
    /\ exit' \in {"Closed", "Error"}
    /\ Become(runner, "Lost")
    /\ UNCHANGED <<todo, ret, fin, before, fired, taken, stopSignal, up, connAge>>

Consume ==
    /\ pc \in {"IdleConsume", "FrameConsume"}
    /\ recon' = Observe(recon, runner.lifecycle = "Live")
    /\ LET lost == pc = "FrameConsume" /\ (runner.reconnect \/ exit = "Closed")
       IN  \/ \E r \in Consumed(runner) : Become(r, IF lost THEN "Lost" ELSE "Session")
           \/ Fail("Err")
    /\ UNCHANGED <<todo, controlVars, taken, stopSignal, up, connAge>>

-----------------------------------------------------------------------------
(* Teardown. *)

(* Mutant of OnTransportLost: the readiness flag is left as it was. *)
OnTransportLostReady ==
    /\ pc = "Lost"
    /\ up' = FALSE
    /\ \E acts \in OnDisconnectedActs :
         Deliver([runner EXCEPT !.lifecycle = "Backoff", !.timer = FALSE], acts, "LostDone")
    /\ UNCHANGED <<fin, before, fired, exit, taken, recon, stopSignal, connAge>>

OnTransportLost ==
    /\ pc = "Lost"
    /\ up' = FALSE
    /\ \E acts \in OnDisconnectedActs :
         Deliver([runner EXCEPT !.lifecycle = "Backoff", !.live = FALSE, !.timer = FALSE],
                 acts, "LostDone")
    /\ UNCHANGED <<fin, before, fired, exit, taken, recon, stopSignal, connAge>>

(* Mutant of LostDone: what the teardown emitted is not forwarded before the return. *)
LostDoneUndrained ==
    /\ pc = "LostDone"
    /\ recon' = NoteFailure(ClearStable(recon))
    /\ LET r == [runner EXCEPT !.reconnect = FALSE]
       IN  \/ /\ StopRequested \/ Exhausted(recon')
              /\ Return([r EXCEPT !.lifecycle = "Stopped"],
                        IF ~StopRequested /\ exit = "Error" THEN "Err" ELSE "Ok")
           \/ /\ ~StopRequested /\ ~Exhausted(recon')
              /\ Become([r EXCEPT !.lifecycle = "Backoff"], "Backoff")
    /\ UNCHANGED <<todo, controlVars, taken, stopSignal, up, connAge>>

LostDone ==
    /\ pc = "LostDone"
    /\ recon' = NoteFailure(ClearStable(recon))
    /\ LET r == [runner EXCEPT !.reconnect = FALSE]
       IN  \/ /\ StopRequested \/ Exhausted(recon')
              /\ \/ \E c \in Consumed(r) :
                      Return([c EXCEPT !.lifecycle = "Stopped"],
                             IF ~StopRequested /\ exit = "Error" THEN "Err" ELSE "Ok")
                 \/ Fail("Err")
           \/ /\ ~StopRequested /\ ~Exhausted(recon')
              /\ Become([r EXCEPT !.lifecycle = "Backoff"], "Backoff")
    /\ UNCHANGED <<todo, controlVars, taken, stopSignal, up, connAge>>

BackoffDone ==
    /\ pc = "Backoff"
    /\ Become(runner, "Top")
    /\ UNCHANGED <<todo, controlVars, taken, recon, stopSignal, up, connAge>>

(* graceful_stop: request_stop, ShutdownStarted, close, on_disconnected ... *)
StopStart ==
    /\ pc = "StopStart"
    /\ stopSignal' = TRUE /\ up' = FALSE
    /\ LET r == [runner EXCEPT !.stop = TRUE, !.live = FALSE]
       IN  \/ /\ r.systems < Capacity
              /\ \E acts \in OnDisconnectedActs :
                   Deliver([r EXCEPT !.systems = @ + 1, !.lifecycle = "Draining",
                                     !.timer = FALSE], acts, "StopDone")
           \/ r.systems >= Capacity /\ Fail("Overflow") /\ UNCHANGED <<todo, ret>>
    /\ UNCHANGED <<fin, before, fired, exit, taken, recon, connAge>>

(* ... consume, ShutdownCompleted, consume. *)
StopDone ==
    /\ pc = "StopDone"
    /\ \/ \E c \in Consumed([runner EXCEPT !.lifecycle = "Stopped"]) :
            \/ /\ c.systems < Capacity
               /\ \E d \in Consumed([c EXCEPT !.systems = @ + 1]) : Return(d, "Ok")
            \/ c.systems >= Capacity /\ Fail("Overflow")
       \/ Fail("Err")
    /\ UNCHANGED <<todo, controlVars, taken, recon, stopSignal, up, connAge>>

-----------------------------------------------------------------------------
Step ==
    \/ Top \/ ConnectStopped \/ ConnectFailed \/ OnConnected \/ ConnStatus
    \/ ApplyAction \/ Handled \/ FlushWrites \/ FlushHttp \/ OnHttpResponse \/ HttpAborted
    \/ SessionHead \/ JumpOverflow \/ OnTimer \/ PollDone \/ PreRead
    \/ IdleTick \/ OnFrame \/ ReadFailed \/ Consume
    \/ OnTransportLost \/ LostDone \/ BackoffDone \/ StopStart \/ StopDone

(* Another thread sets the shared flag. *)
RequestStop ==
    /\ pc # "Done" /\ ~stopSignal
    /\ stopSignal' = TRUE
    /\ UNCHANGED <<pc, todo, controlVars, taken, runner, recon, up, connAge, result>>

(* Time passes while the loop awaits the network. *)
Tick ==
    /\ pc \in {"Read", "HttpWait"}
    /\ connAge < ResetAfterLive \/ recon.liveFor \in 0 .. ResetAfterLive - 1
    /\ connAge' = IF connAge = ResetAfterLive THEN connAge ELSE connAge + 1
    /\ recon' = [recon EXCEPT !.liveFor =
                   IF @ = NotLive \/ @ = ResetAfterLive THEN @ ELSE @ + 1]
    /\ UNCHANGED <<pc, todo, controlVars, taken, runner, stopSignal, up, result>>

Terminated == pc = "Done" /\ UNCHANGED vars

Next == Step \/ RequestStop \/ Tick \/ Terminated

Spec == Init /\ [][Next]_vars

(* Every await of the loop is bounded by a timeout or by the stop flag. *)
FairSpec == Spec /\ WF_vars(Step)

-----------------------------------------------------------------------------
(* The readiness flag that /ready and the venue metrics are computed from  *)
(* is never set without a connection: whatever order MarkLive, Reconnect,  *)
(* teardown, errors and stops come in, it is off from the teardown on      *)
(* until a machine on a new connection marks itself live.                  *)
ReadyMeansConnected == runner.live => up /\ pc # "Done"

(* The machine's inputs arrive in protocol order: Connected only to a      *)
(* machine that was told of the end of the last connection, responses and  *)
(* timers only on a connection, and frames only while neither a reconnect  *)
(* nor a local stop is waiting to be carried out.                          *)
InputsInOrder ==
    [][ /\ pc = "Connecting" => ~up
        /\ pc \in {"HttpWait", "Poll", "Read"} => up
        /\ OnFrame => ~runner.reconnect /\ ~runner.stop ]_vars

(* The reconnect budget is refilled only on a connection that has lasted   *)
(* reset_after_live: a venue that accepts connections and drops them can   *)
(* not earn itself an endless budget, even when each of them goes live.    *)
BudgetIsEarned ==
    [][recon'.reconnects < recon.reconnects => up /\ connAge >= ResetAfterLive]_vars

(* When the loop returns Ok everything the session emitted has been        *)
(* forwarded; only the account of what the sink dropped in that very last  *)
(* forwarding (EventsDropped) may be left in the queue.                    *)
OkMeansDrained == result = "Ok" => runner.batches = 0 /\ runner.systems <= 1

(* A stop always ends the loop, wherever it is: connecting, backing off,   *)
(* reading, waiting for a response, or in a chain of responses each of     *)
(* which makes the machine send a further request.                         *)
StopEnds == stopSignal ~> (pc = "Done")

(* The dispatcher of a session whose sink takes everything does not fill   *)
(* up: "Dispatch is always drained (FailEngine-safe)" (live.rs).           *)
FailEngineSafe == result # "Overflow"
=============================================================================
