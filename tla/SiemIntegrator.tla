---------------------------- MODULE SiemIntegrator ----------------------------
(***************************************************************************)
(* SIEMIntegrator with its connectors and its SIEMCircuitBreaker           *)
(* (resync/core/siem_integrator.py).  Events go through a queue and a      *)
(* buffer, and are sent a batch at a time to each connector in turn, by    *)
(* whichever task finds that it is time: the processor, the flusher, or    *)
(* stop().  The monitor reconnects connectors and closes their circuits.   *)
(*                                                                         *)
(* A task is interrupted only where it awaits: in a send, a connection or  *)
(* a disconnection.  One step here is what it does between two of those.   *)
(* A loop over the dictionary of connectors raises RuntimeError when the   *)
(* dictionary has grown during such a wait.                                *)
(*                                                                         *)
(* The two kinds of connector differ only in their requests.  A bulk       *)
(* request that some of the events passed counts as passed.  What is       *)
(* dropped because the queue is full never enters the system.              *)
(*                                                                         *)
(* start() looks at _running only, which stop() clears before it awaits    *)
(* anything: the tasks of a start() may meet those of an earlier one, and  *)
(* a stop() that is under way.  Tasks are therefore numbered by the        *)
(* start() that made them, and a stop() by the start() before it.          *)
(*                                                                         *)
(* connect() puts a new session in the place of an old one that nobody     *)
(* closes; sessions tells who has one, not what became of the old ones.    *)
(* A task that start() makes is taken to be at its first wait at once.     *)
(* Bounds: a name is added once; MaxStarts; MaxEvents.                     *)
(***************************************************************************)
EXTENDS Integers, Sequences

CONSTANTS
  Names,                   \* connectors
  batch_size,
  max_queue,               \* room in event_queue
  failure_threshold,       \* failures that open a circuit
  max_connection_failures, \* failed sends that make a connector one in error
  MaxStarts,               \* bound: effective calls of start()
  MaxEvents                \* bound: events accepted

ASSUME SiemAssumption ==
  /\ {batch_size, max_queue, failure_threshold, max_connection_failures} \subseteq Nat \ {0}
  /\ MaxStarts \in Nat
  /\ MaxEvents \in Nat

VARIABLES
  connectors,           \* the names added, in the order of the dictionary
  status,               \* of each connector
  connection_failures,  \* of each connector, counted up to max_connection_failures
  sessions,             \* connectors whose session is not None
  failure_counts,       \* of each circuit, counted up to failure_threshold
  open_circuits,
  cooling,              \* open circuits whose last failure is less than recovery_timeout ago
  event_queue,
  event_buffer,
  recent,               \* last_flush is less than flush_interval ago
  _running,
  started,              \* effective calls of start(): the number of the last one
  tasks,                \* what each task waits for
  accepted,             \* the number of events accepted, which is the last one's name
  sent                  \* history: the events that were sent to a SIEM, with whatever result

siemVars == <<status, connection_failures, sessions>>
breakerVars == <<failure_counts, open_circuits, cooling>>
eventVars == <<event_queue, event_buffer, accepted>>
runVars == <<_running, started>>
vars == <<connectors, siemVars, breakerVars, eventVars, recent, runVars, tasks, sent>>

-------------------------------------------------------------------------------
SIEMStatus == {"DISCONNECTED", "CONNECTING", "CONNECTED", "ERROR"}
Event == 1..MaxEvents
Generation == 1..MaxStarts
Workers == {"processor", "flusher", "monitor"}
Task == (Workers \cup {"stop"}) \X Generation

\* A task in a loop over the connectors is at position pos of a dictionary that had size
\* elements when the loop began; a flush has a batch in hand; and a stop() that cancels has
\* read the fields that hold the tasks of the start() numbered of.
At(doing) == [doing |-> doing, batch |-> <<>>, pos |-> 0, size |-> 0, of |-> 0]
Ended == At("ended")
Waiting == At("waiting")

TypeOK ==
  /\ connectors \in Seq(Names)
  /\ status \in [Names -> SIEMStatus]
  /\ connection_failures \in [Names -> 0..max_connection_failures]
  /\ sessions \subseteq Names
  /\ failure_counts \in [Names -> 0..failure_threshold]
  /\ open_circuits \subseteq Names
  /\ cooling \subseteq open_circuits
  /\ event_queue \in Seq(Event)
  /\ Len(event_queue) <= max_queue
  /\ event_buffer \in Seq(Event)
  /\ Len(event_buffer) < batch_size
  /\ recent \in BOOLEAN
  /\ _running \in BOOLEAN
  /\ started \in 0..MaxStarts
  /\ \A t \in Task :
       /\ tasks[t].doing \in {"ended", "waiting", "sending", "connecting", "cancelling", "disconnecting"}
       /\ tasks[t].batch \in Seq(Event)
       /\ tasks[t].pos \in 0..Len(connectors)
       /\ tasks[t].size \in 0..Len(connectors)
       /\ tasks[t].of \in 0..started
  /\ accepted \in 0..MaxEvents
  /\ sent \subseteq Event

Init ==
  /\ connectors = <<>>
  /\ status = [c \in Names |-> "DISCONNECTED"]
  /\ connection_failures = [c \in Names |-> 0]
  /\ sessions = {}
  /\ failure_counts = [c \in Names |-> 0]
  /\ open_circuits = {}
  /\ cooling = {}
  /\ event_queue = <<>>
  /\ event_buffer = <<>>
  /\ recent = TRUE
  /\ _running = FALSE
  /\ started = 0
  /\ tasks = [t \in Task |-> Ended]
  /\ accepted = 0
  /\ sent = {}

-------------------------------------------------------------------------------
(* The circuit breaker *)

\* record_failure of each of these.
record_failures(failed) ==
  /\ failure_counts' = [c \in Names |->
       IF c \in failed /\ failure_counts[c] < failure_threshold
       THEN failure_counts[c] + 1 ELSE failure_counts[c]]
  /\ open_circuits' = open_circuits \cup {c \in failed : failure_counts'[c] >= failure_threshold}
  /\ cooling' = cooling \cup {c \in failed : c \in open_circuits'}

\* reset, and attempt_reset of open circuits.
Reset(closed) ==
  /\ failure_counts' = [c \in Names |-> IF c \in closed THEN 0 ELSE failure_counts[c]]
  /\ open_circuits' = open_circuits \ closed
  /\ cooling' = cooling \ closed

\* Mutant of can_attempt: only the circuits of connectors that are down.
MutOnlyIfDown(c) == c \in open_circuits /\ c \notin cooling /\ status[c] # "CONNECTED"

can_attempt(c) == c \in open_circuits /\ c \notin cooling

\* recovery_timeout has passed since the last failure.
RecoveryTimeout(c) ==
  /\ c \in cooling
  /\ cooling' = cooling \ {c}
  /\ UNCHANGED <<connectors, siemVars, failure_counts, open_circuits, eventVars, recent, runVars, tasks, sent>>

-------------------------------------------------------------------------------
(* Loops over the connectors *)

First(positions) == CHOOSE i \in positions : \A j \in positions : i <= j

\* Mutant of NextRound.
MutWhileTrue == Waiting

\* Where a worker is after a round, or after the exception that ends one.
NextRound == IF _running THEN Waiting ELSE Ended

\* The dictionary has grown while the task was waiting.
Grown(t) == Len(connectors) # tasks[t].size

Pause(t, doing, batch, pos, size) ==
  tasks' = [tasks EXCEPT ![t] = [doing |-> doing, batch |-> batch, pos |-> pos, size |-> size, of |-> 0]]

Continue(t, state) == tasks' = [tasks EXCEPT ![t] = state]

-------------------------------------------------------------------------------
(* Flushes *)

Cancelling == [At("cancelling") EXCEPT !.of = started]
AfterFlush(t) == IF t[1] = "stop" THEN Cancelling ELSE NextRound

CanSend(c) == status[c] = "CONNECTED" /\ c \notin open_circuits

\* _flush_events from the i-th connector on, when these have failed: up to the next send, or
\* to the end.  A connector that is taken to be connected but has no session fails at once.
FlushFrom(t, batch, i, size, failed) ==
  LET ready == {j \in i..Len(connectors) : CanSend(connectors[j]) /\ connectors[j] \in sessions}
      passed == i..(IF ready = {} THEN Len(connectors) ELSE First(ready) - 1)
  IN  /\ record_failures(failed \cup {connectors[j] : j \in {n \in passed : CanSend(connectors[n])}})
      /\ IF ready = {}
         THEN Continue(t, AfterFlush(t)) /\ recent' = TRUE
         ELSE Pause(t, "sending", batch, First(ready), size) /\ UNCHANGED recent

\* Mutant of Flush: the buffer is emptied only after the sends.
MutClearAfterwards(t, buffer) ==
  /\ FlushFrom(t, buffer, 1, Len(connectors), {})
  /\ event_buffer' = IF tasks'[t].doing = "sending" THEN buffer ELSE <<>>

\* _flush_events begins: the buffer is emptied before the first send.
Flush(t, buffer) ==
  /\ FlushFrom(t, buffer, 1, Len(connectors), {})
  /\ event_buffer' = <<>>

ToSet(s) == {s[i] : i \in 1..Len(s)}

\* An exception in send_events_batch.
SendRaises(c) ==
  /\ connection_failures' = [connection_failures EXCEPT ![c] =
       IF @ < max_connection_failures THEN @ + 1 ELSE @]
  /\ status' = IF connection_failures'[c] >= max_connection_failures
               THEN [status EXCEPT ![c] = "ERROR"] ELSE status
  /\ UNCHANGED sessions

\* send_events_batch returns: the events were sent, the SIEM refused them all, or there was
\* an exception, after which the SIEM may have got them all the same.  An exception of the
\* loop leaves stop() with everything still to do.
FinishSend(t) ==
  LET c == connectors[tasks[t].pos]
  IN  /\ tasks[t].doing = "sending"
      /\ \E failed \in SUBSET {c} :
           /\ \/ UNCHANGED siemVars
              \/ failed = {c} /\ SendRaises(c)
           /\ IF Grown(t)
              THEN /\ record_failures(failed)
                   /\ Continue(t, IF t[1] = "stop" THEN Ended ELSE NextRound)
                   /\ UNCHANGED recent
              ELSE FlushFrom(t, tasks[t].batch, tasks[t].pos + 1, tasks[t].size, failed)
      /\ sent' = sent \cup ToSet(tasks[t].batch)
      /\ UNCHANGED <<connectors, eventVars, runVars>>

-------------------------------------------------------------------------------
(* Events *)

\* send_security_event, send_custom_event
SendSecurityEvent ==
  /\ accepted < MaxEvents
  /\ Len(event_queue) < max_queue
  /\ accepted' = accepted + 1
  /\ event_queue' = Append(event_queue, accepted + 1)
  /\ UNCHANGED <<connectors, siemVars, breakerVars, event_buffer, recent, runVars, tasks, sent>>

\* Mutant of BatchIsFull.
MutBatchIsOverfull(buffer) == Len(buffer) > batch_size

BatchIsFull(buffer) == Len(buffer) >= batch_size

\* _event_processor
EventProcessor(g) ==
  LET t == <<"processor", g>>
      buffer == Append(event_buffer, Head(event_queue))
  IN  /\ tasks[t] = Waiting
      /\ event_queue # <<>>
      /\ event_queue' = Tail(event_queue)
      /\ IF BatchIsFull(buffer)
         THEN Flush(t, buffer)
         ELSE Continue(t, NextRound) /\ event_buffer' = buffer /\ UNCHANGED <<recent, breakerVars>>
      /\ UNCHANGED <<connectors, siemVars, accepted, runVars, sent>>

\* Mutant of TimeToFlush: full batches only.
MutOnlyFullBatches == Len(event_buffer) >= batch_size /\ ~recent

TimeToFlush == event_buffer # <<>> /\ ~recent

\* _batch_flusher wakes up to flush, or to see that the integrator was stopped.
BatchFlusher(g) ==
  LET t == <<"flusher", g>>
  IN  /\ tasks[t] = Waiting
      /\ IF TimeToFlush
         THEN Flush(t, event_buffer)
         ELSE Continue(t, NextRound) /\ UNCHANGED <<event_buffer, recent, breakerVars>>
      /\ UNCHANGED <<connectors, siemVars, event_queue, accepted, runVars, sent>>

\* flush_interval has passed since the last flush.
FlushInterval ==
  /\ recent
  /\ recent' = FALSE
  /\ UNCHANGED <<connectors, siemVars, breakerVars, eventVars, runVars, tasks, sent>>

-------------------------------------------------------------------------------
(* The health monitor *)

\* From the i-th connector on, with these circuits closed already: up to the next connector
\* that is down, which gets a session and starts to connect, or to the end.  Circuits that
\* may be are closed on the way.
MonitorFrom(t, i, size, closed, statusNow) ==
  LET down == {j \in i..Len(connectors) : statusNow[connectors[j]] # "CONNECTED"}
      passed == {connectors[j] : j \in i..(IF down = {} THEN Len(connectors) ELSE First(down) - 1)}
      next == connectors[First(down)]
  IN  /\ Reset(closed \cup {c \in passed : can_attempt(c)})
      /\ IF down = {}
         THEN Continue(t, NextRound) /\ status' = statusNow /\ UNCHANGED sessions
         ELSE /\ Pause(t, "connecting", <<>>, First(down), size)
              /\ status' = [statusNow EXCEPT ![next] = "CONNECTING"]
              /\ sessions' = sessions \cup {next}

HealthMonitor(g) ==
  LET t == <<"monitor", g>>
  IN  /\ tasks[t] = Waiting
      /\ MonitorFrom(t, 1, Len(connectors), {}, status)
      /\ UNCHANGED <<connectors, connection_failures, eventVars, recent, runVars, sent>>

\* connect() returns.  A circuit that has cooled down is closed even if it failed.
MonitorConnects(g, result) ==
  LET t == <<"monitor", g>>
      c == connectors[tasks[t].pos]
      closed == IF result = "CONNECTED" THEN {c} ELSE {n \in {c} : can_attempt(n)}
      statusNow == [status EXCEPT ![c] = result]
  IN  /\ tasks[t].doing = "connecting"
      /\ IF Grown(t)
         THEN Reset(closed) /\ Continue(t, NextRound) /\ status' = statusNow /\ UNCHANGED sessions
         ELSE MonitorFrom(t, tasks[t].pos + 1, tasks[t].size, closed, statusNow)
      /\ connection_failures' =
           [connection_failures EXCEPT ![c] = IF result = "CONNECTED" THEN 0 ELSE @]
      /\ UNCHANGED <<connectors, eventVars, recent, runVars, sent>>

-------------------------------------------------------------------------------
(* The integrator *)

AddSiemConnector(c) ==
  /\ c \notin ToSet(connectors)
  /\ connectors' = Append(connectors, c)
  /\ UNCHANGED <<siemVars, breakerVars, eventVars, recent, runVars, tasks, sent>>

\* Whatever is left of an earlier start() goes on beside the new tasks.
Start ==
  /\ ~_running
  /\ started < MaxStarts
  /\ _running' = TRUE
  /\ started' = started + 1
  /\ tasks' = [t \in Task |-> IF t[1] \in Workers /\ t[2] = started + 1 THEN Waiting ELSE tasks[t]]
  /\ UNCHANGED <<connectors, siemVars, breakerVars, eventVars, recent, sent>>

Stop ==
  /\ _running
  /\ _running' = FALSE
  /\ IF event_buffer = <<>>
     THEN Continue(<<"stop", started>>, Cancelling) /\ UNCHANGED <<event_buffer, recent, breakerVars>>
     ELSE Flush(<<"stop", started>>, event_buffer)
  /\ UNCHANGED <<connectors, siemVars, event_queue, accepted, started, sent>>

\* stop() cancels the tasks in this order, and awaits each before the next; what one was doing
\* is lost.
CancelTask(g, kind) ==
  LET of == tasks[<<"stop", g>>].of
  IN  /\ tasks[<<"stop", g>>].doing = "cancelling"
      /\ tasks[<<kind, of>>] # Ended
      /\ kind = "flusher" => tasks[<<"processor", of>>] = Ended
      /\ kind = "monitor" => tasks[<<"processor", of>>] = Ended /\ tasks[<<"flusher", of>>] = Ended
      /\ Continue(<<kind, of>>, Ended)
      /\ UNCHANGED <<connectors, siemVars, breakerVars, eventVars, recent, runVars, sent>>

\* stop() from the i-th connector on: up to the next session to close, or to the end.
DisconnectFrom(t, i, size, statusNow, sessionsNow) ==
  LET up == {j \in i..Len(connectors) : connectors[j] \in sessionsNow}
      passed == {connectors[j] : j \in i..(IF up = {} THEN Len(connectors) ELSE First(up) - 1)}
  IN  /\ status' = [c \in Names |-> IF c \in passed THEN "DISCONNECTED" ELSE statusNow[c]]
      /\ sessions' = sessionsNow
      /\ IF up = {}
         THEN Continue(t, Ended)
         ELSE Pause(t, "disconnecting", <<>>, First(up), size)

DisconnectAll(g) ==
  LET t == <<"stop", g>>
  IN  /\ tasks[t].doing = "cancelling"
      /\ \A kind \in Workers : tasks[<<kind, tasks[t].of>>] = Ended
      /\ DisconnectFrom(t, 1, Len(connectors), status, sessions)
      /\ UNCHANGED <<connectors, connection_failures, breakerVars, eventVars, recent, runVars, sent>>

Disconnect(g) ==
  LET t == <<"stop", g>>
      c == connectors[tasks[t].pos]
      statusNow == [status EXCEPT ![c] = "DISCONNECTED"]
      sessionsNow == sessions \ {c}
  IN  /\ tasks[t].doing = "disconnecting"
      /\ IF Grown(t)
         THEN Continue(t, Ended) /\ status' = statusNow /\ sessions' = sessionsNow
         ELSE DisconnectFrom(t, tasks[t].pos + 1, tasks[t].size, statusNow, sessionsNow)
      /\ UNCHANGED <<connectors, connection_failures, breakerVars, eventVars, recent, runVars, sent>>

ProcessorStep(g) == EventProcessor(g) \/ FinishSend(<<"processor", g>>)
FlusherStep(g) == BatchFlusher(g) \/ FinishSend(<<"flusher", g>>)
MonitorStep(g) ==
  \/ HealthMonitor(g)
  \/ \E result \in {"CONNECTED", "ERROR"} : MonitorConnects(g, result)
StopStep(g) ==
  \/ FinishSend(<<"stop", g>>)
  \/ \E kind \in Workers : CancelTask(g, kind)
  \/ DisconnectAll(g)
  \/ Disconnect(g)

Next ==
  \/ SendSecurityEvent
  \/ \E g \in Generation : ProcessorStep(g) \/ FlusherStep(g) \/ MonitorStep(g) \/ StopStep(g)
  \/ \E c \in Names : RecoveryTimeout(c) \/ AddSiemConnector(c)
  \/ FlushInterval
  \/ Start
  \/ Stop

Spec == Init /\ [][Next]_vars

\* The event loop runs every task that can go on; requests have a total timeout, so each of
\* them returns; and time passes.  Nothing makes events come, or anyone start or stop.
FairSpec ==
  /\ Spec
  /\ \A g \in Generation :
       /\ WF_vars(ProcessorStep(g))
       /\ WF_vars(FlusherStep(g))
       /\ WF_vars(MonitorStep(g))
       /\ WF_vars(StopStep(g))
  /\ \A c \in Names : WF_vars(RecoveryTimeout(c))
  /\ WF_vars(FlushInterval)

-------------------------------------------------------------------------------
(* Properties *)

InHand(t) == ToSet(tasks[t].batch)

\* An accepted event is in one place at most, and one that was sent does not come back to the
\* queue or the buffer: whoever flushes, and whenever, no SIEM is sent an event twice.
\* (_flush_events takes the buffer before it first awaits)
SentAtMostOnce ==
  /\ \A e \in 1..accepted :
       LET places == {t \in Task : e \in InHand(t)}
                       \cup {p \in {<<"queue", 0>>} : e \in ToSet(event_queue)}
                       \cup {p \in {<<"buffer", 0>>} : e \in ToSet(event_buffer)}
       IN  \A p, q \in places : p = q
  /\ sent \cap (ToSet(event_queue) \cup ToSet(event_buffer)) = {}

\* After a stop() every worker of every start() ends, unless the integrator is started again:
\* those that stop() cancels, those of an earlier start() whose tasks nobody holds any more,
\* and those of a stop() that raised because a connector was added.  The one that may stay is
\* a processor that waits for an event: it sees that _running is FALSE only after the next.
\* (stop, and the condition of each worker's loop)
StoppedWorkersEnd ==
  ~_running ~>
    \/ _running
    \/ \A kind \in Workers, g \in Generation :
         \/ tasks[<<kind, g>>] = Ended
         \/ kind = "processor" /\ tasks[<<kind, g>>] = Waiting /\ event_queue = <<>>

Inside(e) ==
  \/ e \in ToSet(event_queue)
  \/ e \in ToSet(event_buffer)
  \/ \E t \in Task : e \in InHand(t)

\* The integrator runs, and the workers of the last start() are there.  A stop() that was
\* still flushing at that start() cancels them while _running stays TRUE.
Served == _running /\ \A kind \in Workers : tasks[<<kind, started>>] # Ended

\* While the integrator runs, every accepted event is taken to the connectors and done with,
\* however few come after it and whatever the sends return.  (the interval of _batch_flusher
\* counts from the last flush of any task)
EveryEventIsFlushed ==
  \A e \in Event : Inside(e) ~> (~Inside(e) \/ ~Served)

\* While the integrator runs, every open circuit is closed again, also that of a connector
\* that stays connected and that of one behind another that never connects.
\* (_health_monitor)
OpenCircuitsAreRetried ==
  \A c \in Names : (c \in open_circuits) ~> (c \notin open_circuits \/ ~Served)
===============================================================================
