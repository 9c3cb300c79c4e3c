------------------------- MODULE SiemIntegratorProofs -------------------------
(***************************************************************************)
(* The safety of SiemIntegrator.  The invariant has two parts: types, with *)
(* what each task may wait for and which tasks a stop() may cancel; and    *)
(* where the events are.                                                   *)
(***************************************************************************)
EXTENDS SiemIntegrator, TLAPS, WellFoundedInduction

-------------------------------------------------------------------------------
(* Positions and sequences *)

\* A set of positions that is not empty has a first one.
LEMMA FirstIsLeast ==
  ASSUME NEW positions \in SUBSET Nat, positions # {}
  PROVE  /\ First(positions) \in positions
         /\ \A j \in positions : First(positions) <= j
<1> DEFINE Less == {p \in Nat \X Nat : p[1] < p[2]}
<1>1. IsWellFoundedOn(Less, Nat)
  BY NatLessThanWellFounded DEF OpToRel
<1>2. PICK i \in positions : \A j \in positions : <<j, i>> \notin Less
  <2> HIDE DEF Less
  <2> QED
    BY <1>1, WFMin, Zenon
<1>3. ASSUME NEW j \in positions
      PROVE  i <= j
  <2>1. <<j, i>> \in Nat \X Nat /\ i \in Nat /\ j \in Nat
    OBVIOUS
  <2>2. ~(j < i)
    BY <1>2, <2>1
  <2> QED
    BY <2>1, <2>2
<1> QED
  BY <1>3 DEF First

LEMMA AppendedSet ==
  ASSUME NEW S, NEW s \in Seq(S), NEW e \in S
  PROVE  ToSet(Append(s, e)) = ToSet(s) \cup {e}
<1>1. Append(s, e) \in Seq(S) /\ Len(Append(s, e)) = Len(s) + 1
  OBVIOUS
<1>2. \A i \in 1..Len(s) : Append(s, e)[i] = s[i]
  OBVIOUS
<1>3. Append(s, e)[Len(s) + 1] = e
  OBVIOUS
<1>4. 1..(Len(s) + 1) = (1..Len(s)) \cup {Len(s) + 1}
  OBVIOUS
<1> QED
  BY <1>1, <1>2, <1>3, <1>4 DEF ToSet

\* No element occurs twice.
Distinct(s) == \A i, j \in 1..Len(s) : s[i] = s[j] => i = j

LEMMA TailSet ==
  ASSUME NEW S, NEW s \in Seq(S), s # <<>>, Distinct(s)
  PROVE  /\ Head(s) \in ToSet(s)
         /\ ToSet(Tail(s)) = ToSet(s) \ {Head(s)}
         /\ Distinct(Tail(s))
<1>1. Len(s) \in Nat /\ Len(s) >= 1 /\ Head(s) = s[1]
  OBVIOUS
<1>2. Len(Tail(s)) = Len(s) - 1 /\ \A i \in 1..(Len(s) - 1) : Tail(s)[i] = s[i + 1]
  OBVIOUS
<1>3. Head(s) \in ToSet(s)
  BY <1>1 DEF ToSet
<1>4. Distinct(Tail(s))
  <2> SUFFICES ASSUME NEW i \in 1..(Len(s) - 1), NEW j \in 1..(Len(s) - 1), s[i + 1] = s[j + 1]
               PROVE  i = j
    BY <1>2 DEF Distinct
  <2>1. i + 1 \in 1..Len(s) /\ j + 1 \in 1..Len(s)
    BY <1>1
  <2> QED
    BY <2>1 DEF Distinct
<1>5. ASSUME NEW e \in ToSet(Tail(s))
      PROVE  e \in ToSet(s) \ {Head(s)}
  <2>1. PICK i \in 1..(Len(s) - 1) : e = s[i + 1]
    BY <1>2 DEF ToSet
  <2>2. i + 1 \in 1..Len(s) /\ i + 1 # 1 /\ 1 \in 1..Len(s)
    BY <1>1
  <2> QED
    BY <1>1, <2>1, <2>2 DEF ToSet, Distinct
<1>6. ASSUME NEW e \in ToSet(s), e # Head(s)
      PROVE  e \in ToSet(Tail(s))
  <2>1. PICK i \in 1..Len(s) : e = s[i]
    BY DEF ToSet
  <2>2. i # 1
    BY <1>1, <1>6, <2>1
  <2>3. i - 1 \in 1..(Len(s) - 1) /\ (i - 1) + 1 = i
    BY <1>1, <2>2
  <2>4. Tail(s)[i - 1] = e
    BY <1>2, <2>1, <2>3
  <2> QED
    BY <1>2, <2>3, <2>4 DEF ToSet
<1> QED
  BY <1>3, <1>4, <1>5, <1>6

LEMMA DistinctAppend ==
  ASSUME NEW S, NEW s \in Seq(S), NEW e \in S, Distinct(s), e \notin ToSet(s)
  PROVE  Distinct(Append(s, e))
<1>1. Len(Append(s, e)) = Len(s) + 1 /\ Len(s) \in Nat
  OBVIOUS
<1>2. \A i \in 1..Len(s) : Append(s, e)[i] = s[i] /\ s[i] # e
  BY DEF ToSet
<1>3. Append(s, e)[Len(s) + 1] = e
  OBVIOUS
<1>4. \A i \in 1..(Len(s) + 1) : i \in 1..Len(s) \/ i = Len(s) + 1
  BY <1>1
<1> QED
  BY <1>1, <1>2, <1>3, <1>4 DEF Distinct

-------------------------------------------------------------------------------
(* Types *)

Doing == {"ended", "waiting", "sending", "connecting", "cancelling", "disconnecting"}

TaskState == [doing : Doing, batch : Seq(Event), pos : Nat, size : Nat, of : Nat]

\* What a task may be in when the dictionary has n connectors.
Fits(s, n) ==
  /\ s \in TaskState
  /\ s.pos <= n
  /\ s.size <= n
  /\ s.doing \in {"sending", "connecting", "disconnecting"} => s.pos > 0
  /\ s.of <= started
  /\ s.doing = "cancelling" => s.of > 0
  /\ s.doing # "ended" => started > 0

TasksFit ==
  /\ tasks \in [Task -> TaskState]
  /\ \A t \in Task : Fits(tasks[t], Len(connectors))

TypeInv == TypeOK /\ TasksFit /\ (_running => started > 0)

LEMMA EndedFits ==
  ASSUME NEW n \in Nat, started \in Nat
  PROVE  Fits(Ended, n) /\ Ended.batch = <<>> /\ Ended.doing = "ended"
  BY DEF Ended, At, Fits, TaskState, Doing

LEMMA WaitingFits ==
  ASSUME NEW n \in Nat, started \in Nat \ {0}
  PROVE  Fits(Waiting, n) /\ Waiting.batch = <<>> /\ Waiting.doing = "waiting"
  BY DEF Waiting, At, Fits, TaskState, Doing

LEMMA CancellingFits ==
  ASSUME NEW n \in Nat, started \in Nat \ {0}
  PROVE  Fits(Cancelling, n) /\ Cancelling.batch = <<>> /\ Cancelling.doing = "cancelling"
<1>1. Cancelling = [doing |-> "cancelling", batch |-> <<>>, pos |-> 0, size |-> 0, of |-> started]
  BY DEF Cancelling, At
<1> QED
  BY <1>1 DEF Fits, TaskState, Doing

\* A step that moves one task to such a state, and loses no connector.
LEMMA TasksMove ==
  ASSUME TypeInv, NEW t \in Task, NEW s, Fits(s, Len(connectors)),
         tasks' = [tasks EXCEPT ![t] = s], connectors' = connectors, started' = started
  PROVE  TasksFit'
  BY DEF TypeInv, TasksFit, Fits

\* The names of the tasks.
LEMMA Tasks ==
  ASSUME NEW g \in Generation
  PROVE  /\ \A kind \in Workers : <<kind, g>> \in Task
         /\ {<<"processor", g>>, <<"flusher", g>>, <<"monitor", g>>, <<"stop", g>>} \subseteq Task
  BY DEF Task, Workers

LEMMA Generations ==
  ASSUME TypeInv
  PROVE  /\ started \in Nat
         /\ \A g \in Nat : g > 0 /\ g <= started => g \in Generation
  BY SiemAssumption DEF TypeInv, TypeOK, Generation

LEMMA SizeOfConnectors ==
  ASSUME TypeInv
  PROVE  /\ Len(connectors) \in Nat
         /\ \A i \in 1..Len(connectors) : connectors[i] \in Names
  BY DEF TypeInv, TypeOK

LEMMA NextRoundFits ==
  ASSUME TypeInv
  PROVE  Fits(NextRound, Len(connectors)) /\ NextRound.batch = <<>> /\ NextRound.doing \in {"waiting", "ended"}
<1>1. started \in Nat /\ Len(connectors) \in Nat /\ (_running => started \in Nat \ {0})
  BY SizeOfConnectors, Generations DEF TypeInv
<1>2. CASE _running
  BY <1>1, <1>2, WaitingFits DEF NextRound
<1>3. CASE ~_running
  BY <1>1, <1>3, EndedFits DEF NextRound
<1> QED
  BY <1>2, <1>3

\* What the breaker and a send change keeps its types.
BreakersTyped ==
  /\ failure_counts \in [Names -> 0..failure_threshold]
  /\ open_circuits \subseteq Names
  /\ cooling \subseteq open_circuits

ConnectorsTyped ==
  /\ status \in [Names -> SIEMStatus]
  /\ connection_failures \in [Names -> 0..max_connection_failures]
  /\ sessions \subseteq Names

LEMMA RecordTyped ==
  ASSUME TypeOK, NEW failed \in SUBSET Names, record_failures(failed)
  PROVE  BreakersTyped'
<1>1. failure_threshold \in Nat
  BY SiemAssumption
<1>2. failure_counts' \in [Names -> 0..failure_threshold]
  BY <1>1 DEF TypeOK, record_failures
<1>3. open_circuits' \subseteq Names /\ cooling' \subseteq open_circuits'
  BY DEF TypeOK, record_failures
<1> QED
  BY <1>2, <1>3 DEF BreakersTyped

LEMMA ResetTyped ==
  ASSUME TypeOK, NEW closed, Reset(closed)
  PROVE  BreakersTyped'
<1>1. failure_threshold \in Nat
  BY SiemAssumption
<1> QED
  BY <1>1 DEF TypeOK, Reset, BreakersTyped

LEMMA SendTyped ==
  ASSUME TypeOK, NEW c \in Names, UNCHANGED siemVars \/ SendRaises(c)
  PROVE  ConnectorsTyped'
<1>1. CASE UNCHANGED siemVars
  BY <1>1 DEF siemVars, TypeOK, ConnectorsTyped
<1>2. CASE SendRaises(c)
  <2>1. max_connection_failures \in Nat
    BY SiemAssumption
  <2>2. connection_failures' \in [Names -> 0..max_connection_failures]
    BY <1>2, <2>1 DEF SendRaises, TypeOK
  <2>3. status' \in [Names -> SIEMStatus] /\ sessions' \subseteq Names
    BY <1>2 DEF SendRaises, TypeOK, SIEMStatus
  <2> QED
    BY <2>2, <2>3 DEF ConnectorsTyped
<1> QED
  BY <1>1, <1>2

\* A flush goes on to the next send with what it has in hand, or is over.
LEMMA FlushStep ==
  ASSUME TypeInv, NEW t \in Task, started > 0, NEW batch \in Seq(Event), NEW i \in Nat \ {0},
         NEW size \in 0..Len(connectors), NEW failed \in SUBSET Names,
         FlushFrom(t, batch, i, size, failed)
  PROVE  /\ BreakersTyped'
         /\ recent' \in BOOLEAN
         /\ \E s : /\ Fits(s, Len(connectors))
                   /\ tasks' = [tasks EXCEPT ![t] = s]
                   /\ s.batch \in {<<>>, batch}
<1> DEFINE ready == {j \in i..Len(connectors) : CanSend(connectors[j]) /\ connectors[j] \in sessions}
           passed == i..(IF ready = {} THEN Len(connectors) ELSE First(ready) - 1)
           lost == {connectors[j] : j \in {n \in passed : CanSend(connectors[n])}}
<1>0. record_failures(failed \cup lost)
  BY DEF FlushFrom
<1>1. started \in Nat \ {0} /\ Len(connectors) \in Nat
  BY SizeOfConnectors, Generations
<1>2. ready # {} => First(ready) \in i..Len(connectors)
  <2>1. ready \in SUBSET Nat
    BY SizeOfConnectors
  <2>2. ASSUME ready # {}
        PROVE  First(ready) \in ready
    <3> HIDE DEF ready
    <3> QED
      BY <2>1, <2>2, FirstIsLeast
  <2> QED
    BY <2>2
<1>3. lost \subseteq Names
  <2>1. passed \subseteq 1..Len(connectors)
    <3> HIDE DEF ready
    <3>1. CASE ready = {}
      BY <1>1, <3>1
    <3>2. CASE ready # {}
      BY <1>1, <1>2, <3>2
    <3> QED
      BY <3>1, <3>2
  <2> HIDE DEF passed
  <2> QED
    BY <2>1, SizeOfConnectors
<1>4. BreakersTyped'
  <2>1. failed \cup lost \in SUBSET Names
    BY <1>3
  <2> HIDE DEF lost
  <2> QED
    BY <1>0, <2>1, RecordTyped DEF TypeInv
<1>5. CASE ready = {}
  <2>1. tasks' = [tasks EXCEPT ![t] = AfterFlush(t)] /\ recent' = TRUE
    BY <1>5 DEF FlushFrom, Continue
  <2>2. Fits(AfterFlush(t), Len(connectors)) /\ AfterFlush(t).batch = <<>>
    <3>1. CASE t[1] = "stop"
      BY <1>1, <3>1, CancellingFits DEF AfterFlush
    <3>2. CASE t[1] # "stop"
      BY <3>2, NextRoundFits DEF AfterFlush
    <3> QED
      BY <3>1, <3>2
  <2> QED
    BY <1>4, <2>1, <2>2
<1>6. CASE ready # {}
  <2> DEFINE s == [doing |-> "sending", batch |-> batch, pos |-> First(ready), size |-> size, of |-> 0]
  <2>1. tasks' = [tasks EXCEPT ![t] = s] /\ recent' = recent
    BY <1>6 DEF FlushFrom, Pause
  <2>2. First(ready) \in i..Len(connectors)
    BY <1>2, <1>6
  <2> HIDE DEF ready
  <2>3. Fits(s, Len(connectors)) /\ s.batch = batch
    BY <1>1, <2>2 DEF Fits, TaskState, Doing
  <2>4. recent' \in BOOLEAN
    BY <2>1 DEF TypeInv, TypeOK
  <2> HIDE DEF s
  <2> QED
    BY <1>4, <2>1, <2>3, <2>4
<1> QED
  BY <1>5, <1>6

\* The monitor goes on to the next connection or is done.
LEMMA MonitorMoves ==
  ASSUME TypeInv, NEW t \in Task, started > 0, NEW i \in Nat \ {0}, NEW size \in 0..Len(connectors),
         NEW closed, NEW statusNow \in [Names -> SIEMStatus],
         MonitorFrom(t, i, size, closed, statusNow)
  PROVE  /\ BreakersTyped'
         /\ status' \in [Names -> SIEMStatus]
         /\ sessions' \subseteq Names
         /\ \E s : /\ Fits(s, Len(connectors))
                   /\ tasks' = [tasks EXCEPT ![t] = s]
                   /\ s.batch = <<>>
<1> DEFINE down == {j \in i..Len(connectors) : statusNow[connectors[j]] # "CONNECTED"}
<1>1. BreakersTyped'
  BY ResetTyped DEF MonitorFrom, TypeInv
<1>2. CASE down = {}
  <2>1. status' = statusNow /\ sessions' = sessions /\ tasks' = [tasks EXCEPT ![t] = NextRound]
    BY <1>2 DEF MonitorFrom, Continue
  <2> QED
    BY <1>1, <2>1, NextRoundFits DEF TypeInv, TypeOK
<1>3. CASE down # {}
  <2> DEFINE s == [doing |-> "connecting", batch |-> <<>>, pos |-> First(down), size |-> size, of |-> 0]
  <2>1. tasks' = [tasks EXCEPT ![t] = s]
    BY <1>3 DEF MonitorFrom, Pause
  <2>2. /\ status' = [statusNow EXCEPT ![connectors[First(down)]] = "CONNECTING"]
        /\ sessions' = sessions \cup {connectors[First(down)]}
    BY <1>3 DEF MonitorFrom
  <2>3. First(down) \in i..Len(connectors)
    <3>1. down \in SUBSET Nat
      BY SizeOfConnectors
    <3>2. First(down) \in down
      <4> HIDE DEF down
      <4> QED
        BY <1>3, <3>1, FirstIsLeast
    <3> QED
      BY <3>2
  <2> HIDE DEF down
  <2>4. Fits(s, Len(connectors)) /\ s.batch = <<>>
    BY <2>3, SizeOfConnectors, Generations DEF Fits, TaskState, Doing
  <2>5. connectors[First(down)] \in Names
    BY <2>3, SizeOfConnectors
  <2>6. status' \in [Names -> SIEMStatus] /\ sessions' \subseteq Names
    BY <2>2, <2>5 DEF SIEMStatus, TypeInv, TypeOK
  <2> HIDE DEF s
  <2> QED
    BY <1>1, <2>1, <2>4, <2>6
<1> QED
  BY <1>2, <1>3

\* stop() goes on to the next connector that has a session or is done.
LEMMA DisconnectMoves ==
  ASSUME TypeInv, NEW t \in Task, started > 0, NEW i \in Nat \ {0}, NEW size \in 0..Len(connectors),
         NEW statusNow \in [Names -> SIEMStatus], NEW sessionsNow \in SUBSET Names,
         DisconnectFrom(t, i, size, statusNow, sessionsNow)
  PROVE  /\ status' \in [Names -> SIEMStatus]
         /\ sessions' \subseteq Names
         /\ \E s : /\ Fits(s, Len(connectors))
                   /\ tasks' = [tasks EXCEPT ![t] = s]
                   /\ s.batch = <<>>
<1> DEFINE up == {j \in i..Len(connectors) : connectors[j] \in sessionsNow}
<1>1. sessions' \subseteq Names
  BY DEF DisconnectFrom
<1>2. status' \in [Names -> SIEMStatus]
  BY DEF DisconnectFrom, SIEMStatus
<1>3. CASE up = {}
  <2>1. tasks' = [tasks EXCEPT ![t] = Ended]
    BY <1>3 DEF DisconnectFrom, Continue
  <2> QED
    BY <1>1, <1>2, <2>1, EndedFits, SizeOfConnectors, Generations
<1>4. CASE up # {}
  <2> DEFINE s == [doing |-> "disconnecting", batch |-> <<>>, pos |-> First(up), size |-> size, of |-> 0]
  <2>1. tasks' = [tasks EXCEPT ![t] = s]
    BY <1>4 DEF DisconnectFrom, Pause
  <2>2. First(up) \in i..Len(connectors)
    <3>1. up \in SUBSET Nat
      BY SizeOfConnectors
    <3>2. First(up) \in up
      <4> HIDE DEF up
      <4> QED
        BY <1>4, <3>1, FirstIsLeast
    <3> QED
      BY <3>2
  <2> HIDE DEF up
  <2>3. Fits(s, Len(connectors)) /\ s.batch = <<>>
    BY <2>2, SizeOfConnectors, Generations DEF Fits, TaskState, Doing
  <2> HIDE DEF s
  <2> QED
    BY <1>1, <1>2, <2>1, <2>3
<1> QED
  BY <1>3, <1>4

EventsTyped ==
  /\ event_queue \in Seq(Event)
  /\ Len(event_queue) <= max_queue
  /\ event_buffer \in Seq(Event)
  /\ Len(event_buffer) < batch_size
  /\ accepted \in 0..MaxEvents
  /\ sent \subseteq Event

OwnTyped ==
  /\ connectors \in Seq(Names)
  /\ recent \in BOOLEAN
  /\ _running \in BOOLEAN
  /\ started \in 0..MaxStarts
  /\ _running => started > 0

LEMMA TypeParts ==
  TypeInv <=> ConnectorsTyped /\ BreakersTyped /\ EventsTyped /\ OwnTyped /\ TasksFit
<1>1. ASSUME OwnTyped, TasksFit
      PROVE  \A t \in Task :
               /\ tasks[t].doing \in Doing
               /\ tasks[t].batch \in Seq(Event)
               /\ tasks[t].pos \in 0..Len(connectors)
               /\ tasks[t].size \in 0..Len(connectors)
               /\ tasks[t].of \in 0..started
  <2>1. started \in Nat /\ Len(connectors) \in Nat
    BY <1>1, SiemAssumption DEF OwnTyped
  <2> QED
    BY <1>1, <2>1 DEF TasksFit, Fits, TaskState
<1> QED
  BY <1>1 DEF TypeInv, TypeOK, ConnectorsTyped, BreakersTyped, EventsTyped, OwnTyped, Doing

LEMMA TypePartsNext ==
  (ConnectorsTyped /\ BreakersTyped /\ EventsTyped /\ OwnTyped /\ TasksFit)' => TypeInv'
<1>1. ASSUME OwnTyped', TasksFit'
      PROVE  \A t \in Task :
               /\ tasks'[t].doing \in Doing
               /\ tasks'[t].batch \in Seq(Event)
               /\ tasks'[t].pos \in 0..Len(connectors')
               /\ tasks'[t].size \in 0..Len(connectors')
               /\ tasks'[t].of \in 0..started'
  <2>1. started' \in Nat /\ Len(connectors') \in Nat
    BY <1>1, SiemAssumption DEF OwnTyped
  <2> QED
    BY <1>1, <2>1 DEF TasksFit, Fits, TaskState
<1> QED
  BY <1>1 DEF TypeInv, TypeOK, ConnectorsTyped, BreakersTyped, EventsTyped, OwnTyped, Doing

\* A task that is not over was made by a start().
LEMMA BusyWasStarted ==
  ASSUME TypeInv, NEW t \in Task, tasks[t].doing # "ended"
  PROVE  started > 0
BY DEF TypeInv, TasksFit, Fits

LEMMA WaitingIsBusy == Waiting.doing # "ended"
BY DEF Waiting, At

\* A flush begins with a batch that is not too long, and leaves an empty buffer.
LEMMA FlushBegins ==
  ASSUME TypeInv, NEW t \in Task, started > 0, NEW buffer \in Seq(Event), Flush(t, buffer)
  PROVE  /\ event_buffer' = <<>>
         /\ recent' \in BOOLEAN
         /\ BreakersTyped'
         /\ \E s : /\ Fits(s, Len(connectors))
                   /\ tasks' = [tasks EXCEPT ![t] = s]
                   /\ s.batch \in {<<>>, buffer}
<1>1. Len(connectors) \in 0..Len(connectors) /\ 1 \in Nat \ {0} /\ {} \in SUBSET Names
  BY SizeOfConnectors
<1>2. FlushFrom(t, buffer, 1, Len(connectors), {}) /\ event_buffer' = <<>>
  BY DEF Flush
<1> QED
  BY <1>1, <1>2, FlushStep

\* A send returns to a task that takes it from there, with the same batch or none.
LEMMA SendFinishes ==
  ASSUME TypeInv, NEW t \in Task, FinishSend(t)
  PROVE  /\ ConnectorsTyped' /\ BreakersTyped'
         /\ recent' \in BOOLEAN
         /\ \E s : /\ Fits(s, Len(connectors))
                   /\ tasks' = [tasks EXCEPT ![t] = s]
                   /\ s.batch \in {<<>>, tasks[t].batch}
<1> DEFINE c == connectors[tasks[t].pos]
<1>1. /\ tasks[t] \in TaskState /\ tasks[t].pos \in Nat \ {0} /\ tasks[t].pos \in 1..Len(connectors)
      /\ tasks[t].size \in 0..Len(connectors) /\ tasks[t].batch \in Seq(Event)
  BY SizeOfConnectors DEF FinishSend, TypeInv, TasksFit, Fits, TaskState
<1>2. c \in Names
  BY <1>1, SizeOfConnectors
<1>3. started > 0
  BY BusyWasStarted DEF FinishSend
<1>4. PICK failed \in SUBSET {c} :
        /\ \/ UNCHANGED siemVars
           \/ failed = {c} /\ SendRaises(c)
        /\ IF Grown(t)
           THEN /\ record_failures(failed)
                /\ Continue(t, IF t[1] = "stop" THEN Ended ELSE NextRound)
                /\ UNCHANGED recent
           ELSE FlushFrom(t, tasks[t].batch, tasks[t].pos + 1, tasks[t].size, failed)
  BY DEF FinishSend
<1> HIDE DEF c
<1>5. failed \in SUBSET Names
  BY <1>2
<1>6. ConnectorsTyped'
  BY <1>2, <1>4, SendTyped DEF TypeInv
<1>7. CASE Grown(t)
  <2> DEFINE s == IF t[1] = "stop" THEN Ended ELSE NextRound
  <2>1. tasks' = [tasks EXCEPT ![t] = s] /\ recent' = recent /\ record_failures(failed)
    BY <1>4, <1>7 DEF Continue
  <2>2. Fits(Ended, Len(connectors)) /\ Ended.batch = <<>>
    BY SizeOfConnectors, Generations, EndedFits
  <2>3. Fits(s, Len(connectors)) /\ s.batch = <<>>
    BY <2>2, NextRoundFits
  <2>4. recent' \in BOOLEAN /\ BreakersTyped'
    BY <1>5, <2>1, RecordTyped DEF TypeInv, TypeOK
  <2> HIDE DEF s
  <2> QED
    BY <1>6, <2>1, <2>3, <2>4
<1>8. CASE ~Grown(t)
  <2>1. FlushFrom(t, tasks[t].batch, tasks[t].pos + 1, tasks[t].size, failed)
    BY <1>4, <1>8
  <2>2. tasks[t].pos + 1 \in Nat \ {0}
    BY <1>1
  <2> QED
    BY <1>1, <1>3, <1>5, <1>6, <2>1, <2>2, FlushStep
<1> QED
  BY <1>7, <1>8

LEMMA Sizes ==
  /\ batch_size \in Nat \ {0} /\ max_queue \in Nat \ {0} /\ MaxEvents \in Nat
BY SiemAssumption

LEMMA TypeInvariant ==
  ASSUME TypeInv, [Next]_vars
  PROVE  TypeInv'
<1> USE DEF siemVars, breakerVars, eventVars, runVars, vars
<1>p. /\ ConnectorsTyped /\ BreakersTyped /\ EventsTyped /\ OwnTyped /\ TasksFit
      /\ started \in Nat /\ Len(connectors) \in Nat
  BY TypeParts, SizeOfConnectors, Generations
<1>1. CASE SendSecurityEvent
  <2>1. accepted + 1 \in Event /\ accepted + 1 \in 0..MaxEvents
    BY <1>1, <1>p, Sizes DEF SendSecurityEvent, EventsTyped, Event
  <2>2. /\ event_queue' \in Seq(Event) /\ Len(event_queue') <= max_queue
        /\ accepted' = accepted + 1
    BY <1>1, <1>p, <2>1, Sizes DEF SendSecurityEvent, EventsTyped
  <2> QED
    BY <1>1, <1>p, <2>1, <2>2, TypePartsNext
       DEF SendSecurityEvent, ConnectorsTyped, BreakersTyped, EventsTyped, OwnTyped, TasksFit, Fits
<1>2. ASSUME NEW g \in Generation, EventProcessor(g)
      PROVE  TypeInv'
  <2> DEFINE t == <<"processor", g>>
             buffer == Append(event_buffer, Head(event_queue))
  <2>1. /\ Head(event_queue) \in Event /\ event_queue' \in Seq(Event) /\ Len(event_queue') <= max_queue
        /\ buffer \in Seq(Event)
    BY <1>2, <1>p, Sizes DEF EventProcessor, EventsTyped
  <2>2. t \in Task /\ connectors' = connectors /\ started' = started /\ _running' = _running
    BY <1>2, Tasks DEF EventProcessor
  <2>3. started > 0
    BY <1>2, <2>2, BusyWasStarted, WaitingIsBusy DEF EventProcessor
  <2>4. /\ TasksFit' /\ recent' \in BOOLEAN /\ event_buffer' \in Seq(Event) /\ Len(event_buffer') < batch_size
        /\ BreakersTyped'
    <3>1. CASE BatchIsFull(buffer)
      <4>1. Flush(t, buffer)
        BY <1>2, <3>1 DEF EventProcessor
      <4> HIDE DEF buffer, t
      <4>2. TasksFit' /\ recent' \in BOOLEAN /\ event_buffer' = <<>> /\ BreakersTyped'
        BY <2>1, <2>2, <2>3, <4>1, FlushBegins, TasksMove
      <4> QED
        BY <4>2, Sizes
    <3>2. CASE ~BatchIsFull(buffer)
      <4>1. /\ tasks' = [tasks EXCEPT ![t] = NextRound] /\ event_buffer' = buffer
            /\ recent' = recent /\ BreakersTyped'
        BY <1>2, <1>p, <3>2 DEF EventProcessor, Continue, BreakersTyped
      <4>2. Len(buffer) < batch_size
        BY <2>1, <3>2, Sizes DEF BatchIsFull
      <4> HIDE DEF buffer, t
      <4>3. TasksFit'
        BY <2>2, <4>1, NextRoundFits, TasksMove
      <4> QED
        BY <1>p, <2>1, <4>1, <4>2, <4>3 DEF OwnTyped
    <3> QED
      BY <3>1, <3>2
  <2> QED
    BY <1>2, <1>p, <2>1, <2>2, <2>4, TypePartsNext
       DEF EventProcessor, ConnectorsTyped, EventsTyped, OwnTyped
<1>3. ASSUME NEW g \in Generation, BatchFlusher(g)
      PROVE  TypeInv'
  <2> DEFINE t == <<"flusher", g>>
  <2>1. /\ t \in Task /\ connectors' = connectors /\ started' = started /\ _running' = _running
        /\ event_buffer \in Seq(Event)
    BY <1>3, <1>p, Tasks DEF BatchFlusher, EventsTyped
  <2>2. started > 0
    BY <1>3, <2>1, BusyWasStarted, WaitingIsBusy DEF BatchFlusher
  <2>3. /\ TasksFit' /\ recent' \in BOOLEAN /\ event_buffer' \in Seq(Event) /\ Len(event_buffer') < batch_size
        /\ BreakersTyped'
    <3>1. CASE TimeToFlush
      <4>1. Flush(t, event_buffer)
        BY <1>3, <3>1 DEF BatchFlusher
      <4> HIDE DEF t
      <4>2. TasksFit' /\ recent' \in BOOLEAN /\ event_buffer' = <<>> /\ BreakersTyped'
        BY <2>1, <2>2, <4>1, FlushBegins, TasksMove
      <4> QED
        BY <4>2, Sizes
    <3>2. CASE ~TimeToFlush
      <4>1. /\ tasks' = [tasks EXCEPT ![t] = NextRound] /\ event_buffer' = event_buffer
            /\ recent' = recent /\ BreakersTyped'
        BY <1>3, <1>p, <3>2 DEF BatchFlusher, Continue, BreakersTyped
      <4> HIDE DEF t
      <4>2. TasksFit'
        BY <2>1, <4>1, NextRoundFits, TasksMove
      <4> QED
        BY <1>p, <4>1, <4>2 DEF OwnTyped, EventsTyped
    <3> QED
      BY <3>1, <3>2
  <2> QED
    BY <1>3, <1>p, <2>1, <2>3, TypePartsNext
       DEF BatchFlusher, ConnectorsTyped, EventsTyped, OwnTyped
<1>4. ASSUME NEW t \in Task, FinishSend(t)
      PROVE  TypeInv'
  <2>1. connectors' = connectors /\ started' = started /\ _running' = _running
    BY <1>4 DEF FinishSend
  <2>2. TasksFit' /\ ConnectorsTyped' /\ BreakersTyped' /\ recent' \in BOOLEAN
    BY <1>4, <2>1, SendFinishes, TasksMove
  <2>3. sent' \subseteq Event
    <3>1. tasks[t].batch \in Seq(Event)
      BY <1>p DEF TasksFit, Fits, TaskState
    <3>2. ToSet(tasks[t].batch) \subseteq Event
      BY <3>1 DEF ToSet
    <3> QED
      BY <1>4, <1>p, <3>2 DEF FinishSend, EventsTyped
  <2> QED
    BY <1>4, <1>p, <2>1, <2>2, <2>3, TypePartsNext DEF FinishSend, EventsTyped, OwnTyped
<1>5. ASSUME NEW g \in Generation, HealthMonitor(g)
      PROVE  TypeInv'
  <2> DEFINE t == <<"monitor", g>>
  <2>1. /\ MonitorFrom(t, 1, Len(connectors), {}, status)
        /\ connectors' = connectors /\ started' = started /\ _running' = _running
        /\ tasks[t] = Waiting
    BY <1>5 DEF HealthMonitor
  <2>2. /\ 1 \in Nat \ {0} /\ Len(connectors) \in 0..Len(connectors) /\ t \in Task
        /\ status \in [Names -> SIEMStatus]
    <3>1. t \in Task
      BY Tasks
    <3> QED
      BY <1>p, <3>1 DEF ConnectorsTyped
  <2> HIDE DEF t
  <2>3. started > 0
    BY <2>1, <2>2, BusyWasStarted, WaitingIsBusy
  <2>4. BreakersTyped' /\ status' \in [Names -> SIEMStatus] /\ sessions' \subseteq Names /\ TasksFit'
    BY <2>1, <2>2, <2>3, MonitorMoves, TasksMove
  <2> QED
    BY <1>5, <1>p, <2>1, <2>4, TypePartsNext DEF HealthMonitor, ConnectorsTyped, EventsTyped, OwnTyped
<1>6. ASSUME NEW g \in Generation, NEW result \in {"CONNECTED", "ERROR"}, MonitorConnects(g, result)
      PROVE  TypeInv'
  <2> DEFINE t == <<"monitor", g>>
             c == connectors[tasks[t].pos]
             closed == IF result = "CONNECTED" THEN {c} ELSE {n \in {c} : can_attempt(n)}
             statusNow == [status EXCEPT ![c] = result]
  <2>1. /\ statusNow \in [Names -> SIEMStatus] /\ connectors' = connectors /\ t \in Task
        /\ started' = started /\ _running' = _running
    BY <1>6, <1>p, Tasks DEF MonitorConnects, ConnectorsTyped, SIEMStatus
  <2>2. tasks[t].doing = "connecting" /\ started > 0
    BY <1>6, <2>1, BusyWasStarted DEF MonitorConnects
  <2>3. BreakersTyped' /\ status' \in [Names -> SIEMStatus] /\ sessions' \subseteq Names /\ TasksFit'
    <3>1. CASE Grown(t)
      <4>1. /\ Reset(closed) /\ tasks' = [tasks EXCEPT ![t] = NextRound] /\ status' = statusNow
            /\ sessions' = sessions
        BY <1>6, <3>1 DEF MonitorConnects, Continue
      <4> HIDE DEF t, closed, statusNow
      <4>2. BreakersTyped'
        BY <4>1, ResetTyped DEF TypeInv
      <4>3. TasksFit'
        BY <2>1, <4>1, NextRoundFits, TasksMove
      <4> QED
        BY <1>p, <2>1, <4>1, <4>2, <4>3 DEF ConnectorsTyped
    <3>2. CASE ~Grown(t)
      <4>1. MonitorFrom(t, tasks[t].pos + 1, tasks[t].size, closed, statusNow)
        BY <1>6, <3>2 DEF MonitorConnects
      <4> HIDE DEF t
      <4>2. tasks[t].pos + 1 \in Nat \ {0} /\ tasks[t].size \in 0..Len(connectors)
        BY <2>1, <1>p DEF TasksFit, Fits, TaskState
      <4> HIDE DEF closed, statusNow
      <4> QED
        BY <2>1, <2>2, <4>1, <4>2, MonitorMoves, TasksMove
    <3> QED
      BY <3>1, <3>2
  <2>4. connection_failures' \in [Names -> 0..max_connection_failures]
    <3>1. max_connection_failures \in Nat
      BY SiemAssumption
    <3>2. connection_failures' = [connection_failures EXCEPT ![c] = IF result = "CONNECTED" THEN 0 ELSE @]
      BY <1>6 DEF MonitorConnects
    <3> HIDE DEF t, c, closed, statusNow
    <3>3. connection_failures \in [Names -> 0..max_connection_failures]
      BY <1>p DEF ConnectorsTyped
    <3>4. PICK value : connection_failures' = [connection_failures EXCEPT ![c] = value]
                       /\ value \in {0, connection_failures[c]}
      BY <3>2
    <3>5. c \in Names => value \in 0..max_connection_failures
      BY <3>1, <3>3, <3>4
    <3> QED
      BY <3>3, <3>4, <3>5
  <2>5. UNCHANGED <<connectors, eventVars, recent, runVars, sent>>
    BY <1>6 DEF MonitorConnects
  <2> HIDE DEF t, c, closed, statusNow
  <2> QED
    BY <1>p, <2>3, <2>4, <2>5, TypePartsNext DEF ConnectorsTyped, EventsTyped, OwnTyped
<1>7. ASSUME NEW g \in Generation, NEW kind \in Workers, CancelTask(g, kind)
      PROVE  TypeInv'
  <2> DEFINE of == tasks[<<"stop", g>>].of
  <2>1. /\ tasks[<<"stop", g>>].doing = "cancelling" /\ tasks' = [tasks EXCEPT ![<<kind, of>>] = Ended]
        /\ connectors' = connectors /\ started' = started
    BY <1>7 DEF CancelTask, Continue
  <2>2. of \in Nat /\ of > 0 /\ of <= started
    <3>1. <<"stop", g>> \in Task
      BY Tasks
    <3> QED
      BY <1>p, <2>1, <3>1 DEF TasksFit, Fits, TaskState
  <2>3. <<kind, of>> \in Task
    <3>1. of \in Generation
      BY <2>2, Generations
    <3> QED
      BY <3>1, Tasks
  <2>4. Fits(Ended, Len(connectors))
    BY <1>p, EndedFits
  <2>5. TasksFit'
    BY <2>1, <2>3, <2>4, TasksMove
  <2> QED
    BY <1>7, <1>p, <2>5, TypePartsNext
       DEF CancelTask, ConnectorsTyped, BreakersTyped, EventsTyped, OwnTyped
<1>8. ASSUME status' \in [Names -> SIEMStatus], sessions' \subseteq Names, TasksFit',
             UNCHANGED <<connectors, connection_failures, breakerVars, eventVars, recent, runVars, sent>>
      PROVE  TypeInv'
  BY <1>8, <1>p, TypePartsNext DEF ConnectorsTyped, BreakersTyped, EventsTyped, OwnTyped
<1>9. ASSUME NEW g \in Generation, DisconnectAll(g)
      PROVE  TypeInv'
  <2> DEFINE t == <<"stop", g>>
  <2>1. /\ DisconnectFrom(t, 1, Len(connectors), status, sessions) /\ tasks[t].doing = "cancelling"
        /\ UNCHANGED <<connectors, connection_failures, breakerVars, eventVars, recent, runVars, sent>>
    BY <1>9 DEF DisconnectAll
  <2>2. /\ 1 \in Nat \ {0} /\ Len(connectors) \in 0..Len(connectors) /\ status \in [Names -> SIEMStatus]
        /\ sessions \in SUBSET Names /\ t \in Task
    <3>1. t \in Task
      BY Tasks
    <3> QED
      BY <1>p, <3>1 DEF ConnectorsTyped
  <2> HIDE DEF t
  <2>3. started > 0
    BY <2>1, <2>2, BusyWasStarted
  <2>4. status' \in [Names -> SIEMStatus] /\ sessions' \subseteq Names /\ TasksFit'
    BY <2>1, <2>2, <2>3, DisconnectMoves, TasksMove
  <2> QED
    BY <1>8, <2>1, <2>4
<1>10. ASSUME NEW g \in Generation, Disconnect(g)
       PROVE  TypeInv'
  <2> DEFINE t == <<"stop", g>>
             c == connectors[tasks[t].pos]
             statusNow == [status EXCEPT ![c] = "DISCONNECTED"]
             sessionsNow == sessions \ {c}
  <2>1. /\ tasks[t].doing = "disconnecting"
        /\ UNCHANGED <<connectors, connection_failures, breakerVars, eventVars, recent, runVars, sent>>
    BY <1>10 DEF Disconnect
  <2>2. t \in Task /\ statusNow \in [Names -> SIEMStatus] /\ sessionsNow \in SUBSET Names
    BY <1>p, Tasks DEF ConnectorsTyped, SIEMStatus
  <2>3. started > 0
    BY <2>1, <2>2, BusyWasStarted
  <2>4. status' \in [Names -> SIEMStatus] /\ sessions' \subseteq Names /\ TasksFit'
    <3>1. CASE Grown(t)
      <4>1. tasks' = [tasks EXCEPT ![t] = Ended] /\ status' = statusNow /\ sessions' = sessionsNow
        BY <1>10, <3>1 DEF Disconnect, Continue
      <4> HIDE DEF t, statusNow, sessionsNow
      <4>2. TasksFit'
        BY <1>p, <2>1, <2>2, <4>1, EndedFits, TasksMove
      <4> QED
        BY <2>2, <4>1, <4>2
    <3>2. CASE ~Grown(t)
      <4>1. DisconnectFrom(t, tasks[t].pos + 1, tasks[t].size, statusNow, sessionsNow)
        BY <1>10, <3>2 DEF Disconnect
      <4> HIDE DEF t
      <4>2. tasks[t].pos + 1 \in Nat \ {0} /\ tasks[t].size \in 0..Len(connectors)
        BY <2>2, <1>p DEF TasksFit, Fits, TaskState
      <4> HIDE DEF statusNow, sessionsNow
      <4> QED
        BY <2>1, <2>2, <2>3, <4>1, <4>2, DisconnectMoves, TasksMove
    <3> QED
      BY <3>1, <3>2
  <2> HIDE DEF t
  <2> QED
    BY <1>8, <2>1, <2>4
<1>11. ASSUME NEW c \in Names, RecoveryTimeout(c)
       PROVE  TypeInv'
  BY <1>11, <1>p, TypePartsNext
     DEF RecoveryTimeout, ConnectorsTyped, BreakersTyped, EventsTyped, OwnTyped, TasksFit, Fits
<1>12. ASSUME NEW c \in Names, AddSiemConnector(c)
       PROVE  TypeInv'
  <2>1. /\ connectors' \in Seq(Names) /\ Len(connectors') = Len(connectors) + 1 /\ tasks' = tasks
        /\ started' = started
    BY <1>12, <1>p DEF AddSiemConnector, OwnTyped
  <2>2. TasksFit'
    BY <2>1, <1>p DEF TasksFit, Fits, TaskState
  <2> QED
    BY <1>12, <1>p, <2>1, <2>2, TypePartsNext
       DEF AddSiemConnector, ConnectorsTyped, BreakersTyped, EventsTyped, OwnTyped
<1>13. CASE FlushInterval
  BY <1>13, <1>p, TypePartsNext
     DEF FlushInterval, ConnectorsTyped, BreakersTyped, EventsTyped, OwnTyped, TasksFit, Fits
<1>14. CASE Start
  <2>1. /\ started' = started + 1 /\ started' \in 0..MaxStarts /\ connectors' = connectors
        /\ tasks' = [t \in Task |-> IF t[1] \in Workers /\ t[2] = started + 1 THEN Waiting ELSE tasks[t]]
    BY <1>14, <1>p, SiemAssumption DEF Start, OwnTyped
  <2>2. \A s : Fits(s, Len(connectors)) => Fits(s, Len(connectors))'
    BY <1>p, <2>1 DEF Fits, TaskState
  <2>3. Fits(Waiting, Len(connectors))' /\ Waiting \in TaskState
    BY <1>p, <2>1 DEF Fits, Waiting, At, TaskState, Doing
  <2>4. \A t \in Task : tasks'[t] = Waiting \/ tasks'[t] = tasks[t]
    BY <2>1
  <2>5. TasksFit'
    <3>1. \A t \in Task : tasks'[t] \in TaskState /\ Fits(tasks[t], Len(connectors))
      BY <1>p, <2>3, <2>4 DEF TasksFit
    <3>2. tasks' \in [Task -> TaskState]
      BY <2>1, <3>1
    <3> QED
      BY <2>2, <2>3, <2>4, <3>1, <3>2 DEF TasksFit
  <2> QED
    BY <1>14, <1>p, <2>1, <2>5, TypePartsNext
       DEF Start, ConnectorsTyped, BreakersTyped, EventsTyped, OwnTyped
<1>15. CASE Stop
  <2> DEFINE t == <<"stop", started>>
  <2>0. /\ event_buffer \in Seq(Event) /\ connectors' = connectors /\ started' = started /\ ~_running'
        /\ started \in Nat \ {0}
    BY <1>15, <1>p DEF Stop, EventsTyped, OwnTyped
  <2>1. t \in Task
    <3>1. started \in Generation
      BY <2>0, Generations
    <3> QED
      BY <3>1, Tasks
  <2>2. /\ TasksFit' /\ recent' \in BOOLEAN /\ event_buffer' \in Seq(Event) /\ Len(event_buffer') < batch_size
        /\ BreakersTyped'
    <3>1. CASE event_buffer = <<>>
      <4>1. Fits(Cancelling, Len(connectors))
        BY <1>p, <2>0, CancellingFits
      <4>2. /\ tasks' = [tasks EXCEPT ![t] = Cancelling]
            /\ event_buffer' = event_buffer /\ recent' = recent /\ BreakersTyped'
        BY <1>15, <1>p, <3>1 DEF Stop, Continue, BreakersTyped
      <4>3. TasksFit'
        BY <2>0, <2>1, <4>1, <4>2, TasksMove
      <4> QED
        BY <1>p, <4>2, <4>3 DEF OwnTyped, EventsTyped
    <3>2. CASE event_buffer # <<>>
      <4>1. Flush(t, event_buffer)
        BY <1>15, <3>2 DEF Stop
      <4>2. TasksFit' /\ recent' \in BOOLEAN /\ event_buffer' = <<>> /\ BreakersTyped'
        BY <2>0, <2>1, <4>1, FlushBegins, TasksMove
      <4> QED
        BY <4>2, Sizes
    <3> QED
      BY <3>1, <3>2
  <2>3. _running' = FALSE
    BY <1>15 DEF Stop
  <2> QED
    BY <1>15, <1>p, <2>0, <2>2, <2>3, TypePartsNext DEF Stop, ConnectorsTyped, EventsTyped, OwnTyped
<1>16. CASE UNCHANGED vars
  BY <1>16, <1>p, TypePartsNext
     DEF ConnectorsTyped, BreakersTyped, EventsTyped, OwnTyped, TasksFit, Fits
<1> QED
  BY <1>1, <1>2, <1>3, <1>4, <1>5, <1>6, <1>7, <1>9, <1>10, <1>11, <1>12, <1>13, <1>14, <1>15, <1>16
     DEF Next, ProcessorStep, FlusherStep, MonitorStep, StopStep, Task, Workers

LEMMA InitTyped ==
  ASSUME Init
  PROVE  TypeInv
<1>1. Fits(Ended, Len(connectors)) /\ Len(connectors) = 0 /\ Ended \in TaskState
  <2>1. Len(connectors) = 0 /\ started = 0
    BY DEF Init
  <2> QED
    BY <2>1, EndedFits DEF Fits
<1>2. TasksFit
  BY <1>1 DEF Init, TasksFit
<1>3. failure_threshold \in Nat /\ max_connection_failures \in Nat
  BY SiemAssumption
<1>4. ConnectorsTyped /\ BreakersTyped
  BY <1>3 DEF Init, ConnectorsTyped, BreakersTyped, SIEMStatus
<1>5. EventsTyped
  <2>1. <<>> \in Seq(Event) /\ Len(<<>>) = 0 /\ 0 \in 0..MaxEvents
    BY Sizes
  <2>2. event_queue = <<>> /\ event_buffer = <<>> /\ accepted = 0 /\ sent = {}
    BY DEF Init
  <2>3. Len(event_queue) <= max_queue /\ Len(event_buffer) < batch_size
    BY <2>1, <2>2, Sizes
  <2>4. sent \subseteq Event
    BY <2>2
  <2> QED
    BY <2>1, <2>2, <2>3, <2>4 DEF EventsTyped
<1>6. OwnTyped
  <2>1. connectors \in Seq(Names)
    <3>1. connectors = <<>>
      BY DEF Init
    <3> QED
      BY <3>1
  <2>2. recent \in BOOLEAN /\ _running \in BOOLEAN /\ ~_running
    BY Zenon DEF Init
  <2>3. started \in 0..MaxStarts
    BY SiemAssumption DEF Init
  <2> QED
    BY <2>1, <2>2, <2>3 DEF OwnTyped
<1> QED
  BY <1>2, <1>4, <1>5, <1>6, TypeParts

\* Every reachable state is well typed, for any connectors, sizes and thresholds: the buffer
\* is never left with a full batch.  (_event_processor)
THEOREM TypeCorrect == Spec => []TypeOK
<1>1. Init => TypeInv
  BY InitTyped
<1>2. TypeInv /\ [Next]_vars => TypeInv'
  BY TypeInvariant
<1>3. TypeInv => TypeOK
  BY DEF TypeInv
<1> QED
  BY <1>1, <1>2, <1>3, PTL DEF Spec

-------------------------------------------------------------------------------
(* Events *)

Queue == ToSet(event_queue)
Buffer == ToSet(event_buffer)

\* Events are accepted ones, and the queue, the buffer and the batches in hand share none.
EventInv ==
  /\ Distinct(event_queue)
  /\ \A e \in Queue \cup Buffer \cup sent : e <= accepted
  /\ \A t \in Task : \A e \in InHand(t) : e <= accepted
  /\ Queue \cap Buffer = {}
  /\ \A t \in Task : InHand(t) \cap (Queue \cup Buffer) = {}
  /\ \A t, u \in Task : t # u => InHand(t) \cap InHand(u) = {}
  /\ sent \cap (Queue \cup Buffer) = {}

LEMMA EmptySet == ToSet(<<>>) = {}
BY DEF ToSet

LEMMA EventsAreNumbers ==
  ASSUME NEW s \in Seq(Event)
  PROVE  ToSet(s) \subseteq Nat
<1>1. \A i \in 1..Len(s) : s[i] \in Event
  OBVIOUS
<1>2. Event \subseteq Nat
  BY SiemAssumption DEF Event
<1> QED
  BY <1>1, <1>2 DEF ToSet

\* The move of one task changes its hand only.
LEMMA Hands ==
  ASSUME TypeInv, NEW t \in Task, NEW s, tasks' = [tasks EXCEPT ![t] = s]
  PROVE  InHand(t)' = ToSet(s.batch) /\ \A u \in Task \ {t} : InHand(u)' = InHand(u)
BY DEF InHand, TypeInv, TasksFit

\* A step may move events among the queue, the buffer and one hand, as long as it makes none
\* of them two, and drop what others have in hand.
LEMMA EventsMove ==
  ASSUME EventInv, NEW t \in Task,
         Distinct(event_queue)',
         (Queue \cup Buffer \cup InHand(t))' \subseteq Queue \cup Buffer \cup InHand(t),
         (Queue \cap Buffer)' = {},
         (InHand(t) \cap (Queue \cup Buffer))' = {},
         \A u \in Task \ {t} : InHand(u)' \subseteq InHand(u),
         accepted' = accepted,
         sent' \subseteq sent \cup InHand(t),
         (sent \cap (Queue \cup Buffer))' = {}
  PROVE  EventInv'
<1>1. \A e \in (Queue \cup Buffer \cup sent)' : e <= accepted'
  BY DEF EventInv
<1>2. \A u \in Task : \A e \in InHand(u)' : e <= accepted'
  BY DEF EventInv
<1>3. \A u \in Task : (InHand(u) \cap (Queue \cup Buffer))' = {}
  <2> SUFFICES ASSUME NEW u \in Task \ {t}, NEW e \in InHand(u)', e \in (Queue \cup Buffer)'
               PROVE  FALSE
    OBVIOUS
  <2>1. e \in InHand(u) /\ e \in Queue \cup Buffer \cup InHand(t)
    OBVIOUS
  <2> QED
    BY <2>1 DEF EventInv
<1>4. \A u, v \in Task : u # v => (InHand(u) \cap InHand(v))' = {}
  <2> SUFFICES ASSUME NEW u \in Task, NEW v \in Task, u # v, u # t,
                      NEW e \in InHand(u)', e \in InHand(v)'
               PROVE  FALSE
    OBVIOUS
  <2>1. e \in InHand(u)
    OBVIOUS
  <2>2. e \in InHand(v) \/ e \in Queue \cup Buffer \cup InHand(t)
    OBVIOUS
  <2> QED
    BY <2>1, <2>2 DEF EventInv
<1> QED
  BY <1>1, <1>2, <1>3, <1>4 DEF EventInv

\* A step that only puts down what tasks have in hand.
LEMMA EventsStay ==
  ASSUME EventInv, UNCHANGED <<event_queue, event_buffer, accepted, sent>>,
         \A u \in Task : InHand(u)' \subseteq InHand(u)
  PROVE  EventInv'
<1>1. Queue' = Queue /\ Buffer' = Buffer /\ Distinct(event_queue)'
  BY DEF Queue, Buffer, EventInv
<1> QED
  BY <1>1 DEF EventInv

\* A flush takes what was in the buffer, and perhaps drops it.
LEMMA EventsFlushed ==
  ASSUME TypeInv, EventInv, NEW t \in Task, started > 0, Flush(t, event_buffer),
         UNCHANGED <<event_queue, accepted, sent>>
  PROVE  EventInv'
<1>1. event_buffer \in Seq(Event)
  BY DEF TypeInv, TypeOK
<1>2. PICK s : tasks' = [tasks EXCEPT ![t] = s] /\ s.batch \in {<<>>, event_buffer}
  BY <1>1, FlushBegins
<1>3. Buffer' = {} /\ Queue' = Queue /\ Distinct(event_queue)'
  BY <1>1, FlushBegins, EmptySet DEF Buffer, Queue, EventInv
<1>4. InHand(t)' \subseteq Buffer /\ \A u \in Task \ {t} : InHand(u)' = InHand(u)
  BY <1>2, Hands, EmptySet DEF Buffer
<1>5. (InHand(t) \cap Queue)' = {}
  BY <1>3, <1>4 DEF EventInv
<1>6. (sent \cap Queue)' = {}
  BY <1>3 DEF EventInv
<1> QED
  BY <1>3, <1>4, <1>5, <1>6, EventsMove

\* A task puts down what it has in hand.
LEMMA HandEmptied ==
  ASSUME TypeInv, EventInv, NEW t \in Task, NEW s, tasks' = [tasks EXCEPT ![t] = s], s.batch = <<>>,
         UNCHANGED <<event_queue, event_buffer, accepted, sent>>
  PROVE  EventInv'
BY Hands, EmptySet, EventsStay

LEMMA EventInvariant ==
  ASSUME TypeInv, EventInv, [Next]_vars
  PROVE  EventInv'
<1> USE DEF siemVars, breakerVars, eventVars, runVars, vars
<1>t. /\ event_queue \in Seq(Event) /\ event_buffer \in Seq(Event) /\ accepted \in Nat
      /\ connectors \in Seq(Names)
  BY Sizes DEF TypeInv, TypeOK
<1>n. /\ NextRound.batch = <<>> /\ Ended.batch = <<>>
      /\ started \in Nat /\ (_running => started > 0)
  BY NextRoundFits, Generations DEF Ended, At, TypeInv
<1>1. CASE SendSecurityEvent
  <2>1. /\ Queue' = Queue \cup {accepted + 1} /\ Buffer' = Buffer /\ sent' = sent
        /\ accepted' = accepted + 1
        /\ \A u \in Task : InHand(u)' = InHand(u)
    <3>1. accepted + 1 \in Event /\ event_queue' = Append(event_queue, accepted + 1)
      BY <1>1, <1>t, Sizes DEF SendSecurityEvent, Event
    <3> QED
      BY <1>1, <1>t, <3>1, AppendedSet DEF SendSecurityEvent, Queue, Buffer, InHand
  <2>2. \A e \in Queue \cup Buffer \cup sent : e \in Nat
    <3>1. sent \subseteq Nat
      BY SiemAssumption DEF TypeInv, TypeOK, Event
    <3> QED
      BY <1>t, <3>1, EventsAreNumbers DEF Queue, Buffer
  <2>3. \A u \in Task : \A e \in InHand(u) : e \in Nat
    <3>1. \A u \in Task : tasks[u].batch \in Seq(Event)
      BY DEF TypeInv, TypeOK
    <3> QED
      BY <3>1, EventsAreNumbers DEF InHand
  <2>4. accepted + 1 \notin Queue \cup Buffer \cup sent
    BY <1>t, <2>2 DEF EventInv
  <2>5. \A u \in Task : accepted + 1 \notin InHand(u)
    BY <1>t, <2>3 DEF EventInv
  <2>6. Distinct(event_queue)'
    <3>1. accepted + 1 \in Event /\ event_queue' = Append(event_queue, accepted + 1)
      BY <1>1, <1>t, Sizes DEF SendSecurityEvent, Event
    <3>2. Distinct(Append(event_queue, accepted + 1))
      BY <1>t, <2>4, <3>1, DistinctAppend DEF EventInv, Queue
    <3> QED
      BY <3>1, <3>2
  <2>7. \A e \in (Queue \cup Buffer \cup sent)' : e <= accepted'
    BY <1>t, <2>1, <2>2 DEF EventInv
  <2>8. \A u \in Task : \A e \in InHand(u)' : e <= accepted'
    BY <1>t, <2>1, <2>3 DEF EventInv
  <2> QED
    BY <2>1, <2>4, <2>5, <2>6, <2>7, <2>8 DEF EventInv
<1>2. ASSUME NEW g \in Generation, EventProcessor(g)
      PROVE  EventInv'
  <2> DEFINE t == <<"processor", g>>
             e == Head(event_queue)
             buffer == Append(event_buffer, e)
  <2>0. t \in Task /\ started > 0
    <3>1. t \in Task
      BY Tasks
    <3>2. tasks[t] = Waiting
      BY <1>2 DEF EventProcessor
    <3> QED
      BY <3>1, <3>2, BusyWasStarted, WaitingIsBusy
  <2>1. /\ e \in Queue /\ Queue' = Queue \ {e} /\ Distinct(event_queue)' /\ e \in Event
        /\ accepted' = accepted /\ sent' = sent
    <3>1. event_queue # <<>> /\ event_queue' = Tail(event_queue)
      BY <1>2 DEF EventProcessor
    <3>2. e \in Event
      BY <1>t, <3>1
    <3>3. Distinct(event_queue)
      BY DEF EventInv
    <3>4. e \in ToSet(event_queue) /\ ToSet(Tail(event_queue)) = ToSet(event_queue) \ {e}
          /\ Distinct(Tail(event_queue))
      BY <1>t, <3>1, <3>3, TailSet
    <3> QED
      BY <1>2, <3>1, <3>2, <3>4 DEF EventProcessor, Queue
  <2>2. buffer \in Seq(Event) /\ ToSet(buffer) = Buffer \cup {e}
    BY <1>t, <2>1, AppendedSet DEF Buffer
  <2>3. \/ Buffer' = ToSet(buffer) /\ InHand(t)' = {}
        \/ Buffer' = {} /\ InHand(t)' \subseteq ToSet(buffer)
    <3>1. CASE BatchIsFull(buffer)
      <4>1. Flush(t, buffer)
        BY <1>2, <3>1 DEF EventProcessor
      <4> HIDE DEF buffer, t
      <4>2. PICK s : tasks' = [tasks EXCEPT ![t] = s] /\ s.batch \in {<<>>, buffer}
        BY <2>0, <2>2, <4>1, FlushBegins
      <4>3. Buffer' = {}
        BY <2>0, <2>2, <4>1, FlushBegins, EmptySet DEF Buffer
      <4> QED
        BY <2>0, <4>2, <4>3, Hands, EmptySet
    <3>2. CASE ~BatchIsFull(buffer)
      <4>1. tasks' = [tasks EXCEPT ![t] = NextRound] /\ event_buffer' = buffer
        BY <1>2, <3>2 DEF EventProcessor, Continue
      <4> HIDE DEF t
      <4>2. InHand(t)' = {}
        BY <1>n, <2>0, <4>1, Hands, EmptySet
      <4> QED
        BY <4>1, <4>2 DEF Buffer
    <3> QED
      BY <3>1, <3>2
  <2>4. \A u \in Task \ {t} : InHand(u)' = InHand(u)
    <3>1. PICK s : tasks' = [tasks EXCEPT ![t] = s]
      BY <1>2 DEF EventProcessor, Flush, FlushFrom, Continue, Pause
    <3> HIDE DEF t
    <3> QED
      BY <2>0, <3>1, Hands
  <2> HIDE DEF e, buffer, t
  <2>5. ToSet(buffer) \cap Queue' = {} /\ ToSet(buffer) \subseteq Queue \cup Buffer
    BY <2>1, <2>2 DEF EventInv
  <2>6. (Queue \cup Buffer \cup InHand(t))' \subseteq Queue \cup Buffer
    BY <2>1, <2>3, <2>5
  <2>7. (Queue \cap Buffer)' = {} /\ (InHand(t) \cap (Queue \cup Buffer))' = {}
    BY <2>3, <2>5
  <2>8. (sent \cap (Queue \cup Buffer))' = {}
    BY <2>1, <2>6 DEF EventInv
  <2> QED
    BY <2>0, <2>1, <2>4, <2>6, <2>7, <2>8, EventsMove
<1>3. ASSUME NEW g \in Generation, BatchFlusher(g)
      PROVE  EventInv'
  <2> DEFINE t == <<"flusher", g>>
  <2>0. t \in Task /\ started > 0
    <3>1. t \in Task
      BY Tasks
    <3>2. tasks[t] = Waiting
      BY <1>3 DEF BatchFlusher
    <3> QED
      BY <3>1, <3>2, BusyWasStarted, WaitingIsBusy
  <2>1. UNCHANGED <<event_queue, accepted, sent>>
    BY <1>3 DEF BatchFlusher
  <2>2. CASE TimeToFlush
    <3>1. Flush(t, event_buffer)
      BY <1>3, <2>2 DEF BatchFlusher
    <3> HIDE DEF t
    <3> QED
      BY <2>0, <2>1, <3>1, EventsFlushed
  <2>3. CASE ~TimeToFlush
    <3>1. tasks' = [tasks EXCEPT ![t] = NextRound] /\ event_buffer' = event_buffer
      BY <1>3, <2>3 DEF BatchFlusher, Continue
    <3> HIDE DEF t
    <3> QED
      BY <1>n, <2>0, <2>1, <3>1, HandEmptied
  <2> QED
    BY <2>2, <2>3
<1>4. ASSUME NEW t \in Task, FinishSend(t)
      PROVE  EventInv'
  <2>1. PICK s : tasks' = [tasks EXCEPT ![t] = s] /\ s.batch \in {<<>>, tasks[t].batch}
    BY <1>4, SendFinishes
  <2>2. InHand(t)' \subseteq InHand(t) /\ \A u \in Task \ {t} : InHand(u)' = InHand(u)
    BY <2>1, Hands, EmptySet DEF InHand
  <2>3. /\ Queue' = Queue /\ Buffer' = Buffer /\ Distinct(event_queue)' /\ accepted' = accepted
        /\ sent' = sent \cup InHand(t)
    BY <1>4 DEF FinishSend, Queue, Buffer, InHand, EventInv
  <2>4. (sent \cap (Queue \cup Buffer))' = {}
    BY <2>3 DEF EventInv
  <2>5. (InHand(t) \cap (Queue \cup Buffer))' = {} /\ (Queue \cap Buffer)' = {}
    BY <2>2, <2>3 DEF EventInv
  <2> QED
    BY <2>2, <2>3, <2>4, <2>5, EventsMove
<1>5. ASSUME NEW g \in Generation, HealthMonitor(g)
      PROVE  EventInv'
  <2> DEFINE t == <<"monitor", g>>
  <2>1. PICK s : tasks' = [tasks EXCEPT ![t] = s] /\ s.batch = <<>>
    BY <1>5, <1>n DEF HealthMonitor, MonitorFrom, Continue, Pause
  <2>2. t \in Task
    BY Tasks
  <2>3. UNCHANGED <<event_queue, event_buffer, accepted, sent>>
    BY <1>5 DEF HealthMonitor
  <2> HIDE DEF t
  <2> QED
    BY <2>1, <2>2, <2>3, HandEmptied
<1>6. ASSUME NEW g \in Generation, NEW result \in {"CONNECTED", "ERROR"}, MonitorConnects(g, result)
      PROVE  EventInv'
  <2> DEFINE t == <<"monitor", g>>
  <2>1. PICK s : tasks' = [tasks EXCEPT ![t] = s] /\ s.batch = <<>>
    <3>1. \/ \E i, size, closed, statusNow : MonitorFrom(t, i, size, closed, statusNow)
          \/ Continue(t, NextRound)
      BY <1>6, Zenon DEF MonitorConnects
    <3> HIDE DEF t
    <3>2. CASE Continue(t, NextRound)
      BY <1>n, <3>2 DEF Continue
    <3>3. ASSUME NEW i, NEW size, NEW closed, NEW statusNow, MonitorFrom(t, i, size, closed, statusNow)
          PROVE  \E s : tasks' = [tasks EXCEPT ![t] = s] /\ s.batch = <<>>
      <4>1. \/ tasks' = [tasks EXCEPT ![t] = NextRound]
            \/ \E pos : tasks' = [tasks EXCEPT ![t] = [doing |-> "connecting", batch |-> <<>>,
                                                       pos |-> pos, size |-> size, of |-> 0]]
        BY <3>3, Zenon DEF MonitorFrom, Continue, Pause
      <4> QED
        BY <1>n, <4>1
    <3> QED
      BY <3>1, <3>2, <3>3
  <2>2. t \in Task
    BY Tasks
  <2>3. UNCHANGED <<event_queue, event_buffer, accepted, sent>>
    BY <1>6 DEF MonitorConnects
  <2> HIDE DEF t
  <2> QED
    BY <2>1, <2>2, <2>3, HandEmptied
<1>7. ASSUME NEW g \in Generation, NEW kind \in Workers, CancelTask(g, kind)
      PROVE  EventInv'
  <2> DEFINE t == <<kind, tasks[<<"stop", g>>].of>>
  <2>1. /\ tasks' = [tasks EXCEPT ![t] = Ended] /\ tasks[<<"stop", g>>].doing = "cancelling"
        /\ UNCHANGED <<event_queue, event_buffer, accepted, sent>>
    BY <1>7 DEF CancelTask, Continue
  <2>2. t \in Task
    <3>1. <<"stop", g>> \in Task
      BY Tasks
    <3>2. tasks[<<"stop", g>>].of \in Generation
      BY <2>1, <3>1, Generations DEF TypeInv, TasksFit, Fits, TaskState
    <3> QED
      BY <3>2, Tasks
  <2> HIDE DEF t
  <2> QED
    BY <1>n, <2>1, <2>2, HandEmptied
<1>8. ASSUME NEW g \in Generation, DisconnectAll(g) \/ Disconnect(g)
      PROVE  EventInv'
  <2> DEFINE t == <<"stop", g>>
  <2>1. PICK s : tasks' = [tasks EXCEPT ![t] = s] /\ s.batch = <<>>
    <3>1. \/ \E i, size, statusNow, sessionsNow : DisconnectFrom(t, i, size, statusNow, sessionsNow)
          \/ Continue(t, Ended)
      BY <1>8, Zenon DEF DisconnectAll, Disconnect
    <3> HIDE DEF t
    <3>2. CASE Continue(t, Ended)
      BY <1>n, <3>2 DEF Continue
    <3>3. ASSUME NEW i, NEW size, NEW statusNow, NEW sessionsNow,
                 DisconnectFrom(t, i, size, statusNow, sessionsNow)
          PROVE  \E s : tasks' = [tasks EXCEPT ![t] = s] /\ s.batch = <<>>
      <4>1. \/ tasks' = [tasks EXCEPT ![t] = Ended]
            \/ \E pos : tasks' = [tasks EXCEPT ![t] = [doing |-> "disconnecting", batch |-> <<>>,
                                                       pos |-> pos, size |-> size, of |-> 0]]
        BY <3>3, Zenon DEF DisconnectFrom, Continue, Pause
      <4> QED
        BY <1>n, <4>1
    <3> QED
      BY <3>1, <3>2, <3>3
  <2>2. t \in Task
    BY Tasks
  <2>3. UNCHANGED <<event_queue, event_buffer, accepted, sent>>
    BY <1>8 DEF DisconnectAll, Disconnect
  <2> HIDE DEF t
  <2> QED
    BY <2>1, <2>2, <2>3, HandEmptied
<1>9. ASSUME UNCHANGED <<event_queue, event_buffer, accepted, sent, tasks>>
      PROVE  EventInv'
  BY <1>9, EventsStay DEF InHand
<1>10. CASE Start
  <2>1. Waiting.batch = <<>>
    BY DEF Waiting, At
  <2>2. \A u \in Task : tasks'[u] = Waiting \/ tasks'[u] = tasks[u]
    BY <1>10 DEF Start
  <2>3. \A u \in Task : InHand(u)' \subseteq InHand(u)
    BY <2>1, <2>2, EmptySet DEF InHand
  <2> QED
    BY <1>10, <2>3, EventsStay DEF Start
<1>11. CASE Stop
  <2> DEFINE t == <<"stop", started>>
  <2>1. started > 0 /\ UNCHANGED <<event_queue, accepted, sent>>
    BY <1>11, <1>n DEF Stop
  <2>2. t \in Task
    <3>1. started \in Generation
      BY <1>n, <2>1, Generations
    <3> QED
      BY <3>1, Tasks
  <2>3. CASE event_buffer = <<>>
    <3>1. tasks' = [tasks EXCEPT ![t] = Cancelling] /\ event_buffer' = event_buffer
      BY <1>11, <2>3 DEF Stop, Continue
    <3>2. Cancelling.batch = <<>>
      BY DEF Cancelling, At
    <3> HIDE DEF t
    <3> QED
      BY <2>1, <2>2, <3>1, <3>2, HandEmptied
  <2>4. CASE event_buffer # <<>>
    <3>1. Flush(t, event_buffer)
      BY <1>11, <2>4 DEF Stop
    <3> HIDE DEF t
    <3> QED
      BY <2>1, <2>2, <3>1, EventsFlushed
  <2> QED
    BY <2>3, <2>4
<1>12. ASSUME NEW c \in Names, RecoveryTimeout(c) \/ AddSiemConnector(c)
       PROVE  EventInv'
  BY <1>12, <1>9 DEF RecoveryTimeout, AddSiemConnector
<1>13. CASE FlushInterval \/ UNCHANGED vars
  BY <1>13, <1>9 DEF FlushInterval
<1> QED
  BY <1>1, <1>2, <1>3, <1>4, <1>5, <1>6, <1>7, <1>8, <1>10, <1>11, <1>12, <1>13
     DEF Next, ProcessorStep, FlusherStep, MonitorStep, StopStep, Task, Workers

\* An accepted event is in one place at most, and one that was sent never comes back, for any
\* connectors and sizes, whoever flushes and whatever sends do.  (_flush_events)
THEOREM NoEventSentTwice == Spec => []SentAtMostOnce
<1>1. Init => TypeInv /\ EventInv
  <2> SUFFICES ASSUME Init
               PROVE  EventInv
    BY InitTyped
  <2>1. Queue = {} /\ Buffer = {} /\ sent = {} /\ \A t \in Task : InHand(t) = {}
    BY EmptySet DEF Init, Queue, Buffer, InHand, Ended, At
  <2>2. Distinct(event_queue)
    BY DEF Init, Distinct
  <2> QED
    BY <2>1, <2>2 DEF EventInv
<1>2. TypeInv /\ EventInv /\ [Next]_vars => (TypeInv /\ EventInv)'
  BY TypeInvariant, EventInvariant
<1>3. EventInv => SentAtMostOnce
  <2> SUFFICES ASSUME EventInv
               PROVE  SentAtMostOnce
    OBVIOUS
  <2>2. sent \cap (ToSet(event_queue) \cup ToSet(event_buffer)) = {}
    BY DEF EventInv, Queue, Buffer
  <2>3. ASSUME NEW e \in 1..accepted, NEW p, NEW q,
               p \in {t \in Task : e \in InHand(t)} \cup {x \in {<<"queue", 0>>} : e \in ToSet(event_queue)}
                       \cup {x \in {<<"buffer", 0>>} : e \in ToSet(event_buffer)},
               q \in {t \in Task : e \in InHand(t)} \cup {x \in {<<"queue", 0>>} : e \in ToSet(event_queue)}
                       \cup {x \in {<<"buffer", 0>>} : e \in ToSet(event_buffer)}
        PROVE  p = q
    <3>1. \/ p \in Task /\ e \in InHand(p)
          \/ p = <<"queue", 0>> /\ e \in Queue
          \/ p = <<"buffer", 0>> /\ e \in Buffer
      BY <2>3 DEF Queue, Buffer
    <3>2. \/ q \in Task /\ e \in InHand(q)
          \/ q = <<"queue", 0>> /\ e \in Queue
          \/ q = <<"buffer", 0>> /\ e \in Buffer
      BY <2>3 DEF Queue, Buffer
    <3>3. Queue \cap Buffer = {} /\ \A t \in Task : e \in InHand(t) => e \notin Queue \cup Buffer
      BY DEF EventInv
    <3>4. \A t, u \in Task : e \in InHand(t) /\ e \in InHand(u) => t = u
      BY DEF EventInv
    <3> QED
      BY <3>1, <3>2, <3>3, <3>4
  <2> QED
    BY <2>2, <2>3 DEF SentAtMostOnce
<1> QED
  BY <1>1, <1>2, <1>3, PTL DEF Spec

===============================================================================
