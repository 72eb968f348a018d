-------------------------- MODULE ContinuousProofs --------------------------
(***************************************************************************)
(* Theorems about continuous tasks, for any number of windows, copies of a *)
(* report, concurrent requests and worlds.                                 *)
(*                                                                         *)
(* What a step of the chain may do is said once, in Effect: windows under  *)
(* way come only from StartContinuousTask and from a result of a running   *)
(* task, and records only from a result.  On it rests ChainInv: records    *)
(* are in order and every window under way has its predecessors recorded   *)
(* (TimelineInv), and without repeated reports the one window under way is *)
(* in one place (OnePlace).  SyncInv is about the API server: rows of      *)
(* windows stay, and a request that is at a window of its list has those   *)
(* before it in the table.                                                 *)
(***************************************************************************)
EXTENDS LongRunning, FiniteSetTheorems, TLAPS

USE ContinuousAssumption, SyncAssumption
USE DEF NONE

-----------------------------------------------------------------------------
(* Sequences and bags.                                                     *)

\* The elements of a sequence after an append ...
LEMMA ElementsAppend ==
    ASSUME NEW S, NEW s \in Seq(S), NEW e \in S
    PROVE  /\ Append(s, e) \in Seq(S)
           /\ Len(Append(s, e)) = Len(s) + 1
           /\ Elements(Append(s, e)) = Elements(s) \cup {e}
<1>1. /\ Append(s, e) \in Seq(S)
      /\ Len(Append(s, e)) = Len(s) + 1
      /\ Len(s) \in Nat
      /\ Append(s, e)[Len(s) + 1] = e
      /\ \A i \in 1..Len(s) : Append(s, e)[i] = s[i]
  OBVIOUS
<1>2. 1..(Len(s) + 1) = (1..Len(s)) \cup {Len(s) + 1}
  BY <1>1
<1>3. QED
  BY <1>1, <1>2 DEF Elements

\* ... and of what is left once its head is taken.
LEMMA ElementsTail ==
    ASSUME NEW S, NEW s \in Seq(S), s # <<>>
    PROVE  /\ Head(s) \in S /\ Head(s) \in Elements(s)
           /\ Tail(s) \in Seq(S)
           /\ Len(Tail(s)) = Len(s) - 1
           /\ Len(s) \in Nat \ {0}
           /\ \A i \in 1..Len(Tail(s)) : Tail(s)[i] = s[i + 1]
           /\ Elements(Tail(s)) \subseteq Elements(s)
<1>1. /\ Head(s) = s[1]
      /\ Tail(s) \in Seq(S)
      /\ Len(s) \in Nat \ {0}
      /\ Len(Tail(s)) = Len(s) - 1
      /\ \A i \in 1..Len(Tail(s)) : Tail(s)[i] = s[i + 1]
  OBVIOUS
<1>2. 1 \in 1..Len(s) /\ s[1] \in S
  BY <1>1
<1>3. \A i \in 1..Len(Tail(s)) : i + 1 \in 1..Len(s)
  BY <1>1
<1>4. QED
  BY <1>1, <1>2, <1>3 DEF Elements

\* n copies of a report on the way.
LEMMA BagAdd ==
    ASSUME NEW B, IsABag(B), NEW m, NEW n \in Nat
    PROVE  LET C == B (+) Copies(m, n)
           IN  /\ IsABag(C)
               /\ BagToSet(C) = BagToSet(B) \cup (IF n = 0 THEN {} ELSE {m})
               /\ n > 0 /\ m \notin BagToSet(B) => C[m] = n
               /\ \A x \in BagToSet(B) \ {m} : C[x] = B[x]
<1>1. CASE n = 0
  BY <1>1 DEF (+), Copies, BagToSet, IsABag
<1>2. CASE n > 0
  BY <1>2 DEF (+), Copies, BagToSet, IsABag
<1>3. QED BY <1>1, <1>2

\* One copy of a report is served.
LEMMA BagRemove ==
    ASSUME NEW B, IsABag(B), NEW m \in BagToSet(B)
    PROVE  LET C == B (-) SetToBag({m})
           IN  /\ IsABag(C)
               /\ BagToSet(C) \subseteq BagToSet(B)
               /\ B[m] = 1 => m \notin BagToSet(C)
               /\ \A x \in BagToSet(C) \ {m} : C[x] = B[x]
BY DEF (-), SetToBag, BagToSet, IsABag

-----------------------------------------------------------------------------
(* The chain of windows in drop_server and at the agent.                   *)

\* A served result.
Notified(m) ==
    /\ m \in Results
    /\ config' = config
    /\ windows' = IF Registered THEN Append(windows, RecordOf(m)) ELSE windows
    /\ \/ Coming' \subseteq Coming
       \/ config = "running" /\ m.seq + 1 \in Windows /\ Coming' \subseteq Coming \cup {m.seq + 1}

\* What a step may do to the records and to the windows under way.
Effect ==
    \/ UNCHANGED <<config, windows>> /\ Coming' \subseteq Coming
    \/ \E m \in Results : Notified(m)
    \/ Registered /\ config' = "gone" /\ windows' = <<>> /\ Coming' \subseteq Coming
    \/ Registered /\ config' = "stopped" /\ windows' = windows /\ Coming' \subseteq Coming
    \/ config = "new" /\ config' = "running" /\ windows' = <<>> /\ Coming' \subseteq Coming \cup {0}

\* Steps that change neither config nor windows.
LEMMA QuietEffect ==
    ASSUME UNCHANGED <<config, windows>>,
           Elements(queue') \cup Elements(received') \subseteq Coming,
           running' \subseteq Coming,
           \A m \in Results' : m.seq \in Coming
    PROVE  Effect
BY DEF Effect, Coming

\* A heartbeat moves the front of the queue.
LEMMA PopTaskStep ==
    ASSUME ChainTypeOK, UNCHANGED world, NEW arrives \in BOOLEAN, PopTask(arrives)
    PROVE  ChainTypeOK' /\ Effect
<1>1. /\ Head(queue) \in Windows /\ Head(queue) \in Elements(queue)
      /\ Tail(queue) \in Seq(Windows) /\ Elements(Tail(queue)) \subseteq Elements(queue)
  BY ElementsTail DEF ChainTypeOK, PopTask
<1>2. /\ Append(received, Head(queue)) \in Seq(Windows)
      /\ Elements(Append(received, Head(queue))) = Elements(received) \cup {Head(queue)}
  BY <1>1, ElementsAppend DEF ChainTypeOK
<1>3. /\ queue' = Tail(queue)
      /\ received' = received \/ received' = Append(received, Head(queue))
      /\ UNCHANGED <<config, windows, running, reports>>
  BY DEF PopTask
<1>4. /\ wstate' \in [Windows -> WState]
      /\ waited' \subseteq Windows
  BY <1>1 DEF PopTask, SetState, ChainTypeOK, WState
<1>5. ChainTypeOK'
  BY <1>1, <1>2, <1>3, <1>4 DEF ChainTypeOK
<1>6. Effect
  BY <1>1, <1>2, <1>3, QuietEffect DEF Coming, Results
<1>7. QED BY <1>5, <1>6

\* The worker begins a window.
LEMMA BeginWindowStep ==
    ASSUME ChainTypeOK, UNCHANGED world, NEW n \in 0..MaxCopies, BeginWindow(n)
    PROVE  ChainTypeOK' /\ Effect
<1> DEFINE m == [seq |-> Head(received), body |-> "RUNNING"]
<1>1. /\ Head(received) \in Windows /\ Head(received) \in Elements(received)
      /\ Tail(received) \in Seq(Windows) /\ Elements(Tail(received)) \subseteq Elements(received)
  BY ElementsTail DEF ChainTypeOK, BeginWindow
<1>2. m \in Report /\ m.body \notin WResult /\ n \in Nat
  BY <1>1 DEF Report, WResult
<1>3. reports' = reports (+) Copies(m, n)
  BY DEF BeginWindow
<1> HIDE DEF m
<1>4. /\ IsABag(reports') /\ BagToSet(reports') \subseteq BagToSet(reports) \cup {m}
  BY <1>2, <1>3, BagAdd DEF ChainTypeOK
<1>5. /\ running' = {Head(received)} /\ received' = Tail(received)
      /\ UNCHANGED <<config, queue, wstate, waited, windows>>
  BY DEF BeginWindow
<1>6. ChainTypeOK'
  BY <1>1, <1>2, <1>4, <1>5 DEF ChainTypeOK
<1>7. Results' \subseteq Results
  BY <1>2, <1>4 DEF Results
<1>8. Effect
  BY <1>1, <1>5, <1>7, QuietEffect DEF Coming
<1>9. QED BY <1>6, <1>8

\* A window ends and its result is on the way.
LEMMA EndWindowStep ==
    ASSUME ChainTypeOK, UNCHANGED world, NEW n \in 0..MaxCopies, NEW w \in running, NEW r \in WResult,
           EndWindow(w, r, n)
    PROVE  ChainTypeOK' /\ Effect
<1> DEFINE m == [seq |-> w, body |-> r]
<1>1. m \in Report /\ m.seq = w /\ w \in Windows /\ n \in Nat
  BY DEF Report, ChainTypeOK
<1>2. reports' = reports (+) Copies(m, n)
  BY DEF EndWindow
<1> HIDE DEF m
<1>3. IsABag(reports') /\ BagToSet(reports') \subseteq BagToSet(reports) \cup {m}
  BY <1>1, <1>2, BagAdd DEF ChainTypeOK
<1>4. running' = {} /\ UNCHANGED <<config, queue, wstate, waited, windows, received>>
  BY DEF EndWindow
<1>5. ChainTypeOK'
  BY <1>1, <1>3, <1>4 DEF ChainTypeOK
<1>6. Results' \subseteq Results \cup {m}
  BY <1>3 DEF Results
<1>7. Effect
  BY <1>1, <1>4, <1>6, QuietEffect DEF Coming
<1>8. QED BY <1>5, <1>7

\* A report is served.
LEMMA ServedStep ==
    ASSUME ChainTypeOK, UNCHANGED world, NEW m \in BagToSet(reports),
           UpdateTaskStatus(m) \/ \E ok \in BOOLEAN : NotifyResult(m, ok)
    PROVE  ChainTypeOK' /\ Effect
<1>1. m \in Report /\ m.seq \in Windows /\ m.seq \in Nat
  BY DEF ChainTypeOK, Report, Windows
<1>2. reports' = reports (-) SetToBag({m})
  BY DEF UpdateTaskStatus, NotifyResult, ServeResult
<1>3. IsABag(reports') /\ BagToSet(reports') \subseteq BagToSet(reports) /\ Results' \subseteq Results
  BY <1>2, BagRemove DEF ChainTypeOK, Results
<1>4. UNCHANGED <<config, received, running>>
  BY DEF UpdateTaskStatus, NotifyResult, ServeResult
<1>5. CASE UpdateTaskStatus(m)
  <2>1. ChainTypeOK'
    BY <1>1, <1>3, <1>4, <1>5 DEF UpdateTaskStatus, SetState, ChainTypeOK, WState
  <2>2. Effect
    BY <1>3, <1>4, <1>5, QuietEffect DEF UpdateTaskStatus, Coming
  <2>3. QED BY <2>1, <2>2
<1>6. ASSUME NEW ok \in BOOLEAN, NotifyResult(m, ok) PROVE ChainTypeOK' /\ Effect
  <2> DEFINE goesOn == config = "running" /\ ok /\ m.seq < world.last
             next == m.seq + 1
  <2>1. ServeResult(m, Registered, goesOn)
    BY <1>6 DEF NotifyResult
  <2>2. world.last \in Windows
    BY DEF ChainTypeOK
  <2>3. goesOn => next \in Windows
    BY <1>1, <2>2 DEF Windows
  <2> HIDE DEF goesOn, next
  <2>4. m \in Results
    BY <2>1 DEF ServeResult, Results
  <2>5. RecordOf(m) \in Record
    BY <1>1 DEF RecordOf, Record
  <2>6. windows' = IF Registered THEN Append(windows, RecordOf(m)) ELSE windows
    BY <2>1 DEF ServeResult
  <2>7. windows' \in Seq(Record)
    BY <2>5, <2>6, ElementsAppend DEF ChainTypeOK
  <2>8. queue' = IF goesOn THEN Append(queue, next) ELSE queue
    BY <2>1 DEF ServeResult, next
  <2>9. /\ queue' \in Seq(Windows)
        /\ \/ Elements(queue') = Elements(queue)
           \/ goesOn /\ Elements(queue') = Elements(queue) \cup {next}
    BY <2>3, <2>8, ElementsAppend DEF ChainTypeOK
  <2>10. wstate' \in [Windows -> WState] /\ waited' \subseteq Windows
    BY <1>1, <2>1, <2>3 DEF ServeResult, ChainTypeOK, WState, next
  <2>11. ChainTypeOK'
    BY <1>3, <1>4, <2>7, <2>9, <2>10 DEF ChainTypeOK
  <2>12. \/ Coming' \subseteq Coming
         \/ goesOn /\ Coming' \subseteq Coming \cup {next}
    BY <1>3, <1>4, <2>9 DEF Coming
  <2>13. Notified(m)
    BY <1>4, <2>3, <2>4, <2>6, <2>12 DEF Notified, goesOn, next
  <2>14. QED
    BY <2>4, <2>11, <2>13 DEF Effect
<1>7. QED BY <1>5, <1>6

\* The cleanup only takes windows out of the queue.
LEMMA CleanupStep ==
    ASSUME ChainTypeOK, UNCHANGED world, CleanupTimeoutTasks
    PROVE  ChainTypeOK' /\ Effect /\ Len(queue') <= Len(queue)
<1>0. PICK n \in 0..Len(queue) : \E at \in [1..n -> 1..Len(queue)] :
                                    queue' = [i \in 1..n |-> queue[at[i]]]
  BY DEF CleanupTimeoutTasks
<1>1. PICK at \in [1..n -> 1..Len(queue)] : queue' = [i \in 1..n |-> queue[at[i]]]
  BY <1>0
<1>2. Len(queue) \in Nat /\ n \in Nat /\ n <= Len(queue) /\ queue \in [1..Len(queue) -> Windows]
  BY DEF ChainTypeOK
<1>3. \A i \in 1..n : queue[at[i]] \in Windows /\ queue[at[i]] \in Elements(queue)
  BY <1>2 DEF Elements
<1>4. queue' \in [1..n -> Windows]
  BY <1>1, <1>3
<1>5. queue' \in Seq(Windows) /\ Len(queue') = n
  BY <1>2, <1>4
<1>6. Elements(queue') \subseteq Elements(queue)
  BY <1>1, <1>3, <1>5 DEF Elements
<1>7. /\ wstate' \in [Windows -> WState] /\ waited' \subseteq Windows
      /\ UNCHANGED <<config, windows, received, running, reports>>
  BY DEF CleanupTimeoutTasks, ChainTypeOK, WState
<1>8. ChainTypeOK'
  BY <1>5, <1>7 DEF ChainTypeOK
<1>9. Effect
  BY <1>6, <1>7, QuietEffect DEF Coming, Results
<1>10. QED BY <1>2, <1>5, <1>8, <1>9

\* Start and stop, crashes and restarts, and the passing of time.
LEMMA EventStep ==
    ASSUME ChainTypeOK, UNCHANGED world,
           \/ \E ok \in BOOLEAN : StartContinuousTask(ok)
           \/ StopContinuousTask \/ AgentCrash \/ ServerRestart
           \/ \E w \in Windows : Waits(w)
    PROVE  ChainTypeOK' /\ Effect
<1>0. /\ <<>> \in Seq(Windows) /\ <<>> \in Seq(Record) /\ Elements(<<>>) = {}
      /\ 0 \in Windows
  BY DEF Elements, Windows
<1>1. ASSUME NEW ok \in BOOLEAN, StartContinuousTask(ok) PROVE ChainTypeOK' /\ Effect
  <2>1. <<0>> \in Seq(Windows) /\ Elements(<<0>>) = {0}
    BY <1>0 DEF Elements
  <2>2. /\ queue' = queue \/ queue' = <<0>>
        /\ config = "new" /\ config' = "running" /\ windows' = <<>>
        /\ UNCHANGED <<received, running, reports>>
    BY <1>1 DEF StartContinuousTask
  <2>3. wstate' \in [Windows -> WState] /\ waited' \subseteq Windows
    BY <1>0, <1>1 DEF StartContinuousTask, SetState, ChainTypeOK, WState
  <2>4. ChainTypeOK'
    BY <1>0, <2>1, <2>2, <2>3 DEF ChainTypeOK, Config
  <2>5. Effect
    BY <2>1, <2>2 DEF Effect, Coming, Results
  <2>6. QED BY <2>4, <2>5
<1>2. CASE StopContinuousTask
  BY <1>2 DEF StopContinuousTask, ChainTypeOK, Effect, Coming, Results, Config
<1>3. CASE AgentCrash
  <2>1. ChainTypeOK'
    BY <1>0, <1>3 DEF AgentCrash, ChainTypeOK
  <2>2. Effect
    BY <1>0, <1>3, QuietEffect DEF AgentCrash, Coming, Results
  <2>3. QED BY <2>1, <2>2
<1>4. CASE ServerRestart
  <2>1. ChainTypeOK'
    BY <1>0, <1>4 DEF ServerRestart, ChainTypeOK, Config, WState
  <2>2. Effect
    BY <1>0, <1>4 DEF ServerRestart, Effect, Coming, Results
  <2>3. QED BY <2>1, <2>2
<1>5. ASSUME NEW w \in Windows, Waits(w) PROVE ChainTypeOK' /\ Effect
  <2>1. ChainTypeOK'
    BY <1>5 DEF Waits, ChainTypeOK
  <2>2. Effect
    BY <1>5, QuietEffect DEF Waits, Coming, Results
  <2>3. QED BY <2>1, <2>2
<1>6. QED BY <1>1, <1>2, <1>3, <1>4, <1>5

\* Every step of the chain.
LEMMA ChainStepEffect ==
    ASSUME ChainTypeOK, ChainStep
    PROVE  ChainTypeOK' /\ Effect
<1>1. UNCHANGED world
  BY DEF ChainStep
<1>2. ASSUME Worker PROVE ChainTypeOK' /\ Effect
  BY <1>1, <1>2, BeginWindowStep, EndWindowStep DEF Worker
<1>3. ASSUME Served PROVE ChainTypeOK' /\ Effect
  BY <1>1, <1>3, ServedStep DEF Served
<1>4. QED
  BY <1>1, <1>2, <1>3, PopTaskStep, CleanupStep, EventStep DEF ChainStep, DropStep

\* The timeline grows in order: a record comes after those of all the windows
\* before it; and for a window under way these are there already.
InOrder(s) ==
    \A i \in 1..Len(s) : \A v \in Windows :
        v < s[i].seq => \E j \in 1..Len(s) : j < i /\ s[j].seq = v

TimelineInv ==
    /\ InOrder(windows)
    /\ Registered => \A w \in Coming : \A v \in Windows : v < w => v \in Recorded
    /\ config \in {"new", "gone"} => windows = <<>>
    /\ config = "new" => Coming = {}

\* A record is appended whose predecessors are there.
LEMMA AppendInOrder ==
    ASSUME NEW s \in Seq(Record), InOrder(s), NEW r \in Record,
           \A v \in Windows : v < r.seq => \E j \in 1..Len(s) : s[j].seq = v
    PROVE  /\ InOrder(Append(s, r))
           /\ {Append(s, r)[i].seq : i \in 1..Len(Append(s, r))}
                 = {s[i].seq : i \in 1..Len(s)} \cup {r.seq}
<1>1. /\ Len(Append(s, r)) = Len(s) + 1 /\ Len(s) \in Nat
      /\ Append(s, r)[Len(s) + 1] = r
      /\ \A i \in 1..Len(s) : Append(s, r)[i] = s[i]
  OBVIOUS
<1>2. /\ 1..(Len(s) + 1) = (1..Len(s)) \cup {Len(s) + 1}
      /\ \A j \in 1..Len(s) : j < Len(s) + 1
  BY <1>1
<1>3. InOrder(Append(s, r))
  BY <1>1, <1>2 DEF InOrder
<1>4. QED
  BY <1>1, <1>2, <1>3

\* So every step keeps the timeline in order.
LEMMA EffectTimeline ==
    ASSUME ChainTypeOK, ChainTypeOK', TimelineInv, Effect
    PROVE  TimelineInv'
<1>0. InOrder(<<>>)
  BY DEF InOrder
<1>1. CASE UNCHANGED <<config, windows>> /\ Coming' \subseteq Coming
  BY <1>1 DEF TimelineInv, Registered, Recorded
<1>2. ASSUME NEW m \in Results, Notified(m) PROVE TimelineInv'
  <2>1. m.seq \in Coming /\ m.seq \in Windows /\ m.seq \in Nat
    BY DEF Coming, Results, ChainTypeOK, Report, Windows
  <2>2. config # "new"
    BY <2>1 DEF TimelineInv
  <2>3. CASE ~Registered
    <3>1. config = "gone" /\ config' = "gone" /\ windows' = windows
      BY <1>2, <2>2, <2>3 DEF Notified, Registered, ChainTypeOK, Config
    <3>2. QED
      BY <3>1 DEF TimelineInv, Registered
  <2>4. CASE Registered
    <3>1. windows' = Append(windows, RecordOf(m)) /\ config' = config
      BY <1>2, <2>4 DEF Notified
    <3>2. RecordOf(m) \in Record /\ RecordOf(m).seq = m.seq
      BY <2>1 DEF RecordOf, Record
    <3>3. \A v \in Windows : v < m.seq => \E j \in 1..Len(windows) : windows[j].seq = v
      BY <2>1, <2>4 DEF TimelineInv, Recorded
    <3>4. InOrder(windows') /\ Recorded' = Recorded \cup {m.seq}
      <4>1. windows \in Seq(Record) /\ InOrder(windows)
        BY DEF TimelineInv, ChainTypeOK
      <4>2. PICK r \in Record : r = RecordOf(m)
        BY <3>2
      <4>3. /\ InOrder(Append(windows, r))
            /\ {Append(windows, r)[i].seq : i \in 1..Len(Append(windows, r))}
                  = {windows[i].seq : i \in 1..Len(windows)} \cup {r.seq}
        BY <3>2, <3>3, <4>1, <4>2, AppendInOrder
      <4>4. QED
        BY <3>1, <3>2, <4>2, <4>3 DEF Recorded
    <3>5. \A w \in Coming' : \A v \in Windows : v < w => v \in Recorded'
      <4>1. ASSUME NEW w \in Coming, NEW v \in Windows, v < w PROVE v \in Recorded'
        BY <2>4, <3>4, <4>1 DEF TimelineInv
      <4>2. ASSUME NEW v \in Windows, v < m.seq + 1 PROVE v \in Recorded'
        <5>1. v < m.seq \/ v = m.seq
          BY <2>1, <4>2 DEF Windows
        <5>2. QED
          BY <2>1, <3>4, <4>1, <5>1
      <4>3. QED
        BY <1>2, <4>1, <4>2 DEF Notified
    <3>6. QED
      BY <2>4, <3>1, <3>4, <3>5 DEF TimelineInv, Registered
  <2>5. QED BY <2>3, <2>4
<1>3. CASE Registered /\ config' = "gone" /\ windows' = <<>> /\ Coming' \subseteq Coming
  BY <1>0, <1>3 DEF TimelineInv, Registered
<1>4. CASE Registered /\ config' = "stopped" /\ windows' = windows /\ Coming' \subseteq Coming
  BY <1>4 DEF TimelineInv, Registered, Recorded
<1>5. CASE config = "new" /\ config' = "running" /\ windows' = <<>> /\ Coming' \subseteq Coming \cup {0}
  <2>1. \A w \in Coming' : w = 0
    BY <1>5 DEF TimelineInv
  <2>2. \A v \in Windows : ~(v < 0)
    BY DEF Windows
  <2>3. QED
    BY <1>0, <1>5, <2>1, <2>2 DEF TimelineInv, Registered
<1>6. QED
  BY <1>1, <1>2, <1>3, <1>4, <1>5 DEF Effect

\* In a timeline that grows in order there is no gap.
LEMMA InOrderNoGap ==
    ASSUME ChainTypeOK, TimelineInv
    PROVE  NoGapInTimeline
<1> SUFFICES ASSUME NEW i \in 1..Len(windows), NEW v \in 0..(windows[i].seq)
             PROVE  v \in Recorded
  BY DEF NoGapInTimeline, Recorded
<1>0. windows[i] \in Record
  BY DEF ChainTypeOK
<1>1. windows[i].seq \in Windows
  BY <1>0 DEF Record
<1>2. v \in Windows /\ (v < windows[i].seq \/ v = windows[i].seq)
  BY <1>1 DEF Windows
<1>3. QED
  BY <1>2 DEF TimelineInv, InOrder, Recorded

-----------------------------------------------------------------------------
(* One window at a time.                                                   *)

\* Without repeated reports there is one place for the one window under way.
OnePlace ==
    "duplicate" \notin Faults =>
        /\ Len(queue) <= 1 /\ Len(received) <= 1
        /\ queue # <<>> => received = <<>> /\ running = {} /\ Results = {}
        /\ received # <<>> => running = {} /\ Results = {}
        /\ running # {} => Results = {}
        /\ \A m \in Results : reports[m] = 1 /\ \A k \in Results : k = m

\* One place means at most one window under way.
LEMMA OnePlaceAlive ==
    ASSUME ChainTypeOK, OnePlace
    PROVE  OneWindowAtATime
<1> SUFFICES ASSUME "duplicate" \notin Faults PROVE Cardinality(UnderWay) <= 1
  BY DEF OneWindowAtATime, Alive
<1> USE DEF OnePlace
<1>1. \E x : UnderWay \subseteq {x}
  <2>0. Len(queue) \in Nat /\ Len(received) \in Nat
    BY DEF ChainTypeOK
  <2>1. CASE queue # <<>>
    <3>1. 1..Len(queue) = {1} /\ 1..Len(received) = {} /\ running = {} /\ Results = {}
      BY <2>0, <2>1 DEF ChainTypeOK
    <3>2. UnderWay = {"queued"} \X {1}
      BY <3>1 DEF UnderWay
    <3>3. QED
      BY <3>2
  <2>2. CASE queue = <<>> /\ received # <<>>
    <3>1. 1..Len(queue) = {} /\ 1..Len(received) = {1} /\ running = {} /\ Results = {}
      BY <2>0, <2>2 DEF ChainTypeOK
    <3>2. UnderWay = {"received"} \X {1}
      BY <3>1 DEF UnderWay
    <3>3. QED
      BY <3>2
  <2>3. CASE queue = <<>> /\ received = <<>> /\ running # {}
    <3>1. 1..Len(queue) = {} /\ 1..Len(received) = {} /\ Results = {}
      BY <2>0, <2>3
    <3>2. PICK w \in Windows : running \subseteq {w}
      BY DEF ChainTypeOK
    <3>3. UnderWay = {"running"} \X running
      BY <3>1 DEF UnderWay
    <3>4. QED
      BY <3>2, <3>3
  <2>4. CASE queue = <<>> /\ received = <<>> /\ running = {}
    <3>1. 1..Len(queue) = {} /\ 1..Len(received) = {}
      BY <2>0, <2>4
    <3>2. PICK m : Results \subseteq {m} /\ \A k \in Results : reports[k] = 1
      OBVIOUS
    <3>3. UnderWay \subseteq {<<"reported", m, 1>>}
      <4>1. ASSUME NEW x \in UnderWay PROVE x = <<"reported", m, 1>>
        <5>1. PICK k \in Results : x \in {"reported"} \X {k} \X (1..reports[k])
          BY <2>4, <3>1 DEF UnderWay
        <5>2. k = m /\ 1..reports[k] = {1}
          BY <3>2
        <5>3. QED
          BY <5>1, <5>2
      <4>2. QED BY <4>1
    <3>4. QED BY <3>3
  <2>5. QED BY <2>1, <2>2, <2>3, <2>4
<1>2. PICK x : UnderWay \subseteq {x}
  BY <1>1
<1>3. IsFiniteSet({x}) /\ Cardinality({x}) = 1
  BY FS_Singleton
<1>4. Cardinality(UnderWay) <= Cardinality({x})
  BY <1>2, <1>3, FS_Subset
<1>5. QED
  BY <1>3, <1>4

\* Lengths: none is 0, and at most one but not none is 1.
LEMMA SmallLength ==
    ASSUME NEW n \in Nat
    PROVE  /\ 1..n = {} => n = 0
           /\ n <= 1 /\ n # 0 => n = 1
OBVIOUS

\* The empty sequence is the one of length 0.
LEMMA EmptySeq ==
    ASSUME NEW T, NEW s \in Seq(T)
    PROVE  (s = <<>>) <=> (Len(s) = 0)
OBVIOUS

\* A window moves on, is repeated by nobody, and is followed by at most one.
LEMMA OnePlaceStep ==
    ASSUME ChainTypeOK, TimelineInv, OnePlace, ChainStep
    PROVE  OnePlace'
<1> SUFFICES ASSUME "duplicate" \notin Faults' PROVE OnePlace'
  BY DEF OnePlace
<1>0. /\ world' = world /\ Faults' = Faults /\ "duplicate" \notin Faults
      /\ Len(queue) \in Nat /\ Len(received) \in Nat
  BY DEF ChainStep, Faults, ChainTypeOK
<1>b. /\ (queue = <<>>) <=> (Len(queue) = 0)
      /\ (received = <<>>) <=> (Len(received) = 0)
  BY EmptySeq DEF ChainTypeOK
<1>a. /\ Len(queue) <= 1 /\ Len(received) <= 1
      /\ queue # <<>> => received = <<>> /\ running = {} /\ Results = {}
      /\ received # <<>> => running = {} /\ Results = {}
      /\ running # {} => Results = {}
      /\ \A m \in Results : reports[m] = 1 /\ \A k \in Results : k = m
  BY <1>0 DEF OnePlace
<1>1. ASSUME NEW ok \in BOOLEAN, StartContinuousTask(ok) PROVE OnePlace'
  <2>1. Coming = {} /\ Results = {} /\ running = {}
    BY <1>1 DEF StartContinuousTask, TimelineInv, Coming
  <2>2. queue = <<>> /\ received = <<>>
    <3>1. Elements(queue) = {} /\ Elements(received) = {}
      BY <2>1 DEF Coming
    <3>2. 1..Len(queue) = {} /\ 1..Len(received) = {}
      BY <3>1 DEF Elements
    <3>3. Len(queue) = 0 /\ Len(received) = 0
      BY <1>0, <3>2, SmallLength
    <3>4. QED
      BY <1>b, <3>3
  <2>3. queue' = <<>> \/ queue' = <<0>>
    BY <1>1, <2>2 DEF StartContinuousTask
  <2>4. received' = <<>> /\ running' = {} /\ Results' = {}
    BY <1>1, <2>1, <2>2 DEF StartContinuousTask, Results
  <2>5. Len(queue') <= 1 /\ Len(received') <= 1
    BY <2>3, <2>4
  <2>6. QED
    BY <2>4, <2>5 DEF OnePlace
<1>2. CASE StopContinuousTask
  BY <1>2, <1>a DEF StopContinuousTask, OnePlace, Results
<1>3. ASSUME NEW arrives \in BOOLEAN, PopTask(arrives) PROVE OnePlace'
  <2>1. /\ queue # <<>> /\ queue' = Tail(queue)
        /\ received' = received \/ received' = Append(received, Head(queue))
        /\ UNCHANGED <<running, reports>>
    BY <1>3 DEF PopTask
  <2>2. Len(queue) = 1 /\ received = <<>> /\ running = {} /\ Results = {}
    <3>1. Len(queue) # 0 /\ received = <<>> /\ running = {} /\ Results = {}
      BY <1>a, <1>b, <2>1
    <3>2. QED
      BY <1>0, <1>a, <3>1, SmallLength
  <2>3. Len(queue') = 0 /\ queue' = <<>>
    <3>1. Tail(queue) \in Seq(Windows) /\ Len(Tail(queue)) = Len(queue) - 1
      BY <2>1, ElementsTail DEF ChainTypeOK
    <3>2. QED
      BY <2>1, <2>2, <3>1
  <2>4. Len(received') <= 1
    <3>1. Head(queue) \in Windows
      BY <2>1, ElementsTail DEF ChainTypeOK
    <3>2. Len(Append(received, Head(queue))) = Len(received) + 1
      BY <3>1, ElementsAppend DEF ChainTypeOK
    <3>3. QED
      BY <1>0, <1>a, <2>1, <2>2, <3>2
  <2>5. Results' = {} /\ running' = {}
    BY <2>1, <2>2 DEF Results
  <2>6. QED
    BY <2>3, <2>4, <2>5 DEF OnePlace
<1>4. ASSUME NEW n \in 0..MaxCopies, BeginWindow(n) PROVE OnePlace'
  <2>1. /\ received # <<>> /\ running = {} /\ received' = Tail(received) /\ queue' = queue
        /\ reports' = reports (+) Copies([seq |-> Head(received), body |-> "RUNNING"], n)
    BY <1>4 DEF BeginWindow
  <2>2. queue = <<>> /\ Results = {} /\ Len(received) = 1
    <3>1. queue = <<>> /\ Results = {} /\ Len(received) # 0
      BY <1>a, <1>b, <2>1
    <3>2. QED
      BY <1>0, <1>a, <3>1, SmallLength
  <2>3. Len(received') = 0 /\ received' = <<>>
    <3>1. Tail(received) \in Seq(Windows) /\ Len(Tail(received)) = Len(received) - 1
      BY <2>1, ElementsTail DEF ChainTypeOK
    <3>2. QED
      BY <2>1, <2>2, <3>1
  <2>4. Results' = {}
    <3>1. n \in Nat /\ "RUNNING" \notin WResult
      BY DEF WResult
    <3>2. PICK m : m.body = "RUNNING" /\ reports' = reports (+) Copies(m, n)
      BY <2>1
    <3>3. BagToSet(reports') \subseteq BagToSet(reports) \cup {m}
      BY <3>1, <3>2, BagAdd DEF ChainTypeOK
    <3>4. QED
      BY <2>2, <3>1, <3>2, <3>3 DEF Results
  <2>5. QED
    BY <1>0, <2>1, <2>2, <2>3, <2>4 DEF OnePlace
<1>5. ASSUME NEW n \in 0..MaxCopies, NEW w \in running, NEW r \in WResult, EndWindow(w, r, n)
      PROVE  OnePlace'
  <2>1. /\ running' = {} /\ UNCHANGED <<queue, received>>
        /\ reports' = reports (+) Copies([seq |-> w, body |-> r], n)
        /\ n \in Nat /\ n <= 1
    BY <1>0, <1>5 DEF EndWindow, Attempts
  <2>2. queue = <<>> /\ received = <<>> /\ Results = {}
    BY <1>a
  <2>3. PICK m : m.body \in WResult /\ reports' = reports (+) Copies(m, n)
    BY <2>1
  <2>4. m \notin BagToSet(reports)
    BY <2>2, <2>3 DEF Results
  <2>5. /\ BagToSet(reports') = BagToSet(reports) \cup (IF n = 0 THEN {} ELSE {m})
        /\ n > 0 => reports'[m] = n
    BY <2>1, <2>3, <2>4, BagAdd DEF ChainTypeOK
  <2>6. \A k \in Results' : k = m /\ n > 0
    BY <2>1, <2>2, <2>5 DEF Results
  <2>7. \A k \in Results' : reports'[k] = 1 /\ k = m
    BY <2>1, <2>5, <2>6
  <2>8. Len(queue') <= 1 /\ Len(received') <= 1
    BY <1>a, <2>1
  <2>9. QED
    BY <2>1, <2>2, <2>7, <2>8 DEF OnePlace
<1>6. CASE AgentCrash
  BY <1>6, <1>a DEF AgentCrash, OnePlace, Results
<1>7. ASSUME NEW m \in BagToSet(reports), UpdateTaskStatus(m) PROVE OnePlace'
  <2>1. /\ reports' = reports (-) SetToBag({m}) /\ UNCHANGED <<queue, received, running>>
        /\ m.body \notin WResult
    BY <1>7 DEF UpdateTaskStatus, WResult
  <2>2. \A k \in Results' : k \in Results /\ reports'[k] = reports[k]
    BY <2>1, BagRemove DEF Results, ChainTypeOK
  <2>3. QED
    BY <1>a, <2>1, <2>2 DEF OnePlace
<1>8. ASSUME NEW m \in BagToSet(reports), NEW ok \in BOOLEAN, NotifyResult(m, ok) PROVE OnePlace'
  <2>1. /\ reports' = reports (-) SetToBag({m}) /\ UNCHANGED <<received, running>>
        /\ m \in Results
        /\ queue' = queue \/ (m.seq < world.last /\ queue' = Append(queue, m.seq + 1))
    BY <1>8 DEF NotifyResult, ServeResult, Results
  <2>2. queue = <<>> /\ received = <<>> /\ running = {} /\ reports[m] = 1
    BY <1>a, <2>1
  <2>3. Results' = {}
    BY <1>a, <2>1, <2>2, BagRemove, ZenonT(60) DEF Results, ChainTypeOK
  <2>4. Len(queue') <= 1
    <3>1. m.seq < world.last => m.seq + 1 \in Windows
      <4>1. m.seq \in Windows /\ world.last \in Windows
        BY DEF ChainTypeOK, Report
      <4>2. QED
        BY <4>1 DEF Windows
    <3>2. m.seq < world.last => Len(Append(queue, m.seq + 1)) = Len(queue) + 1
      BY <3>1, ElementsAppend DEF ChainTypeOK
    <3>3. Len(queue) = 0
      BY <1>b, <2>2
    <3>4. QED
      BY <1>a, <2>1, <3>2, <3>3
  <2>5. QED
    BY <1>a, <2>1, <2>2, <2>3, <2>4 DEF OnePlace
<1>9. ASSUME NEW w \in Windows, Waits(w) PROVE OnePlace'
  BY <1>9, <1>a DEF Waits, OnePlace, Results
<1>10. CASE CleanupTimeoutTasks
  <2>1. Len(queue') <= Len(queue) /\ queue' \in Seq(Windows)
    BY <1>0, <1>10, CleanupStep DEF ChainTypeOK
  <2>2. queue = <<>> => queue' = <<>>
    BY <1>0, <2>1
  <2>3. UNCHANGED <<received, running, reports>>
    BY <1>10 DEF CleanupTimeoutTasks
  <2>4. Len(queue') <= 1
    BY <1>0, <1>a, <2>1
  <2>5. QED
    BY <1>a, <2>2, <2>3, <2>4 DEF OnePlace, Results
<1>11. CASE ServerRestart
  BY <1>11, <1>a DEF ServerRestart, OnePlace, Results
<1>12. QED
  BY <1>1, <1>2, <1>3, <1>4, <1>5, <1>6, <1>7, <1>8, <1>9, <1>10, <1>11
     DEF ChainStep, DropStep, Worker, Served

-----------------------------------------------------------------------------
(* The chain inside the whole specification.                               *)

ChainInv == ChainTypeOK /\ TimelineInv /\ OnePlace

\* The chain begins with nothing under way and nothing recorded.
LEMMA InitChainInv == ChainInit => ChainInv
<1> SUFFICES ASSUME ChainInit PROVE ChainInv
  OBVIOUS
<1>1. /\ config = "new" /\ queue = <<>> /\ received = <<>> /\ windows = <<>>
      /\ running = {} /\ reports = EmptyBag
  BY DEF ChainInit
<1>2. BagToSet(reports) = {} /\ IsABag(reports)
  BY <1>1 DEF EmptyBag, SetToBag, BagToSet, IsABag
<1>3. Results = {}
  BY <1>2 DEF Results
<1>4. Elements(queue) = {} /\ Elements(received) = {}
  BY <1>1 DEF Elements
<1>5. 0 \in Windows
  BY DEF Windows
<1>6. ChainTypeOK
  BY <1>1, <1>2, <1>5 DEF ChainInit, ChainTypeOK, Config, WState
<1>7. TimelineInv
  BY <1>1, <1>3, <1>4 DEF TimelineInv, InOrder, Registered, Coming
<1>8. OnePlace
  BY <1>1, <1>3 DEF OnePlace
<1>9. QED BY <1>6, <1>7, <1>8 DEF ChainInv

\* A step of the whole is one of the continuous task or leaves it alone ...
LEMMA StepIsSyncStep ==
    [ContinuousTask \/ SchedulesOfUsers]_longVars => [SyncStep]_syncAll
BY DEF ContinuousTask, SchedulesOfUsers, longVars

\* ... and a step of that is one of the chain or leaves the chain alone.
LEMMA SyncStepIsChainStep == [SyncStep]_syncAll => [ChainStep]_chainVars
BY DEF SyncStep, syncAll, CreateContinuous, StopContinuous, ChainStep

\* A step that leaves the chain alone keeps its invariant.
LEMMA ChainInvStutter ==
    ASSUME ChainInv, UNCHANGED chainVars
    PROVE  ChainInv'
<1>1. UNCHANGED <<Results, Coming, Recorded, Registered, Faults>>
  BY DEF chainVars, Results, Coming, Recorded, Registered, Faults, Elements
<1>2. ChainTypeOK'
  BY DEF ChainInv, chainVars, ChainTypeOK
<1>3. TimelineInv'
  BY <1>1 DEF ChainInv, chainVars, TimelineInv
<1>4. OnePlace'
  BY <1>1 DEF ChainInv, chainVars, OnePlace
<1>5. QED BY <1>2, <1>3, <1>4 DEF ChainInv

\* The invariant of the chain is inductive.
LEMMA NextChainInv == ChainInv /\ [ChainStep]_chainVars => ChainInv'
<1>1. ASSUME ChainInv, ChainStep PROVE ChainInv'
  BY <1>1, ChainStepEffect, EffectTimeline, OnePlaceStep DEF ChainInv
<1>2. QED BY <1>1, ChainInvStutter

\* It holds in every state of the whole specification.
LEMMA ChainInvHolds == Spec => []ChainInv
<1>1. Init => ChainInv
  BY InitChainInv DEF Init
<1>2. ChainInv /\ [ContinuousTask \/ SchedulesOfUsers]_longVars => ChainInv'
  BY StepIsSyncStep, SyncStepIsChainStep, NextChainInv
<1>3. QED
  BY <1>1, <1>2, PTL DEF Spec

\* With a window all those before it are recorded: NotifyResult appends the
\* records in order, however reports are lost, repeated, late or refused.
THEOREM TimelineHasNoGap == Spec => []NoGapInTimeline
<1>1. ChainInv => NoGapInTimeline
  BY InOrderNoGap DEF ChainInv
<1>2. QED BY <1>1, ChainInvHolds, PTL

\* A target never has two windows of one continuous task under way unless a
\* report is served twice: NotifyResult is the only source of windows after
\* StartContinuousTask, and it uses a result up for each.
THEOREM WindowsOneByOne == Spec => []OneWindowAtATime
<1>1. ChainInv => OneWindowAtATime
  BY OnePlaceAlive DEF ChainInv
<1>2. QED BY <1>1, ChainInvHolds, PTL

\* After StopContinuousTask a result that arrives is recorded and begins no
\* window, so that none appears that was not known.
THEOREM StoppedStaysStopped == Spec => NothingNewOnceStopped
<1> DEFINE A == config = "stopped" => Known' \subseteq Known
<1>1. ChainInv /\ ChainStep /\ config = "stopped" => Known' \subseteq Known
  <2> SUFFICES ASSUME ChainInv, ChainStep, config = "stopped" PROVE Known' \subseteq Known
    OBVIOUS
  <2>1. ChainTypeOK /\ Effect
    BY ChainStepEffect DEF ChainInv
  <2>2. CASE UNCHANGED <<config, windows>> /\ Coming' \subseteq Coming
    BY <2>2 DEF Known, Recorded
  <2>3. ASSUME NEW m \in Results, Notified(m) PROVE Known' \subseteq Known
    <3>1. Coming' \subseteq Coming /\ m.seq \in Coming /\ m.seq \in Windows
      BY <2>1, <2>3 DEF Notified, Coming, Results, ChainTypeOK, Report
    <3>2. windows' = Append(windows, RecordOf(m)) /\ RecordOf(m) \in Record
      BY <2>3, <3>1 DEF Notified, Registered, RecordOf, Record
    <3>3. RecordOf(m).seq = m.seq
      BY DEF RecordOf
    <3>4. Recorded' \subseteq Recorded \cup {m.seq}
      <4>1. windows \in Seq(Record) /\ Len(windows) \in Nat
        BY <2>1 DEF ChainTypeOK
      <4>2. /\ Len(windows') = Len(windows) + 1
            /\ windows'[Len(windows) + 1] = RecordOf(m)
            /\ \A i \in 1..Len(windows) : windows'[i] = windows[i]
        BY <3>2, <4>1
      <4>3. 1..(Len(windows) + 1) = (1..Len(windows)) \cup {Len(windows) + 1}
        BY <4>1
      <4>4. QED
        BY <3>3, <4>2, <4>3 DEF Recorded
    <3>5. QED
      BY <3>1, <3>4 DEF Known
  <2>4. CASE windows' = <<>> /\ Coming' \subseteq Coming
    BY <2>4 DEF Known, Recorded
  <2>5. CASE windows' = windows /\ Coming' \subseteq Coming
    BY <2>5 DEF Known, Recorded
  <2>6. QED
    BY <2>1, <2>2, <2>3, <2>4, <2>5 DEF Effect
<1>2. ChainInv /\ [ContinuousTask \/ SchedulesOfUsers]_longVars => [A]_chainVars
  BY <1>1, StepIsSyncStep, SyncStepIsChainStep
<1>3. QED
  BY <1>2, ChainInvHolds, PTL DEF Spec, NothingNewOnceStopped

-----------------------------------------------------------------------------
(* The API server's copy of the timeline.                                  *)

\* A parent that has ended, or whose end is about to be written, is stopped.
EndedInv ==
    parent = "SUCCESS" \/ "stop" \in pending => config \in {"stopped", "gone"}

\* The windows before those of a list have a row or are listed earlier.
Covered(todo) ==
    \A i \in 1..Len(todo) : \A v \in Windows :
        v < todo[i].seq =>
            wrow[v] # NONE \/ \E j \in 1..Len(todo) : j < i /\ todo[j].seq = v

\* A request that is at a window has those before it in the table, and past
\* WriteWindow the window itself.
RequestInv(c) ==
    sync[c].at # "idle" =>
        /\ sync[c].todo # <<>>
        /\ Covered(sync[c].todo)
        /\ sync[c].at \in {"child", "ensure"} => wrow[Now(c).seq] # NONE

SyncInv ==
    /\ SyncTypeOK /\ EndedInv /\ NoGapInTable
    /\ \A c \in Callers : RequestInv(c)

\* What a request knows of the window it is at.
Progress == [at : {"idle", "window", "write", "child", "ensure"}, todo : Seq(Record),
             prev : {NONE, "done", "failed"}, seen : {NONE, "PENDING", "analysed"}]

\* A request before and at the beginning of its work ...
LEMMA ProgressBegins ==
    /\ Idle \in Progress
    /\ \A t \in Seq(Record) :
          LET q == [Idle EXCEPT !.at = "window", !.todo = t]
          IN  q \in Progress /\ q.at = "window" /\ q.todo = t
<1>1. Idle \in Progress
  BY DEF Progress, Idle
<1>2. ASSUME NEW t \in Seq(Record)
      PROVE  LET q == [Idle EXCEPT !.at = "window", !.todo = t]
             IN  q \in Progress /\ q.at = "window" /\ q.todo = t
  BY DEF Progress, Idle
<1>3. QED BY <1>1, <1>2

\* ... when it has read the window ...
LEMMA ProgressReadsWindow ==
    ASSUME sync \in [Callers -> Progress], NEW c \in Callers, NEW x \in {NONE, "done", "failed"},
           NEW q, q = [sync EXCEPT ![c].at = "write", ![c].prev = x]
    PROVE  q \in [Callers -> Progress] /\ q[c].todo = sync[c].todo /\ q[c].at = "write"
BY ZenonT(60) DEF Progress

\* ... and the child.
LEMMA ProgressReadsChild ==
    ASSUME sync \in [Callers -> Progress], NEW c \in Callers,
           NEW x \in {NONE, "PENDING", "analysed"},
           NEW q, q = [sync EXCEPT ![c].at = "ensure", ![c].seen = x]
    PROVE  q \in [Callers -> Progress] /\ q[c].todo = sync[c].todo /\ q[c].at = "ensure"
BY ZenonT(60) DEF Progress

\* The list of a request that is not idle begins with a window of the timeline.
LEMMA NowIsRecord ==
    ASSUME NEW c \in Callers, sync[c].todo \in Seq(Record), sync[c].todo # <<>>
    PROVE  Now(c) \in Record /\ Now(c).seq \in Windows
<1>1. Now(c) \in Record
  BY ElementsTail DEF Now
<1>2. QED BY <1>1 DEF Record

\* Rows of windows are never deleted, so that what a request relies on stays.
LEMMA RequestKept ==
    ASSUME SyncInv, \A v \in Windows : wrow[v] # NONE => wrow'[v] # NONE,
           NEW c \in Callers, sync'[c] = sync[c]
    PROVE  RequestInv(c)'
<1>1. ASSUME sync[c].at # "idle" PROVE RequestInv(c)'
  <2>1. /\ sync[c].todo # <<>> /\ sync[c].todo \in Seq(Record)
        /\ Covered(sync[c].todo)
        /\ sync[c].at \in {"child", "ensure"} => wrow[Now(c).seq] # NONE
    BY <1>1 DEF SyncInv, RequestInv, SyncTypeOK
  <2>2. Covered(sync[c].todo)'
    BY <2>1 DEF Covered
  <2>3. Now(c).seq \in Windows
    BY <2>1, NowIsRecord
  <2>4. QED
    BY <2>1, <2>2, <2>3 DEF RequestInv, Now
<1>2. QED
  BY <1>1 DEF RequestInv

\* A step of the chain.  Only StartContinuousTask leads out of neither being
\* stopped nor forgotten.
LEMMA ConfigEffect ==
    ASSUME ChainTypeOK, [ChainStep]_chainVars, config \in {"stopped", "gone"}
    PROVE  config' \in {"stopped", "gone"}
<1>1. CASE ChainStep
  BY <1>1, ChainStepEffect DEF Effect, Notified, Registered
<1>2. QED BY <1>1 DEF chainVars

\* Steps of the chain alone, and those of the handlers that start and stop it.
LEMMA ChainSyncInv ==
    ASSUME SyncInv, ChainInv, [ChainStep]_chainVars,
           UNCHANGED <<parent, wrow, child, sync, jobs, marked, crashed>>,
           pending' \subseteq {"create", "stop"},
           "stop" \in pending' => "stop" \in pending \/ config' = "stopped"
    PROVE  SyncInv'
<1>1. ChainTypeOK'
  BY NextChainInv DEF ChainInv
<1>2. SyncTypeOK'
  BY <1>1 DEF SyncInv, SyncTypeOK
<1>3. EndedInv'
  BY ConfigEffect DEF SyncInv, SyncTypeOK, EndedInv
<1>4. NoGapInTable'
  BY DEF SyncInv, NoGapInTable
<1>5. QED
  BY <1>2, <1>3, <1>4, RequestKept DEF SyncInv

\* The rows of the parent and of the children, and the analyses.
LEMMA RowsSyncInv ==
    ASSUME SyncInv, UNCHANGED chainVars,
           InsertParent \/ StopRecorded \/ DeleteParent
           \/ \E w \in Windows : AnalysisMarks(w) \/ DeleteChild(w)
    PROVE  SyncInv'
<1>0. UNCHANGED <<wrow, sync>>
  BY DEF InsertParent, StopRecorded, DeleteParent, AnalysisMarks, DeleteChild
<1>1. ChainTypeOK' /\ config' = config
  BY DEF SyncInv, SyncTypeOK, ChainTypeOK, chainVars
<1>2. SyncTypeOK'
  BY <1>0, <1>1, ZenonT(60) DEF SyncInv, SyncTypeOK, InsertParent, StopRecorded, DeleteParent,
                    AnalysisMarks, DeleteChild
<1>3. EndedInv'
  BY <1>1 DEF SyncInv, SyncTypeOK, EndedInv, InsertParent, StopRecorded, DeleteParent,
              AnalysisMarks, DeleteChild
<1>4. NoGapInTable'
  BY <1>0 DEF SyncInv, NoGapInTable
<1>5. QED
  BY <1>0, <1>2, <1>3, <1>4, RequestKept DEF SyncInv

\* A crash of the API server ends the requests.
LEMMA CrashSyncInv ==
    ASSUME SyncInv, UNCHANGED chainVars, APICrash
    PROVE  SyncInv'
<1>1. ChainTypeOK' /\ config' = config
  BY DEF SyncInv, SyncTypeOK, ChainTypeOK, chainVars
<1>2. Idle \in Progress
  BY ProgressBegins
<1>3. SyncTypeOK'
  BY <1>1, <1>2 DEF SyncInv, SyncTypeOK, APICrash, Progress
<1>4. EndedInv' /\ NoGapInTable'
  BY <1>1 DEF SyncInv, EndedInv, NoGapInTable, APICrash
<1>5. \A c \in Callers : RequestInv(c)'
  BY DEF APICrash, RequestInv, Idle
<1>6. QED
  BY <1>3, <1>4, <1>5 DEF SyncInv

\* The steps of a request that write no row of a window.
LEMMA ReadSyncInv ==
    ASSUME SyncInv, ChainInv, UNCHANGED chainVars, NEW c \in Callers,
           ListWindows(c) \/ ReadWindow(c) \/ ReadChild(c)
    PROVE  SyncInv'
<1>1. ChainTypeOK' /\ config' = config
  BY DEF SyncInv, SyncTypeOK, ChainTypeOK, chainVars
<1>2. UNCHANGED <<parent, pending, wrow, child, jobs, marked, crashed>>
  BY DEF ListWindows, ReadWindow, ReadChild
<1>s. sync \in [Callers -> Progress]
  BY DEF SyncInv, SyncTypeOK, Progress
<1>3. sync' \in [Callers -> Progress] /\ RequestInv(c)'
  <2>1. CASE ListWindows(c)
    <3>1. windows \in Seq(Record) /\ windows # <<>> /\ InOrder(windows)
      BY <2>1 DEF ListWindows, ChainInv, ChainTypeOK, TimelineInv
    <3>2. PICK q \in Progress : /\ sync' = [sync EXCEPT ![c] = q]
                                /\ q.at = "window" /\ q.todo = windows
      BY <2>1, <3>1, ProgressBegins DEF ListWindows
    <3>3. sync' \in [Callers -> Progress] /\ sync'[c] = q
      BY <1>s, <3>2
    <3>4. sync'[c].todo = windows /\ sync'[c].at = "window"
      BY <3>2, <3>3
    <3>5. Covered(sync[c].todo)'
      BY <3>1, <3>4 DEF Covered, InOrder
    <3>6. QED
      BY <3>1, <3>3, <3>4, <3>5 DEF RequestInv
  <2>2. CASE ReadWindow(c)
    <3>1. sync[c].todo # <<>> /\ Covered(sync[c].todo) /\ sync[c].todo \in Seq(Record)
      BY <2>2 DEF ReadWindow, SyncInv, SyncTypeOK, RequestInv
    <3>2. wrow[Now(c).seq] \in {NONE, "done", "failed"}
      BY <3>1, NowIsRecord DEF SyncInv, SyncTypeOK
    <3>3. sync' = [sync EXCEPT ![c].at = "write", ![c].prev = wrow[Now(c).seq]]
      BY <2>2 DEF ReadWindow
    <3>4. sync' \in [Callers -> Progress] /\ sync'[c].todo = sync[c].todo
      BY <1>s, <3>2, <3>3, ProgressReadsWindow, ZenonT(60)
    <3>5. sync'[c].at = "write"
      BY <1>s, <3>2, <3>3, ProgressReadsWindow
    <3>6. QED
      BY <1>2, <3>1, <3>4, <3>5 DEF RequestInv, Covered
  <2>3. CASE ReadChild(c)
    <3> DEFINE x == CASE child[Now(c).seq] \in {NONE, "deleted"} -> NONE
                      [] Now(c).seq \in marked -> "analysed"
                      [] OTHER -> "PENDING"
    <3>0. sync' = [sync EXCEPT ![c].at = "ensure", ![c].seen = x]
      BY <2>3 DEF ReadChild
    <3>1. x \in {NONE, "PENDING", "analysed"}
      OBVIOUS
    <3> HIDE DEF x
    <3>2. sync' \in [Callers -> Progress] /\ sync'[c].todo = sync[c].todo
      BY <1>s, <3>0, <3>1, ProgressReadsChild, ZenonT(60)
    <3>3. /\ sync[c].todo # <<>> /\ Covered(sync[c].todo)
          /\ wrow[Now(c).seq] # NONE
      BY <2>3 DEF ReadChild, SyncInv, RequestInv
    <3>4. QED
      BY <1>2, <3>2, <3>3 DEF RequestInv, Covered, Now
  <2>4. QED BY <2>1, <2>2, <2>3
<1>4. EndedInv' /\ NoGapInTable'
  BY <1>1, <1>2 DEF SyncInv, EndedInv, NoGapInTable
<1>5. \A d \in Callers \ {c} : sync'[d] = sync[d]
  BY DEF ListWindows, ReadWindow, ReadChild, SyncInv, SyncTypeOK
<1>6. SyncTypeOK'
  BY <1>1, <1>2, <1>3 DEF SyncInv, SyncTypeOK, Progress
<1>7. QED
  BY <1>2, <1>3, <1>4, <1>5, <1>6, RequestKept DEF SyncInv

\* The row of a window is written: those before it are there.
LEMMA WriteSyncInv ==
    ASSUME SyncInv, UNCHANGED chainVars, NEW c \in Callers, WriteWindow(c)
    PROVE  SyncInv'
<1>1. ChainTypeOK' /\ config' = config
  BY DEF SyncInv, SyncTypeOK, ChainTypeOK, chainVars
<1>2. /\ UNCHANGED <<parent, pending, child, jobs, marked, crashed>>
      /\ sync[c].at = "write" /\ sync' = [sync EXCEPT ![c].at = "child"]
  BY DEF WriteWindow
<1>3. /\ sync[c].todo \in Seq(Record) /\ sync[c].todo # <<>> /\ Covered(sync[c].todo)
  BY <1>2 DEF SyncInv, SyncTypeOK, RequestInv
<1> DEFINE w == Now(c)
<1>4. /\ w \in Record /\ w = sync[c].todo[1] /\ 1 \in 1..Len(sync[c].todo)
      /\ \A j \in 1..Len(sync[c].todo) : ~(j < 1)
  BY <1>3 DEF Now
<1>5. w.seq \in Windows /\ w.status \in {"done", "failed"}
  BY <1>4 DEF Record
<1>6. (wrow' = wrow /\ wrow[w.seq] # NONE) \/ wrow' = [wrow EXCEPT ![w.seq] = w.status]
  BY DEF WriteWindow
<1>7. \A v \in Windows : v < w.seq => wrow[v] # NONE
  BY <1>3, <1>4 DEF Covered
<1> HIDE DEF w
<1>8. wrow' \in [Windows -> {NONE, "done", "failed"}]
  BY <1>5, <1>6 DEF SyncInv, SyncTypeOK
<1>9. /\ wrow'[w.seq] # NONE
      /\ \A v \in Windows : wrow[v] # NONE => wrow'[v] # NONE
      /\ \A v \in Windows \ {w.seq} : wrow'[v] = wrow[v]
  BY <1>5, <1>6 DEF SyncInv, SyncTypeOK
<1>10. /\ SyncTypeOK'
       /\ sync'[c].todo = sync[c].todo /\ sync'[c].at = "child"
       /\ \A d \in Callers \ {c} : sync'[d] = sync[d]
  BY <1>1, <1>2, <1>8, ZenonT(60) DEF SyncInv, SyncTypeOK
<1>11. NoGapInTable'
  <2> SUFFICES ASSUME NEW u \in Windows, wrow'[u] # NONE, NEW v \in 0..u
               PROVE  wrow'[v] # NONE
    BY DEF NoGapInTable
  <2>1. v \in Windows /\ (v < u \/ v = u)
    BY DEF Windows
  <2>2. CASE u = w.seq
    BY <1>7, <1>9, <2>1, <2>2
  <2>3. CASE u # w.seq
    BY <1>9, <2>1, <2>3 DEF SyncInv, NoGapInTable
  <2>4. QED BY <2>2, <2>3
<1>12. EndedInv'
  BY <1>1, <1>2 DEF SyncInv, EndedInv
<1>13. RequestInv(c)'
  <2>1. Covered(sync[c].todo)'
    BY <1>3, <1>9, <1>10 DEF Covered
  <2>2. Now(c)' = w
    BY <1>10 DEF Now, w
  <2>3. QED
    BY <1>3, <1>9, <1>10, <2>1, <2>2 DEF RequestInv
<1>14. QED
  BY <1>9, <1>10, <1>11, <1>12, <1>13, RequestKept DEF SyncInv

\* A request goes on to the next window of its list, which loses one that has
\* its row.
LEMMA NextSyncInv ==
    ASSUME SyncInv, UNCHANGED chainVars, NEW c \in Callers, CreateChild(c) \/ UpdateChild(c)
    PROVE  SyncInv'
<1> DEFINE rest == Tail(sync[c].todo)
<1>1. ChainTypeOK' /\ config' = config
  BY DEF SyncInv, SyncTypeOK, ChainTypeOK, chainVars
<1>2. /\ UNCHANGED <<parent, pending, wrow, marked, crashed>>
      /\ sync[c].at = "ensure"
      /\ \E t \in BOOLEAN : NextWindow(c, t)
      /\ child' = child \/ child' = [child EXCEPT ![Now(c).seq] = ChildStatus(Now(c))]
  BY DEF CreateChild, UpdateChild
<1>3. /\ sync[c].todo \in Seq(Record) /\ sync[c].todo # <<>> /\ Covered(sync[c].todo)
      /\ wrow[Now(c).seq] # NONE
  BY <1>2 DEF SyncInv, SyncTypeOK, RequestInv
<1>4. /\ Now(c) \in Record /\ Now(c) = sync[c].todo[1]
      /\ rest \in Seq(Record) /\ Len(rest) = Len(sync[c].todo) - 1
      /\ Len(sync[c].todo) \in Nat \ {0}
      /\ \A i \in 1..Len(rest) : rest[i] = sync[c].todo[i + 1]
  BY <1>3, ElementsTail DEF Now
<1>5. Now(c).seq \in Windows /\ ChildStatus(Now(c)) \in {"SUCCESS", "FAILED"}
  BY <1>4 DEF Record, ChildStatus
<1>6. PICK r : /\ sync' = [sync EXCEPT ![c] = r]
               /\ r = Idle \/ (rest # <<>> /\ r = [Idle EXCEPT !.at = "window", !.todo = rest])
  BY <1>2 DEF NextWindow
<1>7. r \in Progress
  BY <1>4, <1>6, ProgressBegins
<1>8. jobs' \subseteq Windows
  BY <1>2, <1>5 DEF NextWindow, SyncInv, SyncTypeOK
<1>9. child' \in [Windows -> {NONE, "SUCCESS", "FAILED", "deleted"}]
  BY <1>2, <1>5 DEF SyncInv, SyncTypeOK
<1>10. /\ SyncTypeOK' /\ sync'[c] = r
       /\ \A d \in Callers \ {c} : sync'[d] = sync[d]
  BY <1>1, <1>2, <1>6, <1>7, <1>8, <1>9 DEF SyncInv, SyncTypeOK, Progress
<1>11. RequestInv(c)'
  <2>1. CASE r = Idle
    BY <1>10, <2>1 DEF RequestInv, Idle
  <2>2. CASE rest # <<>> /\ r = [Idle EXCEPT !.at = "window", !.todo = rest]
    <3>1. sync'[c].at = "window" /\ sync'[c].todo = rest
      BY <1>10, <2>2 DEF Idle
    <3>2. ASSUME NEW i \in 1..Len(rest), NEW v \in Windows, v < rest[i].seq, wrow[v] = NONE
          PROVE  \E j \in 1..Len(rest) : j < i /\ rest[j].seq = v
      <4>1. i + 1 \in 1..Len(sync[c].todo) /\ rest[i] = sync[c].todo[i + 1]
        BY <1>4
      <4>2. PICK k \in 1..Len(sync[c].todo) : k < i + 1 /\ sync[c].todo[k].seq = v
        BY <1>3, <3>2, <4>1 DEF Covered
      <4>3. k # 1
        BY <1>3, <1>4, <3>2, <4>2
      <4>4. k - 1 \in 1..Len(rest) /\ k - 1 < i /\ (k - 1) + 1 = k
        BY <1>4, <4>2, <4>3
      <4>5. rest[k - 1] = sync[c].todo[k]
        BY <1>4, <4>4
      <4>6. QED
        BY <4>2, <4>4, <4>5
    <3> HIDE DEF rest
    <3>3. Covered(sync[c].todo)'
      BY <1>2, <3>1, <3>2 DEF Covered
    <3>4. QED
      BY <2>2, <3>1, <3>3 DEF RequestInv
  <2>3. QED BY <1>6, <2>1, <2>2
<1>12. EndedInv' /\ NoGapInTable'
  BY <1>1, <1>2 DEF SyncInv, EndedInv, NoGapInTable
<1>13. QED
  BY <1>2, <1>10, <1>11, <1>12, RequestKept DEF SyncInv

\* No step of the continuous task breaks the invariant.
LEMMA NextSyncStepInv == SyncInv /\ ChainInv /\ [SyncStep]_syncAll => SyncInv'
<1> SUFFICES ASSUME SyncInv, ChainInv, [SyncStep]_syncAll PROVE SyncInv'
  OBVIOUS
<1>0. [ChainStep]_chainVars /\ pending \subseteq {"create", "stop"}
  BY SyncStepIsChainStep DEF SyncInv, SyncTypeOK
<1>1. CASE UNCHANGED syncVars
  BY <1>0, <1>1, ChainSyncInv DEF syncVars
<1>2. ASSUME NEW ok \in BOOLEAN, CreateContinuous(ok) PROVE SyncInv'
  <2>1. /\ UNCHANGED <<parent, wrow, child, sync, jobs, marked, crashed>>
        /\ pending' \subseteq {"create", "stop"} /\ "stop" \notin pending'
    BY <1>2 DEF CreateContinuous
  <2>2. QED BY <1>0, <2>1, ChainSyncInv
<1>3. CASE StopContinuous
  <2>1. /\ UNCHANGED <<parent, wrow, child, sync, jobs, marked, crashed>>
        /\ pending' = pending \cup {"stop"} /\ config' = "stopped"
    BY <1>3 DEF StopContinuous, StopContinuousTask
  <2>2. QED BY <1>0, <2>1, ChainSyncInv
<1>4. ASSUME APIStep, UNCHANGED chainVars PROVE SyncInv'
  BY <1>4, RowsSyncInv, CrashSyncInv, ReadSyncInv, WriteSyncInv, NextSyncInv
     DEF APIStep, Request
<1>5. QED
  BY <1>1, <1>2, <1>3, <1>4 DEF SyncStep, syncAll

\* SyncInv holds in every state of the whole specification.
LEMMA SyncInvHolds == Spec => []SyncInv
<1>1. Init => SyncInv
  <2> SUFFICES ASSUME ChainInit, SyncInit PROVE SyncInv
    BY DEF Init
  <2>1. SyncTypeOK
    BY InitChainInv, ProgressBegins DEF ChainInv, SyncInit, SyncTypeOK, Progress
  <2>2. EndedInv /\ NoGapInTable
    BY DEF SyncInit, EndedInv, NoGapInTable, Windows
  <2>3. \A c \in Callers : RequestInv(c)
    BY DEF SyncInit, RequestInv, Idle
  <2>4. QED BY <2>1, <2>2, <2>3 DEF SyncInv
<1>2. SyncInv /\ ChainInv /\ [ContinuousTask \/ SchedulesOfUsers]_longVars => SyncInv'
  BY StepIsSyncStep, NextSyncStepInv
<1>3. QED
  BY <1>1, <1>2, ChainInvHolds, PTL DEF Spec

\* The table continuous_window has no gap, whichever requests copy lists of
\* different age into it at once, crash half way, or read after a restart of
\* drop_server (GetContinuousWindows).
THEOREM TableHasNoGap == Spec => []NoGapInTable
<1>1. SyncInv => NoGapInTable
  BY DEF SyncInv
<1>2. QED BY <1>1, SyncInvHolds, PTL

\* A parent task that is shown as ended was stopped in drop_server or forgotten
\* by it, across crashes between the call and the row (StopContinuousTask).
THEOREM EndedParentsAreStopped == Spec => []EndedIsStopped
<1>1. SyncInv => EndedIsStopped
  BY DEF SyncInv, EndedInv, EndedIsStopped
<1>2. QED BY <1>1, SyncInvHolds, PTL
=============================================================================
