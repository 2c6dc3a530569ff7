------------------------ MODULE ScenarioRunnerProofs ------------------------
(***************************************************************************)
(* What the lab guarantees for every set of scenarios and every timing.    *)
(***************************************************************************)
EXTENDS ScenarioRunner, FiniteSetTheorems, SequenceTheorems, TLAPS

Typed == TypeOK /\ \A s \in Stream : IsFiniteSet(inflight[s])

\* The main thread's own steps and those of the server leave the generators alone.
RunnerStep ==
  \/ StartServer \/ Settle \/ NoMore \/ Poll \/ FireStreams
  \/ JoinStreams \/ WaitCapture \/ Pause \/ Stop \/ RunnerExits
  \/ Bind \/ ServerFails \/ Done

CaptureStep == StartCapture \/ Capture \/ CaptureDies

\* A step of the pool of s.
PoolStep(s) ==
  \/ Connect(s)
  \/ \E t \in inflight[s] : Complete(s, t) \/ Fail(s, t)

\* A step of its loop.
LoopStep(s) == Submit(s) \/ EmitSyn(s) \/ EmitRaises(s)

\* Any other.
PhaseStep(s) ==
  \/ Launch(s) \/ Begin(s) \/ SetupFails(s) \/ LeaveLoop(s) \/ Teardown(s) \/ Exit(s)

StreamStep(s) ==
  /\ PoolStep(s) \/ LoopStep(s) \/ PhaseStep(s)
  /\ runner' = runner /\ turn' = turn /\ fired' = fired /\ server' = server
  /\ UNCHANGED capVars \/ (Sniff(s) /\ (Connect(s) \/ EmitSyn(s) \/ \E t \in inflight[s] : Complete(s, t)))

LEMMA Steps ==
  ASSUME [Next]_vars
  PROVE  \/ RunnerStep \/ CaptureStep \/ Tick \/ Interrupt
         \/ \E s \in Stream : StreamStep(s)
         \/ UNCHANGED vars
<1>1. ASSUME NEW s \in Stream, Launch(s) PROVE StreamStep(s)
  BY <1>1 DEF Launch, StreamStep, PhaseStep, vars, genVars, capVars
<1>2. ASSUME NEW s \in Stream, Sending(s) PROVE StreamStep(s)
  BY <1>2 DEF Sending, StreamStep, PoolStep, LoopStep, Rest
<1>3. ASSUME NEW s \in Stream, Silent(s) PROVE StreamStep(s)
  BY <1>3 DEF Silent, StreamStep, PoolStep, LoopStep, PhaseStep, Rest
<1> QED
  BY <1>1, <1>2, <1>3 DEF Next, Step, RunnerStep, CaptureStep

-----------------------------------------------------------------------------
LEMMA TypeInit == Init => Typed
  BY FS_EmptySet, GeneratorAssumption, RunnerAssumption
     DEF Init, GenInit, CaptureInit, Typed, TypeOK, GenTypeOK, CaptureTypeOK, NotFired, Exited

LEMMA TypeRunner ==
  ASSUME Typed, RunnerStep, turn \in DOMAIN Scenarios \/ runner # "pause"
  PROVE  Typed'
  BY RunnerAssumption
     DEF RunnerStep, StartServer, Settle, NoMore, Poll, FireStreams, JoinStreams,
         WaitCapture, Pause, Stop, RunnerExits, Bind, ServerFails, Done, Typed, TypeOK,
         GenTypeOK, CaptureTypeOK, NotFired, Exited, vars, genVars, capVars, loopVars, poolVars

LEMMA TypeCapture ==
  ASSUME Typed, CaptureStep \/ Tick
  PROVE  Typed'
<1> USE DEF Typed, TypeOK, GenTypeOK, CaptureTypeOK, genVars, capVars, loopVars, poolVars
<1>1. CASE Tick
  BY <1>1 DEF Tick
<1>2. CASE StartCapture
  BY <1>2 DEF StartCapture, Popen
<1>3. CASE Capture
  BY <1>3 DEF Capture, BeginSniff, EndSniff, Save, Rest, Exited
<1>4. CASE CaptureDies
  BY <1>4 DEF CaptureDies, Die, Rest, Exited
<1> QED
  BY <1>1, <1>2, <1>3, <1>4 DEF CaptureStep

LEMMA TypeInterrupt ==
  ASSUME Typed, Interrupt
  PROVE  Typed'
  BY RunnerAssumption
     DEF Interrupt, Interrupted, Die, Typed, TypeOK, GenTypeOK, CaptureTypeOK, NotFired,
         Exited, vars, genVars, capVars, loopVars, poolVars

PoolTypeOK ==
  /\ inflight \in [Stream -> SUBSET Taken]
  /\ \A r \in Stream : IsFiniteSet(inflight[r]) /\ Cardinality(inflight[r]) <= workers

LEMMA PoolUpdate ==
  ASSUME PoolTypeOK, NEW s \in Stream, NEW V \in SUBSET Taken,
         IsFiniteSet(V), Cardinality(V) <= workers,
         inflight' = [inflight EXCEPT ![s] = V]
  PROVE  PoolTypeOK'
  BY DEF PoolTypeOK

LEMMA TypeStream ==
  ASSUME Typed, NEW s \in Stream, StreamStep(s)
  PROVE  Typed'
<1>1. CaptureTypeOK(Stream)'
  BY DEF StreamStep, Sniff, CaptureTypeOK, capVars, Typed, TypeOK
<1>2. /\ runner' = runner /\ turn' = turn /\ fired' = fired /\ server' = server
  BY DEF StreamStep
<1>3. IsFiniteSet(inflight[s]) /\ Cardinality(inflight[s]) \in Nat
  BY FS_CardinalityType DEF Typed
<1>4. SUFFICES GenTypeOK' /\ \A r \in Stream : IsFiniteSet(inflight'[r])
  BY <1>1, <1>2 DEF Typed, TypeOK
<1>5. GenTypeOK /\ \A r \in Stream : IsFiniteSet(inflight[r])
  BY DEF Typed, TypeOK
<1> USE DEF genVars, loopVars, poolVars, Goto
<1>6. CASE PhaseStep(s)
  <2>1. CASE Launch(s)
    BY <2>1, <1>5 DEF GenTypeOK, Launch
  <2>2. CASE Begin(s)
    BY <2>2, <1>5 DEF GenTypeOK, Begin
  <2>5. CASE SetupFails(s)
    BY <2>5, <1>5 DEF GenTypeOK, SetupFails
  <2>3. CASE LeaveLoop(s) \/ Teardown(s)
    BY <2>3, <1>5 DEF GenTypeOK, LeaveLoop, Teardown
  <2>4. CASE Exit(s)
    BY <2>4, <1>5 DEF GenTypeOK, Exit
  <2> QED
    BY <1>6, <2>1, <2>2, <2>3, <2>4, <2>5 DEF PhaseStep
<1>7. CASE LoopStep(s)
  <2>1. NextSend(s) \in Nat
    BY <1>5, GeneratorAssumption DEF GenTypeOK, NextSend
  <2>2. Append(sends[s], now) \in Seq(Nat) /\ Len(sends[s]) + 1 \in Nat \ {0}
    BY <1>5 DEF GenTypeOK
  <2>3. Append(queued[s], Len(sends[s]) + 1) \in Seq(Nat \ {0})
    BY <1>5, <2>2 DEF GenTypeOK
  <2>4. CASE Submit(s)
    BY <2>1, <2>2, <2>3, <2>4, <1>5 DEF GenTypeOK, Submit, Attempt
  <2>5. CASE EmitSyn(s)
    BY <2>1, <2>2, <2>5, <1>5 DEF GenTypeOK, EmitSyn, Attempt
  <2>6. CASE EmitRaises(s)
    BY <2>2, <2>6, <1>5 DEF GenTypeOK, EmitRaises, Attempt
  <2> QED
    BY <1>7, <2>4, <2>5, <2>6 DEF LoopStep
<1>8. CASE Connect(s)
  <2> DEFINE t == <<Head(queued[s]), now + handshake_timeout>>
  <2>1. /\ Head(queued[s]) \in Nat \ {0} /\ Tail(queued[s]) \in Seq(Nat \ {0})
        /\ t \in Taken
    BY <1>5, <1>8, GeneratorAssumption DEF GenTypeOK, Connect, CanTake, Taken
  <2>2. /\ inflight' = [inflight EXCEPT ![s] = @ \cup {t}]
        /\ Cardinality(inflight[s]) < workers
    BY <1>8 DEF Connect, CanTake
  <2> HIDE DEF t
  <2>3. /\ IsFiniteSet(inflight[s] \cup {t})
        /\ Cardinality(inflight[s] \cup {t}) \in {Cardinality(inflight[s]), Cardinality(inflight[s]) + 1}
    BY <1>3, FS_AddElement
  <2>4. /\ inflight[s] \cup {t} \in SUBSET Taken
        /\ Cardinality(inflight[s] \cup {t}) <= workers
    BY <1>3, <1>5, <2>1, <2>2, <2>3, GeneratorAssumption DEF GenTypeOK
  <2>5. PoolTypeOK'
    BY <1>5, <2>2, <2>3, <2>4, PoolUpdate DEF GenTypeOK, PoolTypeOK
  <2> QED
    BY <1>5, <1>8, <2>1, <2>5 DEF GenTypeOK, PoolTypeOK, Connect
<1>9. ASSUME NEW t \in inflight[s], Complete(s, t) \/ Fail(s, t)
      PROVE  GenTypeOK' /\ \A r \in Stream : IsFiniteSet(inflight'[r])
  <2>1. inflight' = [inflight EXCEPT ![s] = @ \ {t}]
    BY <1>9 DEF Complete, Fail
  <2>2. /\ IsFiniteSet(inflight[s] \ {t})
        /\ Cardinality(inflight[s] \ {t}) = Cardinality(inflight[s]) - 1
    BY <1>3, <1>9, FS_RemoveElement
  <2>3. /\ inflight[s] \ {t} \in SUBSET Taken
        /\ Cardinality(inflight[s] \ {t}) <= workers
    BY <1>3, <1>5, <2>2, GeneratorAssumption DEF GenTypeOK
  <2>4. PoolTypeOK'
    BY <1>5, <2>1, <2>2, <2>3, PoolUpdate DEF GenTypeOK, PoolTypeOK
  <2>5. /\ UNCHANGED <<now, gen, stop_requested, loopVars, queued, syn_only>>
        /\ completed' \in [Stream -> Nat] /\ failed' \in [Stream -> Nat]
    <3>1. CASE Complete(s, t)
      BY <1>5, <3>1 DEF GenTypeOK, Complete
    <3>2. CASE Fail(s, t)
      BY <1>5, <3>2 DEF GenTypeOK, Fail
    <3> QED
      BY <1>9, <3>1, <3>2
  <2> QED
    BY <1>5, <2>4, <2>5 DEF GenTypeOK, PoolTypeOK
<1> QED
  BY <1>6, <1>7, <1>8, <1>9 DEF StreamStep, PoolStep

-----------------------------------------------------------------------------
(* Who is where: between two scenarios nothing is being sent.              *)

Idle(s) ==
  /\ sends[s] = <<>> /\ queued[s] = <<>> /\ inflight[s] = {}
  /\ completed[s] = 0 /\ failed[s] = 0 /\ syn_only[s] = 0

IdleInv == \A s \in Stream : gen[s] \in {"none", "launched", "ended"} => Idle(s)

Absent(s) == gen[s] \in {"none", "ended"}

Placed ==
  /\ \A s \in Stream : ~Absent(s) => s \in Streams /\ fired # NotFired
  /\ runner \in {"begin", "settle", "next", "lead_in"} => fired = NotFired
  /\ runner \in {"wait", "pause", "ended"} => fired = NotFired \/ Joined
  /\ runner \in {"lead_in", "streams", "wait", "pause"} => turn \in DOMAIN Scenarios
  /\ runner = "pause" => cap \in Exited

\* No generator runs but while its streams are being waited for, or after Ctrl-C.
LEMMA QuietBetween ==
  ASSUME Placed, runner \in {"begin", "settle", "next", "lead_in", "wait", "pause", "ended"}
  PROVE  \A s \in Stream : Absent(s)
  BY DEF Placed, Joined, Absent

LEMMA SameStreams ==
  ASSUME turn' = turn
  PROVE  Streams' = Streams
  BY DEF Streams

LEMMA PlacedRunner ==
  ASSUME Placed, RunnerStep, Typed
  PROVE  Placed'
<1>1. gen' = gen
  BY DEF RunnerStep, StartServer, Settle, NoMore, Poll, FireStreams, JoinStreams, WaitCapture,
         Pause, Stop, RunnerExits, Bind, ServerFails, Done, vars, genVars
<1>2. cap' = cap
  BY DEF RunnerStep, StartServer, Settle, NoMore, Poll, FireStreams, JoinStreams, WaitCapture,
         Pause, Stop, RunnerExits, Bind, ServerFails, Done, vars, capVars
<1>3. CASE Pause
  <2>1. \A s \in Stream : Absent(s)'
    BY <1>1, <1>3, QuietBetween DEF Pause, Absent
  <2> QED
    BY <2>1, <1>3 DEF Pause, Placed
<1>4. CASE ~Pause
  <2>1. turn' = turn /\ Streams' = Streams
    BY <1>4, SameStreams
       DEF RunnerStep, StartServer, Settle, NoMore, Poll, FireStreams, JoinStreams, WaitCapture,
         Stop, RunnerExits, Bind, ServerFails, Done, vars
  <2>2. Joined' <=> Joined
    BY <1>1, <2>1 DEF Joined
  <2>3. \A s \in Stream : Absent(s)' <=> Absent(s)
    BY <1>1 DEF Absent
  <2> QED
    BY <1>1, <1>2, <1>4, <2>1, <2>2, <2>3, QuietBetween
    DEF Placed, RunnerStep, StartServer, Settle, NoMore, Poll, FireStreams, JoinStreams,
    WaitCapture,
         Stop, RunnerExits, Bind, ServerFails, Done, vars, NotFired, ThreadsOver, Typed,
         TypeOK, GenTypeOK
<1> QED
  BY <1>3, <1>4

LEMMA PlacedStep ==
  ASSUME Typed, IdleInv, Placed, [Next]_vars
  PROVE  Placed'
<1>1. CASE RunnerStep
  BY <1>1, PlacedRunner
<1>2. CASE CaptureStep \/ Tick
  <2>1. gen' = gen /\ fired' = fired /\ turn' = turn /\ Streams' = Streams
    BY <1>2, SameStreams
       DEF CaptureStep, StartCapture, Capture, CaptureDies, Tick, Rest, genVars
  <2>2. (Joined' <=> Joined) /\ \A s \in Stream : Absent(s)' <=> Absent(s)
    BY <2>1 DEF Joined, Absent
  <2>3. /\ runner' = runner \/ (runner' = "lead_in" /\ StartCapture)
        /\ runner = "pause" /\ cap \in Exited => cap' \in Exited
    BY <1>2
       DEF CaptureStep, StartCapture, Capture, CaptureDies, Tick, Rest, BeginSniff, EndSniff,
           Save,
                Die, Exited, capVars
  <2> QED
    BY <2>1, <2>2, <2>3 DEF Placed, StartCapture
<1>3. CASE Interrupt
  BY <1>3, SameStreams DEF Interrupt, Placed, Absent
<1>4. ASSUME NEW s \in Stream, StreamStep(s) PROVE Placed'
  <2>1. /\ turn' = turn /\ runner' = runner /\ fired' = fired /\ Streams' = Streams
        /\ cap' = cap
    BY <1>4, SameStreams DEF StreamStep, Sniff, capVars
  <2>2. /\ \A r \in Stream : r # s => gen'[r] = gen[r]
        /\ s \in Streams /\ fired # NotFired /\ gen[s] # "ended"
    BY <1>4
       DEF StreamStep, PoolStep, LoopStep, PhaseStep, Launch, Begin, SetupFails, LeaveLoop,
           Teardown, Exit,
       Submit, EmitSyn, EmitRaises, Attempt, Turn, Connect, CanTake, Complete, Fail, Goto,
       Typed, TypeOK, GenTypeOK,
       IdleInv, Idle, Placed, Absent
  <2>3. ~Joined
    BY <2>2 DEF Joined
  <2> QED
    BY <2>1, <2>2, <2>3 DEF Placed, Absent
<1>5. CASE UNCHANGED vars
  BY <1>5, SameStreams DEF vars, genVars, capVars, Placed, Absent, Joined
<1> QED
  BY <1>1, <1>2, <1>3, <1>4, <1>5, Steps

LEMMA GeneratorsStay ==
  ASSUME RunnerStep \/ CaptureStep \/ Tick \/ UNCHANGED vars
  PROVE  UNCHANGED genVars
  BY DEF RunnerStep, StartServer, Settle, NoMore, Poll, FireStreams, JoinStreams, WaitCapture,
         Pause, Stop, RunnerExits, Bind, ServerFails, Done, CaptureStep, StartCapture, Capture,
         CaptureDies, Tick, vars

LEMMA InterruptStays ==
  ASSUME Interrupt, Typed, NEW s \in Stream
  PROVE  /\ UNCHANGED <<next_send, sends, poolVars, syn_only>>
         /\ gen'[s] = IF gen[s] = "launched" THEN "ended" ELSE gen[s]
  BY DEF Interrupt

\* A step of one stream leaves the others' generators alone.
LEMMA OthersStay ==
  ASSUME Typed, NEW s \in Stream, StreamStep(s), NEW r \in Stream, r # s
  PROVE  /\ gen'[r] = gen[r] /\ next_send'[r] = next_send[r] /\ sends'[r] = sends[r]
         /\ queued'[r] = queued[r] /\ inflight'[r] = inflight[r]
         /\ completed'[r] = completed[r] /\ failed'[r] = failed[r]
         /\ syn_only'[r] = syn_only[r]
<1> USE DEF Typed, TypeOK, GenTypeOK, Goto, loopVars, poolVars
<1>1. CASE PoolStep(s)
  BY <1>1 DEF PoolStep, Connect, Complete, Fail
<1>2. CASE LoopStep(s)
  BY <1>2 DEF LoopStep, Submit, EmitSyn, EmitRaises, Attempt
<1>3. CASE PhaseStep(s)
  BY <1>3 DEF PhaseStep, Launch, Begin, SetupFails, LeaveLoop, Teardown, Exit
<1> QED
  BY <1>1, <1>2, <1>3 DEF StreamStep

LEMMA IdleStep ==
  ASSUME Typed, IdleInv, [Next]_vars
  PROVE  IdleInv'
<1>1. CASE RunnerStep \/ CaptureStep \/ Tick \/ UNCHANGED vars
  BY <1>1, GeneratorsStay DEF IdleInv, Idle, genVars, loopVars, poolVars
<1>2. CASE Interrupt
  BY <1>2, InterruptStays DEF IdleInv, Idle, poolVars
<1>3. ASSUME NEW s \in Stream, StreamStep(s) PROVE IdleInv'
  <2> SUFFICES (gen[s] \in {"none", "launched", "ended"} => Idle(s))'
    BY <1>3, OthersStay DEF IdleInv, Idle
  <2> USE DEF Typed, TypeOK, GenTypeOK, Goto, loopVars, poolVars, Idle, IdleInv
  <2>1. CASE PoolStep(s)
    BY <2>1 DEF PoolStep, Connect, CanTake, Complete, Fail
  <2>2. CASE LoopStep(s)
    BY <2>2 DEF LoopStep, Submit, EmitSyn, EmitRaises, Attempt, Turn
  <2>3. CASE PhaseStep(s)
    BY <2>3 DEF PhaseStep, Launch, Begin, SetupFails, LeaveLoop, Turn, Teardown, Exit, PoolIdle
  <2> QED
    BY <1>3, <2>1, <2>2, <2>3 DEF StreamStep
<1> QED
  BY <1>1, <1>2, <1>3, Steps

LEMMA ApartStep ==
  ASSUME Typed, IdleInv, Placed, ScenariosApart, [Next]_vars
  PROVE  ScenariosApart'
<1>1. CASE RunnerStep
  <2>1. UNCHANGED capVars /\ (turn' = turn \/ runner = "pause")
    BY <1>1
       DEF RunnerStep, StartServer, Settle, NoMore, Poll, FireStreams, JoinStreams, WaitCapture,
       Pause, Stop, RunnerExits, Bind, ServerFails, Done, vars
  <2> QED
    BY <2>1, SameStreams DEF ScenariosApart, Placed, capVars
<1>2. CASE CaptureStep \/ Tick
  <2>1. Streams' = Streams
    BY <1>2, SameStreams DEF CaptureStep, StartCapture, Capture, CaptureDies, Tick, Rest
  <2> QED
    BY <1>2, <2>1
       DEF ScenariosApart, CaptureStep, StartCapture, Capture, CaptureDies, Tick, Popen,
       BeginSniff, EndSniff, Save, Die, Exited, capVars
<1>3. CASE Interrupt
  BY <1>3, SameStreams DEF ScenariosApart, Interrupt, Interrupted, Die, Exited, capVars
<1>4. ASSUME NEW s \in Stream, StreamStep(s) PROVE ScenariosApart'
  <2>1. Streams' = Streams
    BY <1>4, SameStreams DEF StreamStep
  <2>2. CASE UNCHANGED capVars
    BY <2>1, <2>2 DEF ScenariosApart, capVars
  <2>3. CASE Sniff(s) /\ (Connect(s) \/ EmitSyn(s) \/ \E t \in inflight[s] : Complete(s, t))
    <3>1. s \in Streams
      BY <2>3 DEF Connect, CanTake, EmitSyn, Attempt, Turn, IdleInv, Idle, Placed, Absent
    <3> QED
      BY <2>1, <2>3, <3>1 DEF Sniff, ScenariosApart
  <2> QED
    BY <1>4, <2>2, <2>3 DEF StreamStep
<1>5. CASE UNCHANGED vars
  BY <1>5, SameStreams DEF vars, capVars, ScenariosApart
<1> QED
  BY <1>1, <1>2, <1>3, <1>4, <1>5, Steps

PlaceInv == Typed /\ IdleInv /\ Placed /\ ScenariosApart

LEMMA PlaceInit == Init => PlaceInv
<1> SUFFICES ASSUME Init PROVE PlaceInv
  OBVIOUS
<1>1. Typed
  BY TypeInit
<1>2. IdleInv /\ Placed /\ ScenariosApart
  BY DEF Init, GenInit, CaptureInit, IdleInv, Idle, Placed, Absent, ScenariosApart
<1> QED
  BY <1>1, <1>2 DEF PlaceInv

LEMMA PlaceStep ==
  ASSUME PlaceInv, [Next]_vars
  PROVE  PlaceInv'
<1> USE DEF PlaceInv
<1>1. Typed'
  <2>1. CASE RunnerStep
    BY <2>1, TypeRunner DEF Placed
  <2>2. CASE UNCHANGED vars
    BY <2>2
       DEF vars, genVars, capVars, loopVars, poolVars, Typed, TypeOK, GenTypeOK, CaptureTypeOK
  <2> QED
    BY <2>1, <2>2, Steps, TypeCapture, TypeInterrupt, TypeStream
<1>2. IdleInv' /\ Placed' /\ ScenariosApart'
  BY IdleStep, PlacedStep, ApartStep
<1> QED
  BY <1>1, <1>2

LEMMA PlaceAlways == Spec => []PlaceInv
  BY PlaceInit, PlaceStep, PTL DEF Spec

\* Every variable of the lab keeps its type: no pool has more attempts in flight
\* than workers, and the runner never comes to a scenario there is none of.
THEOREM TypeCorrect == Spec => []TypeOK
<1>1. PlaceInv => TypeOK
  BY DEF PlaceInv, Typed
<1> QED
  BY <1>1, PlaceAlways, PTL

\* For any scenarios, margins and delays, and wherever Ctrl-C or a death comes, a
\* capture still running holds packets of its own scenario only.
THEOREM CapturesApart == Spec => []ScenariosApart
<1>1. PlaceInv => ScenariosApart
  BY DEF PlaceInv
<1> QED
  BY <1>1, PlaceAlways, PTL

-----------------------------------------------------------------------------
(* The pace: the loop's next send is ahead of each of its sends by the     *)
(* intervals between them, less one that the drift guard may have dropped. *)

Ahead(s) ==
  \A a \in DOMAIN sends[s] :
    next_send[s] >= sends[s][a] + (Len(sends[s]) - a - 1) * interval[s]

PaceInv == PlaceInv /\ PacedSends /\ \A s \in Stream : gen[s] = "loop" => Ahead(s)

LEMMA Distribute ==
  ASSUME NEW k \in Int, NEW i \in Int
  PROVE  k * i \in Int /\ (k + 1) * i = k * i + i
  OBVIOUS

\* One more send.
LEMMA PaceOfSend ==
  ASSUME PaceInv, NEW s \in Stream, Turn(s), sends'[s] = Append(sends[s], now)
  PROVE  /\ \A a, b \in DOMAIN sends'[s] :
              a < b => sends'[s][b] - sends'[s][a] >= (b - a - 2) * interval[s]
         /\ next_send'[s] = NextSend(s) => Ahead(s)'
<1> DEFINE n == Len(sends[s])
           T(k) == k * interval[s]  \* how long k intervals take
<1>a. sends[s] \in Seq(Nat) /\ Ahead(s)
  BY DEF PaceInv, PlaceInv, Typed, TypeOK, GenTypeOK, Turn
<1>1. /\ now \in Nat /\ next_send[s] \in Nat /\ now >= next_send[s]
      /\ interval[s] \in Nat \ {0} /\ n \in Nat
  BY <1>a, GeneratorAssumption DEF PaceInv, PlaceInv, Typed, TypeOK, GenTypeOK, Turn
<1>2. /\ DOMAIN sends[s] = 1..n /\ DOMAIN sends'[s] = 1..(n + 1) /\ Len(sends'[s]) = n + 1
      /\ sends'[s][n + 1] = now
      /\ \A a \in 1..n : sends'[s][a] = sends[s][a] /\ sends[s][a] \in Nat
  BY <1>a, <1>1
<1>3. \A k \in Int : T(k) \in Int /\ T(k + 1) = T(k) + interval[s]
  BY <1>1, Distribute
<1>4. \A a \in 1..n : next_send[s] >= sends[s][a] + T(n - a - 1)
  BY <1>a, <1>2 DEF Ahead
<1>5. \A a, b \in 1..n : a < b => sends[s][b] - sends[s][a] >= T(b - a - 2)
  BY <1>2 DEF PaceInv, PacedSends
<1>6. T(-1) = 0 - interval[s]
  BY <1>1
<1> HIDE DEF n, T
<1>8. ASSUME NEW a \in 1..(n + 1), NEW b \in 1..(n + 1), a < b
      PROVE  sends'[s][b] - sends'[s][a] >= T(b - a - 2)
  <2>1. CASE b = n + 1
    <3>1. a \in 1..n /\ b - a - 2 = n - a - 1 /\ n - a - 1 \in Int
      BY <1>1, <1>8, <2>1
    <3>2. T(b - a - 2) = T(n - a - 1) /\ T(n - a - 1) \in Int
      BY <1>3, <3>1
    <3>3. next_send[s] >= sends[s][a] + T(n - a - 1) /\ sends[s][a] \in Nat
      BY <1>2, <1>4, <3>1
    <3>4. sends'[s][b] = now /\ sends'[s][a] = sends[s][a]
      BY <1>2, <2>1, <3>1
    <3> QED
      BY <1>1, <3>2, <3>3, <3>4
  <2>2. CASE b # n + 1
    <3>1. a \in 1..n /\ b \in 1..n
      BY <1>1, <1>8, <2>2
    <3> QED
      BY <1>2, <1>5, <1>8, <3>1
  <2> QED
    BY <2>1, <2>2
<1>9. next_send'[s] = NextSend(s) =>
        \A a \in 1..(n + 1) : next_send'[s] >= sends'[s][a] + T((n + 1) - a - 1)
  <2> SUFFICES ASSUME next_send'[s] = NextSend(s), NEW a \in 1..(n + 1)
               PROVE  next_send'[s] >= sends'[s][a] + T((n + 1) - a - 1)
    OBVIOUS
  <2>1. next_send'[s] >= next_send[s] + interval[s] /\ next_send'[s] >= now - interval[s]
        /\ next_send'[s] \in Nat
    BY <1>1 DEF NextSend
  <2>2. CASE a = n + 1
    <3>1. (n + 1) - a - 1 = -1 /\ sends'[s][a] = now
      BY <1>1, <1>2, <2>2
    <3>2. T((n + 1) - a - 1) = 0 - interval[s]
      BY <1>6, <3>1
    <3> QED
      BY <1>1, <2>1, <3>1, <3>2
  <2>3. CASE a # n + 1
    <3>1. a \in 1..n /\ n - a - 1 \in Int /\ (n + 1) - a - 1 = (n - a - 1) + 1
      BY <1>1, <2>3
    <3>2. T((n + 1) - a - 1) = T(n - a - 1) + interval[s] /\ T(n - a - 1) \in Int
      BY <1>3, <3>1
    <3>3. /\ next_send[s] >= sends[s][a] + T(n - a - 1) /\ sends[s][a] \in Nat
          /\ sends'[s][a] = sends[s][a]
      BY <1>2, <1>4, <3>1
    <3>4. interval[s] \in Int /\ next_send[s] \in Int
      BY <1>1
    <3>5. next_send'[s] >= sends[s][a] + (T(n - a - 1) + interval[s])
      BY <2>1, <3>2, <3>3, <3>4
    <3> QED
      BY <3>2, <3>3, <3>5
  <2> QED
    BY <2>2, <2>3
<1>10. Ahead(s)' = \A a \in DOMAIN sends'[s] :
         next_send'[s] >= sends'[s][a] + T(Len(sends'[s]) - a - 1)
  BY DEF Ahead, T
<1>11. \A a, b \in DOMAIN sends'[s] :
         a < b => sends'[s][b] - sends'[s][a] >= (b - a - 2) * interval[s]
  BY <1>2, <1>8, Zenon DEF T
<1>12. ASSUME next_send'[s] = NextSend(s), NEW a \in DOMAIN sends'[s]
       PROVE  next_send'[s] >= sends'[s][a] + T(Len(sends'[s]) - a - 1)
  <2>1. a \in 1..(n + 1) /\ Len(sends'[s]) = n + 1
    BY <1>2
  <2>2. next_send'[s] >= sends'[s][a] + T((n + 1) - a - 1)
    BY <1>9, <1>12, <2>1
  <2> QED
    BY <2>1, <2>2
<1> QED
  BY <1>10, <1>11, <1>12

LEMMA PaceStep ==
  ASSUME PaceInv, [Next]_vars
  PROVE  PaceInv'
<1> USE DEF PaceInv
<1>1. PlaceInv'
  BY PlaceStep
<1>2. CASE RunnerStep \/ CaptureStep \/ Tick \/ UNCHANGED vars
  BY <1>1, <1>2, GeneratorsStay DEF PacedSends, Ahead, genVars, loopVars
<1>3. CASE Interrupt
  BY <1>1, <1>3, InterruptStays DEF PacedSends, Ahead, PlaceInv
<1>4. ASSUME NEW s \in Stream, StreamStep(s) PROVE PaceInv'
  <2> USE DEF PlaceInv, Typed, TypeOK, GenTypeOK, Goto, loopVars, poolVars
  <2>1. CASE LoopStep(s)
    <3>1. /\ Turn(s) /\ sends'[s] = Append(sends[s], now)
          /\ gen'[s] = "loop" => next_send'[s] = NextSend(s)
      BY <2>1 DEF LoopStep, Submit, EmitSyn, EmitRaises, Attempt
    <3> QED
      BY <1>1, <1>4, <3>1, PaceOfSend, OthersStay DEF PacedSends, Ahead
  <2>2. CASE ~LoopStep(s) /\ (sends'[s] = sends[s] \/ sends'[s] = <<>>)
    <3>1. \/ gen'[s] # "loop" \/ sends'[s] = <<>>
          \/ gen[s] = "loop" /\ sends'[s] = sends[s] /\ next_send'[s] = next_send[s]
      <4>1. CASE PoolStep(s)
        BY <4>1 DEF PoolStep, Connect, Complete, Fail
      <4>2. CASE PhaseStep(s)
        BY <4>2
           DEF PhaseStep, Launch, Begin, SetupFails, LeaveLoop, Teardown, Exit, IdleInv, Idle
      <4> QED
        BY <1>4, <2>2, <4>1, <4>2 DEF StreamStep
    <3>2. \A r \in Stream : sends'[r] = sends[r] \/ sends'[r] = <<>>
      BY <1>4, <2>2, OthersStay
    <3>3. ASSUME NEW r \in Stream
          PROVE  \A a, b \in DOMAIN sends'[r] :
                   a < b => sends'[r][b] - sends'[r][a] >= (b - a - 2) * interval[r]
      <4>1. CASE sends'[r] = <<>>
        BY <4>1
      <4>2. CASE sends'[r] = sends[r]
        BY ONLY PacedSends, <4>2, Zenon DEF PacedSends
      <4> QED
        BY <3>2, <4>1, <4>2
    <3>4. ASSUME NEW r \in Stream, gen'[r] = "loop"
          PROVE  Ahead(r)'
      <4>1. CASE sends'[r] = <<>>
        BY <4>1 DEF Ahead
      <4>2. CASE gen[r] = "loop" /\ sends'[r] = sends[r] /\ next_send'[r] = next_send[r]
        BY <4>2, Zenon DEF Ahead
      <4> QED
        BY <1>4, <3>1, <3>4, <4>1, <4>2, OthersStay
    <3> QED
      BY <1>1, <3>3, <3>4 DEF PacedSends
  <2> QED
    BY <1>4, <2>1, <2>2
       DEF StreamStep, PoolStep, PhaseStep, Launch, Begin, SetupFails, LeaveLoop, Teardown,
           Exit,
       Connect, Complete, Fail
<1> QED
  BY <1>2, <1>3, <1>4, Steps

\* Whatever the interval and however late the loop is, any k of its connections
\* in a row take at least k - 3 intervals.
THEOREM StreamsPaced == Spec => []PacedSends
<1>1. Init => PaceInv
  BY PlaceInit DEF PaceInv, Init, GenInit, PacedSends, Ahead
<1>2. PaceInv => PacedSends
  BY DEF PaceInv
<1> QED
  BY <1>1, <1>2, PaceStep, PTL DEF Spec

-----------------------------------------------------------------------------
(* The accounts: every connection attempted is in the pool or accounted    *)
(* for.  The pool's attempts carry their numbers, the queued ones in order *)
(* and after those in flight, so a worker never takes one that is already  *)
(* being made.                                                             *)

Numbered(s) ==
  /\ \A k \in DOMAIN queued[s] : queued[s][k] <= Len(sends[s])
  /\ \A j, k \in DOMAIN queued[s] : j < k => queued[s][j] < queued[s][k]
  /\ \A t \in inflight[s] : t[1] <= Len(sends[s]) /\ \A k \in DOMAIN queued[s] : t[1] < queued[s][k]

Total(done, alone, lost, waiting, made) == done + alone + lost + waiting + made

Sum(s) ==
  Total(completed[s], syn_only[s], failed[s], Len(queued[s]), Cardinality(inflight[s]))

Balanced(s) == Len(sends[s]) = Sum(s)

Accounts(s) == Numbered(s) /\ Balanced(s) /\ (gen[s] = "summary" => PoolIdle(s))

AccountInv == PlaceInv /\ \A s \in Stream : Accounts(s)

PoolStays(s) ==
  /\ sends'[s] = sends[s] /\ queued'[s] = queued[s] /\ inflight'[s] = inflight[s]
  /\ completed'[s] = completed[s] /\ failed'[s] = failed[s] /\ syn_only'[s] = syn_only[s]

LEMMA AccountsStay ==
  ASSUME NEW s \in Stream, Accounts(s), PoolStays(s), gen'[s] = "summary" => gen[s] = "summary" \/ PoolIdle(s)
  PROVE  Accounts(s)'
  BY DEF Accounts, Numbered, Balanced, Sum, PoolIdle, PoolStays

Counts(s) ==
  /\ Len(sends[s]) \in Nat /\ Len(queued[s]) \in Nat
  /\ completed[s] \in Nat /\ failed[s] \in Nat /\ syn_only[s] \in Nat

Numbers(s) ==
  /\ \A k \in DOMAIN queued[s] : queued[s][k] \in Nat
  /\ \A t \in inflight[s] : t[1] \in Nat

LEMMA StreamTypes ==
  ASSUME Typed, NEW s \in Stream
  PROVE  /\ sends[s] \in Seq(Nat) /\ queued[s] \in Seq(Nat \ {0})
         /\ IsFiniteSet(inflight[s]) /\ Cardinality(inflight[s]) \in Nat
         /\ Counts(s) /\ Numbers(s)
<1>1. /\ sends[s] \in Seq(Nat) /\ queued[s] \in Seq(Nat \ {0})
      /\ inflight[s] \subseteq Taken /\ IsFiniteSet(inflight[s])
      /\ completed[s] \in Nat /\ failed[s] \in Nat /\ syn_only[s] \in Nat
  BY DEF Typed, TypeOK, GenTypeOK
<1> QED
  BY <1>1, FS_CardinalityType DEF Counts, Numbers, Taken

\* How the total changes with a step of the stream.
LEMMA Moves ==
  ASSUME NEW s \in Stream, Counts(s), Cardinality(inflight[s]) \in Nat
  PROVE  /\ Total(completed[s], syn_only[s], failed[s], Len(queued[s]) + 1, Cardinality(inflight[s]))
              = Sum(s) + 1
         /\ Total(completed[s], syn_only[s] + 1, failed[s], Len(queued[s]), Cardinality(inflight[s]))
              = Sum(s) + 1
         /\ Total(completed[s], syn_only[s], failed[s] + 1, Len(queued[s]), Cardinality(inflight[s]))
              = Sum(s) + 1
         /\ Total(completed[s], syn_only[s], failed[s], Len(queued[s]) - 1, Cardinality(inflight[s]) + 1)
              = Sum(s)
         /\ Total(completed[s] + 1, syn_only[s], failed[s], Len(queued[s]), Cardinality(inflight[s]) - 1)
              = Sum(s)
         /\ Total(completed[s], syn_only[s], failed[s] + 1, Len(queued[s]), Cardinality(inflight[s]) - 1)
              = Sum(s)
         /\ Total(completed[s], syn_only[s], failed[s], 0, 0) = completed[s] + syn_only[s] + failed[s]
<1>1. PICK a, b, c, d, e \in Nat :
        /\ completed[s] = a /\ syn_only[s] = b /\ failed[s] = c
        /\ Len(queued[s]) = d /\ Cardinality(inflight[s]) = e
  BY DEF Counts
<1>2. /\ a + b + c + (d + 1) + e = a + b + c + d + e + 1
      /\ a + (b + 1) + c + d + e = a + b + c + d + e + 1
      /\ a + b + (c + 1) + d + e = a + b + c + d + e + 1
      /\ a + b + c + (d - 1) + (e + 1) = a + b + c + d + e
      /\ (a + 1) + b + c + d + (e - 1) = a + b + c + d + e
      /\ a + b + (c + 1) + d + (e - 1) = a + b + c + d + e
      /\ a + b + c + 0 + 0 = a + b + c
  OBVIOUS
<1> QED
  BY <1>1, <1>2 DEF Total, Sum

LEMMA AccountsOfIdle ==
  ASSUME NEW s \in Stream, Idle(s)'
  PROVE  Accounts(s)'
<1>1. /\ Len(sends'[s]) = 0 /\ Len(queued'[s]) = 0 /\ Cardinality(inflight'[s]) = 0
      /\ completed'[s] = 0 /\ failed'[s] = 0 /\ syn_only'[s] = 0
      /\ DOMAIN queued'[s] = {} /\ inflight'[s] = {}
  BY FS_EmptySet DEF Idle
<1>2. Numbered(s)' /\ PoolIdle(s)'
  BY <1>1 DEF Idle, Numbered, PoolIdle
<1>3. Balanced(s)'
  BY <1>1 DEF Balanced, Sum, Total
<1> QED
  BY <1>2, <1>3 DEF Accounts

\* An attempt is queued, sent or lost.
LEMMA AccountsOfLoop ==
  ASSUME Typed, NEW s \in Stream, Accounts(s), LoopStep(s)
  PROVE  Accounts(s)'
<1>s. sends[s] \in Seq(Nat) /\ queued[s] \in Seq(Nat \ {0}) /\ Numbers(s)
  BY StreamTypes
<1>t. Counts(s) /\ Cardinality(inflight[s]) \in Nat
  BY StreamTypes
<1>a. Numbered(s)
  BY DEF Accounts
<1>b. /\ Total(completed[s], syn_only[s], failed[s], Len(queued[s]) + 1, Cardinality(inflight[s])) = Len(sends[s]) + 1
      /\ Total(completed[s], syn_only[s] + 1, failed[s], Len(queued[s]), Cardinality(inflight[s])) = Len(sends[s]) + 1
      /\ Total(completed[s], syn_only[s], failed[s] + 1, Len(queued[s]), Cardinality(inflight[s])) = Len(sends[s]) + 1
  BY <1>t, Moves DEF Accounts, Balanced, Sum
<1>1. /\ inflight'[s] = inflight[s] /\ completed'[s] = completed[s]
      /\ sends'[s] = Append(sends[s], now) /\ gen'[s] \in {"loop", "teardown"}
  BY DEF LoopStep, Submit, EmitSyn, EmitRaises, Attempt, Turn, Typed, TypeOK, GenTypeOK, Goto
<1>2. Len(sends'[s]) = Len(sends[s]) + 1
  BY <1>1, <1>s
<1>3. CASE Submit(s)
  <2> DEFINE q == queued[s]
             n == Len(sends[s])
             m == Len(queued[s])
  <2>1. queued'[s] = Append(q, n + 1) /\ failed'[s] = failed[s] /\ syn_only'[s] = syn_only[s]
    BY <1>3 DEF Submit, Typed, TypeOK, GenTypeOK
  <2>2. /\ n \in Nat /\ m \in Nat /\ DOMAIN q = 1..m /\ Len(queued'[s]) = m + 1
        /\ DOMAIN queued'[s] = 1..(m + 1) /\ queued'[s][m + 1] = n + 1
        /\ \A k \in 1..m : queued'[s][k] = q[k]
    BY <1>s, <1>t, <2>1 DEF Counts
  <2>3. /\ \A k \in 1..m : q[k] \in Nat /\ q[k] <= n
        /\ \A j, k \in 1..m : j < k => q[j] < q[k]
        /\ \A t \in inflight[s] : t[1] \in Nat /\ t[1] <= n /\ \A k \in 1..m : t[1] < q[k]
    BY <1>s, <1>a, <2>2 DEF Numbers, Numbered
  <2>6. Balanced(s)'
    <3>1. Len(queued'[s]) = Len(queued[s]) + 1
      BY <2>2
    <3> QED
      BY <1>1, <1>2, <1>b, <2>1, <3>1 DEF Balanced, Sum
  <2> HIDE DEF q, n, m
  <2>4. Len(sends'[s]) = n + 1 /\ \A k \in 1..(m + 1) : k \in 1..m \/ k = m + 1
    BY <1>2, <2>2 DEF n
  <2>5. Numbered(s)'
    <3>1. \A k \in DOMAIN queued'[s] : queued'[s][k] <= Len(sends'[s])
      BY <2>2, <2>3, <2>4
    <3>2. ASSUME NEW j \in DOMAIN queued'[s], NEW k \in DOMAIN queued'[s], j < k
          PROVE  queued'[s][j] < queued'[s][k]
      <4>1. j \in 1..m /\ (k \in 1..m \/ k = m + 1)
        BY <2>2, <3>2
      <4>2. CASE k \in 1..m
        BY <2>2, <2>3, <3>2, <4>1, <4>2
      <4>3. CASE k = m + 1
        <5>1. queued'[s][j] = q[j] /\ q[j] \in Nat /\ q[j] <= n /\ queued'[s][k] = n + 1
          BY <2>2, <2>3, <4>1, <4>3
        <5> QED
          BY <2>2, <5>1
      <4> QED
        BY <4>1, <4>2, <4>3
    <3>3. ASSUME NEW t \in inflight'[s]
          PROVE  t[1] <= Len(sends'[s]) /\ \A k \in DOMAIN queued'[s] : t[1] < queued'[s][k]
      <4>1. t[1] \in Nat /\ t[1] <= n /\ \A k \in 1..m : t[1] < q[k]
        BY <1>1, <2>3
      <4>2. t[1] <= Len(sends'[s])
        BY <2>2, <2>4, <4>1
      <4>3. ASSUME NEW k \in DOMAIN queued'[s] PROVE t[1] < queued'[s][k]
        <5>1. CASE k \in 1..m
          BY <2>2, <4>1, <5>1
        <5>2. CASE k = m + 1
          BY <2>2, <4>1, <5>2
        <5> QED
          BY <2>2, <2>4, <4>3, <5>1, <5>2
      <4> QED
        BY <4>2, <4>3
    <3> QED
      BY <3>1, <3>2, <3>3 DEF Numbered
  <2> QED
    BY <1>1, <2>5, <2>6 DEF Accounts
<1>4. CASE EmitSyn(s) \/ EmitRaises(s)
  <2>1. /\ queued'[s] = queued[s]
        /\ \/ failed'[s] = failed[s] /\ syn_only'[s] = syn_only[s] + 1
           \/ failed'[s] = failed[s] + 1 /\ syn_only'[s] = syn_only[s]
    BY <1>4 DEF EmitSyn, EmitRaises, Typed, TypeOK, GenTypeOK
  <2>2. Numbered(s)'
    <3>1. /\ \A k \in DOMAIN queued[s] : queued[s][k] <= Len(sends'[s])
          /\ \A t \in inflight[s] : t[1] <= Len(sends'[s])
      BY <1>s, <1>t, <1>a, <1>2 DEF Numbered, Numbers, Counts
    <3> QED
      BY <1>a, <1>1, <2>1, <3>1, Zenon DEF Numbered
  <2>3. Balanced(s)'
    BY <1>1, <1>2, <1>b, <2>1 DEF Balanced, Sum
  <2> QED
    BY <1>1, <2>2, <2>3 DEF Accounts
<1> QED
  BY <1>3, <1>4 DEF LoopStep

\* An attempt goes from the queue to a worker ...
LEMMA AccountsOfConnect ==
  ASSUME Typed, NEW s \in Stream, Accounts(s), Connect(s)
  PROVE  Accounts(s)'
<1> DEFINE q == queued[s]
           n == Len(sends[s])
           m == Len(queued[s])
           taken == <<Head(q), now + handshake_timeout>>
<1>1. /\ sends[s] \in Seq(Nat) /\ q \in Seq(Nat \ {0}) /\ Counts(s) /\ Numbers(s)
      /\ IsFiniteSet(inflight[s]) /\ Cardinality(inflight[s]) \in Nat
  BY StreamTypes
<1>2. /\ q # <<>> /\ queued'[s] = Tail(q) /\ inflight'[s] = inflight[s] \cup {taken}
      /\ gen'[s] = gen[s] /\ sends'[s] = sends[s] /\ syn_only'[s] = syn_only[s]
      /\ completed'[s] = completed[s] /\ failed'[s] = failed[s]
  BY DEF Connect, CanTake, Typed, TypeOK, GenTypeOK, loopVars
<1>3. /\ n \in Nat /\ m \in Nat \ {0} /\ DOMAIN q = 1..m /\ taken[1] = q[1]
      /\ Len(queued'[s]) = m - 1 /\ DOMAIN queued'[s] = 1..(m - 1)
      /\ \A k \in 1..(m - 1) : queued'[s][k] = q[k + 1]
  BY <1>1, <1>2
<1>4. /\ \A k \in 1..m : q[k] \in Nat /\ q[k] <= n
      /\ \A j, k \in 1..m : j < k => q[j] < q[k]
      /\ \A t \in inflight[s] : t[1] \in Nat /\ t[1] <= n /\ \A k \in 1..m : t[1] < q[k]
  BY <1>1, <1>3 DEF Accounts, Numbers, Numbered
<1>5. \A k \in 1..(m - 1) : k + 1 \in 1..m /\ k + 1 > 1
  BY <1>3
<1>6. 1 \in 1..m /\ taken \notin inflight[s]
  BY <1>3, <1>4
<1>7. Cardinality(inflight'[s]) = Cardinality(inflight[s]) + 1
  BY <1>1, <1>2, <1>6, FS_AddElement
<1>8. Balanced(s)'
  <2>1. Len(queued'[s]) = Len(queued[s]) - 1
    BY <1>3
  <2>2. Counts(s) /\ Cardinality(inflight[s]) \in Nat
    BY <1>1
  <2>3. Total(completed[s], syn_only[s], failed[s], Len(queued[s]) - 1, Cardinality(inflight[s]) + 1)
          = Sum(s)
    BY <2>2, Moves
  <2> QED
    BY <1>2, <1>7, <2>1, <2>3 DEF Accounts, Balanced, Sum
<1>9. gen'[s] # "summary"
  BY <1>2 DEF Accounts, PoolIdle
<1>10. Len(sends'[s]) = n
  BY <1>2
<1> HIDE DEF q, n, m, taken
<1>11. \A k \in DOMAIN queued'[s] : queued'[s][k] <= Len(sends'[s])
  BY <1>3, <1>4, <1>5, <1>10
<1>12. ASSUME NEW j \in DOMAIN queued'[s], NEW k \in DOMAIN queued'[s], j < k
       PROVE  queued'[s][j] < queued'[s][k]
  <2>1. j + 1 \in 1..m /\ k + 1 \in 1..m /\ j + 1 < k + 1
    BY <1>3, <1>12
  <2> QED
    BY <1>3, <1>4, <2>1
<1>13. ASSUME NEW t \in inflight'[s]
       PROVE  t[1] <= Len(sends'[s]) /\ \A k \in DOMAIN queued'[s] : t[1] < queued'[s][k]
  <2>1. CASE t \in inflight[s]
    BY <1>3, <1>4, <1>5, <1>10, <2>1
  <2>2. CASE t = taken
    BY <1>3, <1>4, <1>5, <1>6, <1>10, <2>2
  <2> QED
    BY <1>2, <2>1, <2>2
<1>14. Numbered(s)'
  BY <1>11, <1>12, <1>13 DEF Numbered
<1> QED
  BY <1>8, <1>9, <1>14 DEF Accounts

\* ... and from there to a count.
LEMMA AccountsOfPool ==
  ASSUME Typed, NEW s \in Stream, Accounts(s), PoolStep(s)
  PROVE  Accounts(s)'
<1>1. ASSUME NEW t \in inflight[s], Complete(s, t) \/ Fail(s, t) PROVE Accounts(s)'
  <2>t. /\ IsFiniteSet(inflight[s]) /\ Cardinality(inflight[s]) \in Nat
        /\ Counts(s)
    BY StreamTypes
  <2>1. /\ gen'[s] = gen[s] /\ sends'[s] = sends[s] /\ syn_only'[s] = syn_only[s]
        /\ queued'[s] = queued[s] /\ inflight'[s] = inflight[s] \ {t}
    BY <1>1 DEF Complete, Fail, Typed, TypeOK, GenTypeOK, loopVars
  <2>2. \/ completed'[s] = completed[s] + 1 /\ failed'[s] = failed[s]
        \/ completed'[s] = completed[s] /\ failed'[s] = failed[s] + 1
    BY <1>1 DEF Complete, Fail, Typed, TypeOK, GenTypeOK
  <2>3. Cardinality(inflight'[s]) = Cardinality(inflight[s]) - 1
    BY <2>t, <2>1, FS_RemoveElement
  <2>4. Numbered(s)'
    BY <2>1 DEF Accounts, Numbered
  <2>5. Balanced(s)'
    <3>1. /\ Total(completed[s] + 1, syn_only[s], failed[s], Len(queued[s]), Cardinality(inflight[s]) - 1)
               = Sum(s)
          /\ Total(completed[s], syn_only[s], failed[s] + 1, Len(queued[s]), Cardinality(inflight[s]) - 1)
               = Sum(s)
      BY <2>t, Moves
    <3> QED
      BY <2>1, <2>2, <2>3, <3>1 DEF Accounts, Balanced, Sum
  <2>6. gen'[s] # "summary"
    BY <2>1 DEF Accounts, PoolIdle
  <2> QED
    BY <2>4, <2>5, <2>6 DEF Accounts
<1> QED
  BY <1>1, AccountsOfConnect DEF PoolStep

LEMMA AccountStep ==
  ASSUME AccountInv, [Next]_vars
  PROVE  AccountInv'
<1> USE DEF AccountInv
<1>1. PlaceInv' /\ Typed /\ IdleInv /\ IdleInv'
  BY PlaceStep DEF PlaceInv
<1>2. CASE RunnerStep \/ CaptureStep \/ Tick \/ UNCHANGED vars
  BY <1>1, <1>2, GeneratorsStay, AccountsStay DEF genVars, loopVars, poolVars, PoolStays
<1>3. CASE Interrupt
  BY <1>1, <1>3, InterruptStays, AccountsStay DEF poolVars, PoolStays
<1>4. ASSUME NEW s \in Stream, StreamStep(s) PROVE AccountInv'
  <2>1. Accounts(s)'
    <3>1. CASE Exit(s) \/ Launch(s)
      BY <1>1, <3>1, AccountsOfIdle DEF Exit, Launch, Goto, Typed, TypeOK, GenTypeOK, IdleInv
    <3>2. CASE PhaseStep(s) /\ ~Exit(s) /\ ~Launch(s)
      <4>1. PoolStays(s) /\ (gen'[s] = "summary" => PoolIdle(s))
        BY <1>1, <3>2
           DEF PhaseStep, Begin, SetupFails, LeaveLoop, Teardown, ShutDown, Goto, Typed,
               TypeOK, GenTypeOK,
           loopVars, poolVars, PoolStays
      <4> QED
        BY <4>1, AccountsStay
    <3> QED
      BY <1>1, <1>4, <3>1, <3>2, AccountsOfLoop, AccountsOfPool DEF StreamStep
  <2>2. ASSUME NEW r \in Stream, r # s PROVE Accounts(r)'
    BY <1>1, <1>4, <2>2, OthersStay, AccountsStay DEF PoolStays
  <2> QED
    BY <1>1, <2>1, <2>2
<1> QED
  BY <1>2, <1>3, <1>4, Steps

\* Whatever fails and whenever the loop is stopped, the summary accounts for
\* every connection attempted, and no worker is still at one.
THEOREM SummaryComplete == Spec => []SummaryAccounts
<1>1. Init => AccountInv
  <2> SUFFICES ASSUME Init PROVE AccountInv
    OBVIOUS
  <2>1. ASSUME NEW s \in Stream PROVE Accounts(s)
    <3>1. /\ Len(sends[s]) = 0 /\ Len(queued[s]) = 0 /\ Cardinality(inflight[s]) = 0
          /\ completed[s] = 0 /\ failed[s] = 0 /\ syn_only[s] = 0
          /\ DOMAIN queued[s] = {} /\ inflight[s] = {} /\ gen[s] = "none"
      BY FS_EmptySet DEF Init, GenInit
    <3> QED
      BY <3>1 DEF Accounts, Numbered, Balanced, Sum, Total
  <2> QED
    BY <2>1, PlaceInit DEF AccountInv
<1>2. AccountInv => SummaryAccounts
  <2> SUFFICES ASSUME AccountInv, NEW s \in Stream, gen[s] = "summary"
               PROVE  PoolIdle(s) /\ Len(sends[s]) = completed[s] + syn_only[s] + failed[s]
    BY DEF SummaryAccounts
  <2>1. PoolIdle(s) /\ Balanced(s) /\ Typed
    BY DEF AccountInv, Accounts, PlaceInv
  <2> QED
    <3>1. Len(queued[s]) = 0 /\ Cardinality(inflight[s]) = 0 /\ Counts(s)
      BY <2>1, StreamTypes, FS_EmptySet DEF PoolIdle
    <3>2. Total(completed[s], syn_only[s], failed[s], 0, 0) = completed[s] + syn_only[s] + failed[s]
      BY <3>1, Moves
    <3> QED
      BY <2>1, <3>1, <3>2 DEF Balanced, Sum
<1> QED
  BY <1>1, <1>2, AccountStep, PTL DEF Spec

-----------------------------------------------------------------------------
(* What the capture misses: the runner's clock against the capture's.      *)

Clocks ==
  /\ runner = "lead_in" => now <= lead_in + MaxOverrun
  /\ runner = "streams" => fired \in lead_in .. lead_in + MaxOverrun /\ fired <= now
  /\ runner \in {"lead_in", "streams"} =>
       cap # "none" /\ (cap \in {"saving", "saved", "empty"} => now >= cap_dur)

ClockInv == PlaceInv /\ Clocks

LEMMA ClockStep ==
  ASSUME ClockInv, [Next]_vars
  PROVE  ClockInv'
<1>1. PlaceInv' /\ Placed /\ now \in Nat /\ lead_in \in Nat /\ MaxOverrun \in Nat /\ sniff_from \in Nat
  BY PlaceStep, RunnerAssumption DEF ClockInv, PlaceInv, Typed, TypeOK, GenTypeOK, CaptureTypeOK
<1>2. Clocks
  BY DEF ClockInv
<1>3. turn' = turn => cap_dur' = cap_dur
  BY DEF cap_dur
<1>4. runner \in {"lead_in", "streams"} => cap_dur \in Nat
  BY <1>1, RunnerAssumption DEF cap_dur, Placed
<1>5. SUFFICES Clocks'
  BY <1>1 DEF ClockInv
<1>6. CASE RunnerStep
  <2>1. /\ now' = now /\ cap' = cap /\ (turn' = turn \/ runner' = "next")
        /\ runner' \in {"lead_in", "streams"} =>
             (runner' = runner /\ fired' = fired) \/ FireStreams
    BY <1>6
       DEF RunnerStep, StartServer, Settle, NoMore, Poll, FireStreams, JoinStreams, WaitCapture,
       Pause, Stop, RunnerExits, Bind, ServerFails, Done, vars, capVars
  <2>2. CASE FireStreams
    BY <1>1, <1>2, <1>3, <2>1, <2>2 DEF FireStreams, Clocks
  <2>3. CASE ~FireStreams
    BY <1>2, <1>3, <2>1, <2>3 DEF Clocks
  <2> QED
    BY <2>2, <2>3
<1>7. CASE CaptureStep
  <2>1. CASE StartCapture
    BY <1>1, <2>1 DEF StartCapture, Popen, Clocks
  <2>2. CASE Capture \/ CaptureDies
    <3>1. /\ runner' = runner /\ turn' = turn /\ fired' = fired /\ now' = now
          /\ cap' # "none"
          /\ \/ cap' \in {"sniffing", "dead"} \/ cap \in {"saving", "saved", "empty"}
             \/ cap = "sniffing" /\ now >= sniff_from + cap_dur
      BY <2>2 DEF Capture, CaptureDies, Rest, BeginSniff, EndSniff, Save, Die, genVars
    <3> QED
      BY <1>1, <1>2, <1>3, <1>4, <3>1 DEF Clocks
  <2> QED
    BY <1>7, <2>1, <2>2 DEF CaptureStep
<1>8. CASE Tick
  <2>1. /\ runner' = runner /\ turn' = turn /\ fired' = fired /\ cap' = cap /\ now' = now + 1
        /\ runner = "lead_in" => now < lead_in + MaxOverrun
    BY <1>8 DEF Tick, capVars
  <2> QED
    BY <1>1, <1>2, <1>3, <1>4, <2>1 DEF Clocks
<1>9. CASE Interrupt
  BY <1>9 DEF Interrupt, Clocks
<1>10. ASSUME NEW s \in Stream, StreamStep(s) PROVE Clocks'
  <2>1. runner' = runner /\ turn' = turn /\ fired' = fired /\ cap' = cap /\ now' = now
    BY <1>10
       DEF StreamStep, Sniff, capVars, PoolStep, LoopStep, PhaseStep, Launch, Begin,
           SetupFails, LeaveLoop,
       Teardown, Exit, Submit, EmitSyn, EmitRaises, Attempt, Connect, Complete, Fail
  <2> QED
    BY <1>2, <1>3, <2>1 DEF Clocks
<1>11. CASE UNCHANGED vars
  BY <1>2, <1>3, <1>11 DEF Clocks, vars, capVars
<1> QED
  BY <1>6, <1>7, <1>8, <1>9, <1>10, <1>11, Steps

\* Packets come from a generator that is there.
LEMMA SenderPresent ==
  ASSUME PlaceInv, [Next]_vars, NEW s \in Stream, PacketSent(s)
  PROVE  ~Absent(s)
<1>1. Typed /\ IdleInv
  BY DEF PlaceInv
<1>2. completed[s] \in Nat /\ syn_only[s] \in Nat
  BY <1>1 DEF Typed, TypeOK, GenTypeOK
<1>3. ~PoolStays(s)
  BY <1>2 DEF PoolStays, PacketSent
<1>4. CASE RunnerStep \/ CaptureStep \/ Tick \/ UNCHANGED vars
  BY <1>3, <1>4, GeneratorsStay DEF genVars, loopVars, poolVars, PoolStays
<1>5. CASE Interrupt
  BY <1>1, <1>3, <1>5, InterruptStays DEF poolVars, PoolStays
<1>6. ASSUME NEW r \in Stream, StreamStep(r) PROVE ~Absent(s)
  <2>1. r = s
    BY <1>1, <1>3, <1>6, OthersStay DEF PoolStays
  <2>2. CASE PoolStep(s)
    BY <1>1, <2>2 DEF PoolStep, Connect, CanTake, Complete, Fail, IdleInv, Idle, Absent
  <2>3. CASE LoopStep(s)
    BY <2>3 DEF LoopStep, Submit, EmitSyn, EmitRaises, Attempt, Turn, Absent
  <2>4. CASE PhaseStep(s)
    BY <1>1, <1>3, <2>4
       DEF PhaseStep, Launch, Begin, SetupFails, LeaveLoop, Teardown, Exit, Turn, Absent,
       loopVars, poolVars, PoolStays
  <2> QED
    BY <1>6, <2>1, <2>2, <2>3, <2>4 DEF StreamStep
<1> QED
  BY <1>4, <1>5, <1>6, Steps

Missed(s) ==
  s \in Streams /\ PacketSent(s) /\ cap \notin {"sniffing", "dead"} /\ runner \notin {"stop", "exit"} =>
    \/ cap = "starting" /\ now >= lead_in
    \/ now + MaxOverrun + lead_in >= fired + start[s] + duration[s] + margin

LEMMA MissedStep ==
  ASSUME ClockInv, [Next]_vars, NEW s \in Stream
  PROVE  Missed(s)
<1> SUFFICES ASSUME s \in Streams, PacketSent(s), cap \notin {"sniffing", "dead"}, runner \notin {"stop", "exit"}
             PROVE  \/ cap = "starting" /\ now >= lead_in
                    \/ now + MaxOverrun + lead_in >= fired + start[s] + duration[s] + margin
  BY DEF Missed
<1>1. PlaceInv /\ Placed /\ Clocks
  BY DEF ClockInv, PlaceInv
<1>2. ~Absent(s)
  BY <1>1, SenderPresent
<1>3. runner = "streams" /\ turn \in DOMAIN Scenarios
  BY <1>1, <1>2, QuietBetween DEF PlaceInv, Placed, Typed, TypeOK
<1>4. /\ now \in Nat /\ lead_in \in Nat /\ MaxOverrun \in Nat /\ margin \in Nat
      /\ start[s] \in Nat /\ duration[s] \in Nat /\ Length[turn] \in Nat
      /\ cap \in {"none", "starting", "saving", "saved", "empty"}
  BY <1>1, <1>3, RunnerAssumption, GeneratorAssumption
  DEF PlaceInv, Typed, TypeOK, GenTypeOK, CaptureTypeOK, Exited
<1>5. fired \in Nat /\ lead_in <= fired /\ fired <= lead_in + MaxOverrun /\ fired <= now
  BY <1>1, <1>3, <1>4 DEF Clocks
<1>6. CASE cap = "starting"
  BY <1>4, <1>5, <1>6
<1>7. CASE cap # "starting"
  <2>1. now >= Length[turn] + margin
    BY <1>1, <1>3, <1>4, <1>7 DEF Clocks, cap_dur
  <2>2. start[s] + duration[s] <= Length[turn]
    BY <1>3, RunnerAssumption DEF Streams
  <2> QED
    BY <1>4, <1>5, <2>1, <2>2
<1> QED
  BY <1>6, <1>7

\* For any timing, what a living capture misses while the streams run is sent
\* before it sniffs, however late that is, or near the end of its own clock.
THEOREM CaptureCovers == Spec => MissedOnlyLate
<1>1. Init => ClockInv
  BY PlaceInit DEF ClockInv, Clocks, Init
<1>2. ClockInv /\ [Next]_vars => [\A s \in Stream : Missed(s)]_vars
  BY MissedStep
<1>3. Spec => [][\A s \in Stream : Missed(s)]_vars
  BY <1>1, <1>2, ClockStep, PTL DEF Spec
<1> QED
  BY <1>3 DEF MissedOnlyLate, Missed
=============================================================================
