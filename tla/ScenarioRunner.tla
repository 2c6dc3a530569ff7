--------------------------- MODULE ScenarioRunner ---------------------------
(***************************************************************************)
(* scenario_runner.py and the processes it starts: the victim's server for *)
(* the whole run and, scenario after scenario, one capture and one traffic *)
(* generator a stream.  The parts are timed by sleeps, not by messages.    *)
(*                                                                         *)
(* The clock starts anew with each scenario, and stands still between two. *)
(***************************************************************************)
EXTENDS TrafficGenerator, PacketCapture

CONSTANTS
  Scenarios,   \* a sequence of sets of streams
  Length,      \* their "duration", a sequence
  start,       \* of each stream, within its scenario
  lead_in, margin,
  MaxCaptureInit, MaxOverrun   \* bounds: ticks a capture takes to start, the
                               \* runner's sleeps and its threads overrun

ASSUME RunnerAssumption ==
  /\ Scenarios \in Seq(SUBSET Stream)
  /\ \A i, j \in DOMAIN Scenarios : i # j => Scenarios[i] \cap Scenarios[j] = {}
  /\ Length \in [DOMAIN Scenarios -> Nat] /\ start \in [Stream -> Nat]
  /\ lead_in \in Nat /\ margin \in Nat
  /\ MaxCaptureInit \in Nat /\ MaxOverrun \in Nat
  /\ \A i \in DOMAIN Scenarios : \A s \in Scenarios[i] :
       start[s] + duration[s] <= Length[i]

VARIABLES
  runner,   \* its place: "begin", "settle", "next", "lead_in", "streams",
            \* "wait", "pause", "stop", "exit", "ended"
  turn,     \* the scenario it is at
  fired,    \* when it started the stream threads, or NotFired
  server    \* "none", "starting", "listening", "gone"

NotFired == -1

vars == <<now, genVars, capVars, runner, turn, fired, server>>

Streams == IF turn \in DOMAIN Scenarios THEN Scenarios[turn] ELSE {}

Init ==
  /\ GenInit /\ CaptureInit
  /\ runner = "begin" /\ turn = 1 /\ fired = NotFired /\ server = "none"

-----------------------------------------------------------------------------
(* tcp_server.py.  Nobody polls it.                                        *)

Bind ==
  /\ server = "starting"
  /\ server' = "listening"
  /\ UNCHANGED <<now, genVars, capVars, runner, turn, fired>>

\* The port cannot be bound, or accept raises.
ServerFails ==
  /\ server \in {"starting", "listening"}
  /\ server' = "gone"
  /\ UNCHANGED <<now, genVars, capVars, runner, turn, fired>>

-----------------------------------------------------------------------------
(* main and run_scenario.                                                  *)

StartServer ==
  /\ runner = "begin"
  /\ server' = "starting" /\ runner' = "settle"
  /\ UNCHANGED <<now, genVars, capVars, turn, fired>>

Settle ==
  /\ runner = "settle"
  /\ runner' = "next"
  /\ UNCHANGED <<now, genVars, capVars, turn, fired, server>>

\* Mutant: the margin is forgotten.
cap_dur_bare == Length[turn]

cap_dur == Length[turn] + margin

StartCapture ==
  /\ runner = "next" /\ turn \in DOMAIN Scenarios
  /\ Popen
  /\ now' = 0
  /\ runner' = "lead_in"
  /\ UNCHANGED <<genVars, turn, fired, server>>

NoMore ==
  /\ runner = "next" /\ turn \notin DOMAIN Scenarios
  /\ runner' = "stop"
  /\ UNCHANGED <<now, genVars, capVars, turn, fired, server>>

\* After the lead-in: a capture that has exited by then ends the scenario ...
Poll ==
  /\ runner = "lead_in" /\ now >= lead_in /\ cap \in Exited
  /\ runner' = "pause"
  /\ UNCHANGED <<now, genVars, capVars, turn, fired, server>>

\* ... and otherwise the stream threads are started.
FireStreams ==
  /\ runner = "lead_in" /\ now >= lead_in /\ cap \notin Exited
  /\ fired' = now
  /\ runner' = "streams"
  /\ UNCHANGED <<now, genVars, capVars, turn, server>>

\* fire_stream: its sleep, then the generator.  The threads are no daemons and
\* get no signal: they go on when the main thread is interrupted.
Launch(s) ==
  /\ fired # NotFired /\ s \in Streams /\ gen[s] = "none"
  /\ now >= fired + start[s]
  /\ Goto(s, "launched")
  /\ begun' = [begun EXCEPT ![s] = now]
  /\ UNCHANGED <<now, stop_requested, next_send, sends, poolVars, syn_only,
                 capVars, runner, turn, fired, server>>

Joined == \A s \in Streams : gen[s] = "ended"

\* Mutant: nobody joins the threads.
JoinStreamsNot ==
  /\ runner = "streams"
  /\ runner' = "wait"
  /\ UNCHANGED <<now, genVars, capVars, turn, fired, server>>

JoinStreams ==
  /\ runner = "streams" /\ Joined
  /\ runner' = "wait"
  /\ UNCHANGED <<now, genVars, capVars, turn, fired, server>>

WaitCapture ==
  /\ runner = "wait" /\ cap \in Exited
  /\ runner' = "pause"
  /\ UNCHANGED <<now, genVars, capVars, turn, fired, server>>

\* Mutant: a scenario whose capture died is tried again.
PauseRetrying ==
  /\ runner = "pause"
  /\ turn' = IF cap = "dead" THEN turn ELSE turn + 1
  /\ fired' = NotFired
  /\ runner' = "next"
  /\ UNCHANGED <<now, genVars, capVars, server>>

Pause ==
  /\ runner = "pause"
  /\ turn' = turn + 1 /\ fired' = NotFired
  /\ runner' = "next"
  /\ UNCHANGED <<now, genVars, capVars, server>>

\* finally: terminate, wait, and kill if that takes too long.
Stop ==
  /\ runner = "stop"
  /\ server' = "gone" /\ runner' = "exit"
  /\ UNCHANGED <<now, genVars, capVars, turn, fired>>

ThreadsOver == fired # NotFired => Joined

\* The interpreter waits for the threads.
RunnerExits ==
  /\ runner = "exit" /\ ThreadsOver
  /\ runner' = "ended"
  /\ UNCHANGED <<now, genVars, capVars, turn, fired, server>>

-----------------------------------------------------------------------------
(* Ctrl-C, once, to the whole process group.  A generator that has not set *)
(* its handler yet dies; the others are asked to stop.                     *)

Interrupt ==
  /\ runner \in {"settle", "next", "lead_in", "streams", "wait", "pause"}
  /\ runner' = "stop"
  /\ gen' = [s \in Stream |-> IF gen[s] = "launched" THEN "ended" ELSE gen[s]]
  /\ stop_requested' = [s \in Stream |->
       stop_requested[s] \/ gen[s] \in {"loop", "teardown", "summary"}]
  /\ begun' = [s \in Stream |-> IF gen[s] = "launched" THEN 0 ELSE begun[s]]
  /\ server' = "gone"
  /\ Interrupted
  /\ UNCHANGED <<now, next_send, sends, poolVars, syn_only, turn, fired>>

-----------------------------------------------------------------------------

Rest == UNCHANGED <<runner, turn, fired, server>>

\* The steps of a generator that put packets of its stream on the wire ...
Sending(s) ==
  /\ \/ EmitSyn(s)
     \/ Connect(s)
     \/ \E t \in inflight[s] : Complete(s, t) /\ server = "listening"
  /\ Sniff(s)
  /\ Rest

\* ... and the others.
Silent(s) ==
  /\ \/ Begin(s) \/ SetupFails(s)
     \/ LeaveLoop(s)
     \/ Submit(s)
     \/ EmitRaises(s)
     \/ \E t \in inflight[s] : Fail(s, t)
     \/ Teardown(s)
     \/ Exit(s)
  /\ UNCHANGED capVars
  /\ Rest

Capture ==
  /\ BeginSniff(now) \/ EndSniff(now, cap_dur) \/ Save
  /\ UNCHANGED <<now, genVars>>
  /\ Rest

CaptureDies == Die /\ UNCHANGED <<now, genVars>> /\ Rest

\* A tick passes when no process is due to act first.
Tick ==
  /\ runner \in {"lead_in", "streams", "wait", "exit"}
  /\ runner = "lead_in" => now < lead_in + MaxOverrun
  /\ runner = "streams" => ~Joined
  /\ runner = "wait" => cap \notin Exited
  /\ runner = "exit" => ~ThreadsOver
  /\ fired # NotFired => \A s \in Streams : gen[s] = "none" => now < fired + start[s] + MaxOverrun
  /\ \A s \in Stream : Prompt(s)
  /\ cap = "starting" => now < MaxCaptureInit
  /\ cap = "sniffing" => now < sniff_from + cap_dur
  /\ cap # "saving"
  /\ now' = now + 1
  /\ UNCHANGED <<genVars, capVars, runner, turn, fired, server>>

Done == runner = "ended" /\ UNCHANGED vars

Step ==
  \/ StartServer \/ Settle \/ StartCapture \/ NoMore \/ Poll \/ FireStreams
  \/ JoinStreams \/ WaitCapture \/ Pause \/ Stop \/ RunnerExits
  \/ \E s \in Stream : Launch(s) \/ Sending(s) \/ Silent(s)
  \/ Capture
  \/ Tick

Next == Step \/ Bind \/ ServerFails \/ CaptureDies \/ Interrupt \/ Done

\* Every process but the server is scheduled, every sleep and timeout ends;
\* nothing has to fail and nobody has to interrupt it.
Spec == Init /\ [][Next]_vars /\ WF_vars(Step)

-----------------------------------------------------------------------------

TypeOK ==
  /\ GenTypeOK /\ CaptureTypeOK(Stream)
  /\ runner \in {"begin", "settle", "next", "lead_in", "streams", "wait",
                 "pause", "stop", "exit", "ended"}
  /\ turn \in 1 .. Len(Scenarios) + 1
  /\ fired \in Nat \cup {NotFired}
  /\ server \in {"none", "starting", "listening", "gone"}

\* A capture holds packets of its own scenario only: the streams of a scenario
\* and the handshakes in their pools are over before the next capture is there,
\* on the same interface and with the same filter.
ScenariosApart == cap \notin Exited => caught \subseteq Streams

PacketSent(s) ==
  \/ syn_only'[s] > syn_only[s]
  \/ completed'[s] > completed[s]
  \/ inflight'[s] \ inflight[s] # {}

\* What a working capture misses.  Nothing is sent before the lead-in is over,
\* so at the beginning only what a capture slower than the lead-in misses; and
\* at the end only what is sent margin - lead_in or more after the stream was to
\* end (less what the runner's own sleep overran), since the capture's clock
\* starts up to a lead-in before the streams'.
MissedOnlyLate ==
  [][\A s \in Stream :
       s \in Streams /\ PacketSent(s) /\ cap \notin {"sniffing", "dead"} /\ runner \notin {"stop", "exit"} =>
         \/ cap = "starting" /\ now >= lead_in
         \/ now + MaxOverrun + lead_in >= fired + start[s] + duration[s] + margin]_vars

\* Whatever dies and whenever it is interrupted, the run ends with no generator,
\* no capture and no server left.
LabEnds ==
  <>[](/\ runner = "ended" /\ server = "gone" /\ cap \in Exited \cup {"none"}
       /\ \A s \in Stream : gen[s] \in {"none", "ended"})
=============================================================================
