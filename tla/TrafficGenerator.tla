-------------------------- MODULE TrafficGenerator --------------------------
(***************************************************************************)
(* TrafficGenerator: one process a stream, with a loop that paces the      *)
(* connections and a thread pool that completes the handshakes off it.     *)
(*                                                                         *)
(* Time is counted in ticks.  The loop may be late for any of its sends    *)
(* (MaxLag bounds by how much), never early.  scenario_runner.py sets no   *)
(* limit on the packets and no log file, so only the duration, a signal or *)
(* an exception ends the loop, and the summary is all that is left of it.  *)
(***************************************************************************)
EXTENDS Integers, Sequences, FiniteSets

CONSTANTS
  Stream,             \* the streams of all the scenarios
  interval,           \* 1 / pps of each stream
  duration,           \* of each stream
  Kinds,              \* per stream: "syn" if its ratio is below 1 or it spoofs,
                      \* "handshake" if its ratio is above 0 and it does not
  workers,            \* the pool's max_workers
  handshake_timeout,
  MaxInit, MaxLag     \* bounds: ticks a process takes to start, a sleep overruns

ASSUME GeneratorAssumption ==
  /\ interval \in [Stream -> Nat \ {0}] /\ duration \in [Stream -> Nat \ {0}]
  /\ Kinds \in [Stream -> (SUBSET {"syn", "handshake"}) \ {{}}]
  /\ workers \in Nat \ {0} /\ handshake_timeout \in Nat \ {0}
  /\ MaxInit \in Nat /\ MaxLag \in Nat

VARIABLES
  now,
  gen,             \* where each process is: "none", "launched", "loop",
                   \* "teardown", "summary", "ended"
  stop_requested,
  begun,           \* when it was launched, then when its loop began
  next_send,
  sends,           \* when it attempted each of its connections
  queued,          \* the attempts submitted to its pool and not yet taken
  inflight,        \* the attempts its workers are at, each with its deadline
  completed,       \* _handshakes_completed
  syn_only,        \* _syn_only_sent
  failed           \* the attempts that came to nothing

loopVars == <<begun, next_send, sends>>
poolVars == <<queued, inflight, completed, failed>>
genVars  == <<gen, stop_requested, loopVars, poolVars, syn_only>>

GenInit ==
  /\ now = 0
  /\ gen = [s \in Stream |-> "none"]
  /\ stop_requested = [s \in Stream |-> FALSE]
  /\ begun = [s \in Stream |-> 0] /\ next_send = [s \in Stream |-> 0]
  /\ sends = [s \in Stream |-> <<>>]
  /\ queued = [s \in Stream |-> <<>>] /\ inflight = [s \in Stream |-> {}]
  /\ completed = [s \in Stream |-> 0] /\ failed = [s \in Stream |-> 0]
  /\ syn_only = [s \in Stream |-> 0]

-----------------------------------------------------------------------------
(* _run_traffic_loop.                                                      *)

Goto(s, place) == gen' = [gen EXCEPT ![s] = place]

Begin(s) ==
  /\ gen[s] = "launched"
  /\ Goto(s, "loop")
  /\ begun' = [begun EXCEPT ![s] = now]
  /\ next_send' = [next_send EXCEPT ![s] = now]
  /\ UNCHANGED <<now, stop_requested, sends, poolVars, syn_only>>

\* _setup raises: no raw socket.
SetupFails(s) ==
  /\ gen[s] = "launched"
  /\ Goto(s, "teardown")
  /\ UNCHANGED <<now, stop_requested, loopVars, poolVars, syn_only>>

\* A turn of the loop begins when its sleep is over, signal or not, or at once
\* if there was none; the turn itself takes no time, a slow one being a late one.
Turn(s) == gen[s] = "loop" /\ now >= next_send[s]

Over(s) == stop_requested[s] \/ now - begun[s] >= duration[s]

LeaveLoop(s) ==
  /\ Turn(s) /\ Over(s)
  /\ Goto(s, "teardown")
  /\ UNCHANGED <<now, stop_requested, loopVars, poolVars, syn_only>>

\* Mutant: no drift guard.
NextSendUnguarded(s) == next_send[s] + interval[s]

\* The drift guard drops what the loop is more than an interval behind.
NextSend(s) ==
  IF next_send[s] + interval[s] < now - interval[s] THEN now
                                                    ELSE next_send[s] + interval[s]

Attempt(s) ==
  /\ Turn(s) /\ ~Over(s)
  /\ sends' = [sends EXCEPT ![s] = Append(@, now)]
  /\ UNCHANGED <<now, stop_requested, begun, inflight, completed>>

\* A handshake is handed to the pool.
Submit(s) ==
  /\ Attempt(s) /\ "handshake" \in Kinds[s]
  /\ next_send' = [next_send EXCEPT ![s] = NextSend(s)]
  /\ queued' = [queued EXCEPT ![s] = Append(@, Len(sends[s]) + 1)]
  /\ UNCHANGED <<gen, failed, syn_only>>

\* _emit_syn sends one itself ...
EmitSyn(s) ==
  /\ Attempt(s) /\ "syn" \in Kinds[s]
  /\ next_send' = [next_send EXCEPT ![s] = NextSend(s)]
  /\ syn_only' = [syn_only EXCEPT ![s] = @ + 1]
  /\ UNCHANGED <<gen, queued, failed>>

\* ... or raises, which ends the loop.
EmitRaises(s) ==
  /\ Attempt(s) /\ "syn" \in Kinds[s]
  /\ Goto(s, "teardown")
  /\ failed' = [failed EXCEPT ![s] = @ + 1]
  /\ UNCHANGED <<next_send, queued, syn_only>>

-----------------------------------------------------------------------------
(* The pool: _complete_handshake_os.                                       *)

\* Mutant: a thread a connection.
CanTakeAlways(s) == queued[s] # <<>>

CanTake(s) == queued[s] # <<>> /\ Cardinality(inflight[s]) < workers

\* A worker takes an attempt, and connect sends its SYN.
Connect(s) ==
  /\ CanTake(s)
  /\ inflight' = [inflight EXCEPT ![s] = @ \cup {<<Head(queued[s]), now + handshake_timeout>>}]
  /\ queued' = [queued EXCEPT ![s] = Tail(@)]
  /\ UNCHANGED <<now, gen, stop_requested, loopVars, completed, failed, syn_only>>

\* The victim's kernel answered in time: the ACK, and the RST of the close.
Complete(s, t) ==
  /\ t \in inflight[s] /\ now <= t[2]
  /\ inflight' = [inflight EXCEPT ![s] = @ \ {t}]
  /\ completed' = [completed EXCEPT ![s] = @ + 1]
  /\ UNCHANGED <<now, gen, stop_requested, loopVars, queued, failed, syn_only>>

\* Refused, or not answered in time.
Fail(s, t) ==
  /\ t \in inflight[s]
  /\ inflight' = [inflight EXCEPT ![s] = @ \ {t}]
  /\ failed' = [failed EXCEPT ![s] = @ + 1]
  /\ UNCHANGED <<now, gen, stop_requested, loopVars, queued, completed, syn_only>>

-----------------------------------------------------------------------------
(* _teardown, _print_summary and the end of the process.                   *)

PoolIdle(s) == queued[s] = <<>> /\ inflight[s] = {}

\* Mutant: shutdown(wait=False).
ShutDownAtOnce(s) == TRUE

ShutDown(s) == PoolIdle(s)

Teardown(s) ==
  /\ gen[s] = "teardown" /\ ShutDown(s)
  /\ Goto(s, "summary")
  /\ UNCHANGED <<now, stop_requested, loopVars, poolVars, syn_only>>

\* The process exits, and what it held goes with it.
Exit(s) ==
  /\ gen[s] = "summary" /\ PoolIdle(s)
  /\ Goto(s, "ended")
  /\ begun' = [begun EXCEPT ![s] = 0] /\ next_send' = [next_send EXCEPT ![s] = 0]
  /\ sends' = [sends EXCEPT ![s] = <<>>]
  /\ completed' = [completed EXCEPT ![s] = 0] /\ failed' = [failed EXCEPT ![s] = 0]
  /\ syn_only' = [syn_only EXCEPT ![s] = 0]
  /\ UNCHANGED <<now, stop_requested, queued, inflight>>

\* What the clock waits for: the bounds MaxLag and the deadlines, and the
\* steps that take no time.
Prompt(s) ==
  /\ gen[s] = "launched" => now < begun[s] + MaxInit
  /\ gen[s] = "loop" => now < next_send[s] + MaxLag
  /\ gen[s] \in {"teardown", "summary"} => ~PoolIdle(s)
  /\ ~CanTake(s)
  /\ \A t \in inflight[s] : now < t[2]

-----------------------------------------------------------------------------

Taken == (Nat \ {0}) \X Nat

GenTypeOK ==
  /\ now \in Nat
  /\ gen \in [Stream -> {"none", "launched", "loop", "teardown", "summary",
                         "ended"}]
  /\ stop_requested \in [Stream -> BOOLEAN]
  /\ begun \in [Stream -> Nat] /\ next_send \in [Stream -> Nat]
  /\ sends \in [Stream -> Seq(Nat)]
  /\ queued \in [Stream -> Seq(Nat \ {0})]
  /\ inflight \in [Stream -> SUBSET Taken]
  /\ \A s \in Stream : Cardinality(inflight[s]) <= workers
  /\ completed \in [Stream -> Nat] /\ failed \in [Stream -> Nat]
  /\ syn_only \in [Stream -> Nat]

\* However late the loop runs, it never catches up by more than two connections:
\* any k of them in a row take at least k - 3 intervals.
PacedSends ==
  \A s \in Stream : \A a, b \in DOMAIN sends[s] :
    a < b => sends[s][b] - sends[s][a] >= (b - a - 2) * interval[s]

\* The summary is printed when every connection attempted has been completed,
\* sent as a lone SYN or has failed, and none is still to be.
SummaryAccounts ==
  \A s \in Stream : gen[s] = "summary" =>
    /\ PoolIdle(s)
    /\ Len(sends[s]) = completed[s] + syn_only[s] + failed[s]
=============================================================================
