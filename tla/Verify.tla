------------------------------- MODULE Verify -------------------------------
(***************************************************************************)
(* verify.py: it starts an engine of its own on a port that was free,      *)
(* waits until something answers there, runs each scenario's capture and   *)
(* compares the verdict with the label.                                    *)
(*                                                                         *)
(* The run of a capture is abstracted from Simulator to what becomes of    *)
(* each of its windows: its history is saved, cut short or never fetched,  *)
(* or its request is never answered.                                       *)
(* What an engine marks in a window is a constant.  Another process may    *)
(* take the port whenever it is free, and serve what that engine marks.    *)
(***************************************************************************)
EXTENDS Integers, Sequences, FiniteSets

CONSTANTS
  Scenarios,    \* scenarios.json: a sequence of [expected, captures], the
                \* captures sorted by name and each a set of windows
  Marks,        \* Marks[who][window], for who "engine" and "other"
  MaxProbes     \* the readiness loop's 120

Features == {"rate", "ratio", "pattern"}
Turns    == DOMAIN Scenarios

Window == UNION {UNION {Scenarios[i].captures[c] : c \in DOMAIN Scenarios[i].captures} :
                   i \in Turns}

ASSUME VerifyAssumption ==
  /\ MaxProbes \in Nat \ {0}
  /\ Scenarios \in Seq([expected : SUBSET Features, captures : Seq(SUBSET Window)])
  /\ Marks \in [{"engine", "other"} -> [Window -> SUBSET (Features \cup {"alarm"})]]

VARIABLES
  pc,        \* "begin", "spawn", "poll", "get", "next", "run", "finally",
             \* "report", "ended"
  proc,      \* the engine's process: "none", "starting", "up", "gone"
  port,      \* who is bound to it: "free", "engine", "other"
  probes,
  turn,      \* the scenario it is at
  pending,   \* the windows of its capture still without an outcome
  hung,      \* those of them whose request is never answered
  dir,       \* per directory of out_dir: the features in its histories
  answers,   \* what was answered: scenario, window, by whom, and if it was saved
  passed, total,
  code       \* the exit code, or NoCode

count == <<passed, total>>
vars  == <<pc, proc, port, probes, turn, pending, hung, dir, answers, count, code>>

NoCode == -1

Init ==
  /\ pc = "begin" /\ proc = "none" /\ port \in {"free", "other"}
  /\ probes = 0 /\ turn = 1 /\ pending = {} /\ hung = {}
  /\ dir = [i \in Turns |-> {}] /\ answers = {}
  /\ passed = 0 /\ total = 0 /\ code = NoCode

-----------------------------------------------------------------------------
(* The processes around it.                                                *)

Bind ==
  /\ proc = "starting" /\ port = "free"
  /\ proc' = "up" /\ port' = "engine"
  /\ UNCHANGED <<pc, probes, turn, pending, hung, dir, answers, count, code>>

\* It cannot bind, or it crashes, and the requests it holds fail.
Die ==
  /\ proc \in {"starting", "up"}
  /\ proc' = "gone"
  /\ port' = IF port = "engine" THEN "free" ELSE port
  /\ hung' = IF port = "engine" THEN {} ELSE hung
  /\ UNCHANGED <<pc, probes, turn, pending, dir, answers, count, code>>

OtherBinds ==
  /\ pc \notin {"begin", "ended"} /\ port = "free"
  /\ port' = "other"
  /\ UNCHANGED <<pc, proc, probes, turn, pending, hung, dir, answers, count, code>>

-----------------------------------------------------------------------------
(* free_port and engine.                                                   *)

\* The kernel names a port nobody holds, and it is released at once.
FreePort ==
  /\ pc = "begin"
  /\ pc' = "spawn" /\ port' = "free"
  /\ UNCHANGED <<proc, probes, turn, pending, hung, dir, answers, count, code>>

Spawn ==
  /\ pc = "spawn"
  /\ pc' = "poll" /\ proc' = "starting"
  /\ UNCHANGED <<port, probes, turn, pending, hung, dir, answers, count, code>>

\* Mutant: the RuntimeError is raised outside the try, past the finally.
NotReadyAndOut ==
  /\ pc' = "ended" /\ code' = 1
  /\ UNCHANGED <<proc, port, probes, turn, pending, hung, dir, answers, count>>

\* A RuntimeError.
NotReady ==
  /\ pc' = "finally" /\ code' = 1
  /\ UNCHANGED <<proc, port, probes, turn, pending, hung, dir, answers, count>>

\* The engine exited before it was ready, or did not become ready.
PollFails == pc = "poll" /\ (proc = "gone" \/ probes = MaxProbes) /\ NotReady

Poll ==
  /\ pc = "poll" /\ proc # "gone" /\ probes < MaxProbes
  /\ pc' = "get"
  /\ UNCHANGED <<proc, port, probes, turn, pending, hung, dir, answers, count, code>>

\* Whoever answers is taken for the engine.
Ready ==
  /\ pc = "get" /\ port # "free"
  /\ pc' = "next"
  /\ UNCHANGED <<proc, port, probes, turn, pending, hung, dir, answers, count, code>>

\* Refused, or not answered within the second.
NoAnswer ==
  /\ pc = "get"
  /\ pc' = "poll" /\ probes' = probes + 1
  /\ UNCHANGED <<proc, port, turn, pending, hung, dir, answers, count, code>>

-----------------------------------------------------------------------------
(* main's loop and run_scenario.                                           *)

\* Mutant: one directory for all.
OutDirShared(i) == 1

OutDir(i) == i

find_capture(i) == Scenarios[i].captures[Len(Scenarios[i].captures)]

HasCapture(i) == Scenarios[i].captures # <<>>

\* Mutant: a scenario without a capture counts as passed.
SkipPassed ==
  /\ pc = "next" /\ turn \in Turns /\ ~HasCapture(turn)
  /\ turn' = turn + 1 /\ passed' = passed + 1
  /\ UNCHANGED <<pc, proc, port, probes, pending, hung, dir, answers, total, code>>

Skip ==
  /\ pc = "next" /\ turn \in Turns /\ ~HasCapture(turn)
  /\ turn' = turn + 1
  /\ UNCHANGED <<pc, proc, port, probes, pending, hung, dir, answers, count, code>>

StartScenario ==
  /\ pc = "next" /\ turn \in Turns /\ HasCapture(turn)
  /\ pc' = "run" /\ total' = total + 1
  /\ pending' = find_capture(turn)
  /\ UNCHANGED <<proc, port, probes, turn, hung, dir, answers, passed, code>>

\* The history of a window is saved ...
Save(w) ==
  /\ pc = "run" /\ w \in pending \ hung /\ port # "free"
  /\ pending' = pending \ {w}
  /\ dir' = [dir EXCEPT ![OutDir(turn)] = @ \cup Marks[port][w]]
  /\ answers' = answers \cup {<<turn, w, port, "saved">>}
  /\ UNCHANGED <<pc, proc, port, probes, turn, hung, count, code>>

\* ... or part of it, the write and its retry having failed ...
Cut(w) ==
  /\ pc = "run" /\ w \in pending \ hung /\ port # "free"
  /\ pending' = pending \ {w}
  /\ \E written \in SUBSET Marks[port][w] :
       dir' = [dir EXCEPT ![OutDir(turn)] = @ \cup written]
  /\ answers' = answers \cup {<<turn, w, port, "cut">>}
  /\ UNCHANGED <<pc, proc, port, probes, turn, hung, count, code>>

\* ... or nothing: neither request was answered ...
Lose(w) ==
  /\ pc = "run" /\ w \in pending \ hung
  /\ pending' = pending \ {w}
  /\ UNCHANGED <<pc, proc, port, probes, turn, hung, dir, answers, count, code>>

\* ... or its thread is waited for: whoever holds the port accepts a request and
\* never answers it.  requests.post has no timeout.
Hang(w) ==
  /\ pc = "run" /\ w \in pending \ hung /\ port # "free"
  /\ hung' = hung \cup {w}
  /\ UNCHANGED <<pc, proc, port, probes, turn, pending, dir, answers, count, code>>

\* A thread that cannot be started: none of the others is waited for.
NotJoined ==
  /\ pc = "run" /\ pending # {}
  /\ pending' = {} /\ hung' = {}
  /\ UNCHANGED <<pc, proc, port, probes, turn, dir, answers, count, code>>

\* expected_label and the majority, against the scored histories.
Correct(got, expected) ==
  /\ got \cap Features = expected
  /\ "alarm" \in got <=> Cardinality(expected) >= 2

Compare ==
  /\ pc = "run" /\ pending = {}
  /\ passed' = IF Correct(dir[OutDir(turn)], Scenarios[turn].expected)
                 THEN passed + 1 ELSE passed
  /\ turn' = turn + 1 /\ pc' = "next"
  /\ UNCHANGED <<proc, port, probes, pending, hung, dir, answers, total, code>>

\* A capture that cannot be read, or a history cut within a row that cannot be
\* scored: the exception ends main, by its return 1 or by a traceback.
Raise ==
  /\ pc = "run" /\ pending \in {find_capture(turn), {}} /\ hung = {}
  /\ pc' = "finally" /\ code' = 1 /\ pending' = {}
  /\ UNCHANGED <<proc, port, probes, turn, hung, dir, answers, count>>

AllRun ==
  /\ pc = "next" /\ turn \notin Turns
  /\ pc' = "finally"
  /\ UNCHANGED <<proc, port, probes, turn, pending, hung, dir, answers, count, code>>

\* engine's finally: terminate, wait, and kill if that takes too long.
StopEngine ==
  /\ pc = "finally"
  /\ pc' = "report" /\ proc' = "gone"
  /\ port' = IF port = "engine" THEN "free" ELSE port
  /\ UNCHANGED <<probes, turn, pending, hung, dir, answers, count, code>>

ExitCode == IF total > 0 /\ passed = total THEN 0 ELSE 1

Report ==
  /\ pc = "report"
  /\ pc' = "ended" /\ code' = IF code = NoCode THEN ExitCode ELSE code
  /\ UNCHANGED <<proc, port, probes, turn, pending, hung, dir, answers, count>>

Done == pc = "ended" /\ UNCHANGED vars

Main ==
  \/ FreePort \/ Spawn \/ PollFails \/ Poll \/ Ready \/ NoAnswer
  \/ Skip \/ StartScenario \/ Compare \/ AllRun
  \/ \E w \in Window : Save(w) \/ Cut(w) \/ Lose(w) \/ Hang(w)
  \/ StopEngine \/ Report

Next == Main \/ NotJoined \/ Raise \/ Bind \/ Die \/ OtherBinds \/ Done

\* It is scheduled, and a request is answered, fails or hangs for ever; nothing need
\* raise, and the engine need not ever bind, nor ever exit by itself.
Spec == Init /\ [][Next]_vars /\ WF_vars(Main)

-----------------------------------------------------------------------------

TypeOK ==
  /\ pc \in {"begin", "spawn", "poll", "get", "next", "run", "finally", "report",
             "ended"}
  /\ proc \in {"none", "starting", "up", "gone"}
  /\ port \in {"free", "engine", "other"}
  /\ probes \in 0 .. MaxProbes /\ turn \in 1 .. Len(Scenarios) + 1
  /\ hung \subseteq pending /\ pending \subseteq Window
  /\ dir \in [Turns -> SUBSET (Features \cup {"alarm"})]
  /\ answers \subseteq Turns \X Window \X {"engine", "other"} \X {"saved", "cut"}
  /\ total \in 0 .. Len(Scenarios) /\ passed \in 0 .. total
  /\ code \in {NoCode, 0, 1}

\* What the answers to scenario i's own windows mark.
Answered(i, outcomes) ==
  UNION {Marks[a[3]][a[2]] : a \in {b \in answers : b[1] = i /\ b[4] \in outcomes}}

\* An exit code of 0 is earned: some scenario was run, and in every scenario that
\* has a capture each expected feature was marked in an answer to a window of
\* that capture, and so was the alarm if it was due, while no window whose history
\* was saved marks anything else.  Windows that were lost only ever take away.
PassEarned ==
  code = 0 =>
    /\ \E i \in Turns : HasCapture(i)
    /\ \A i \in Turns : HasCapture(i) =>
         LET expected == Scenarios[i].expected
             due == expected \cup (IF Cardinality(expected) >= 2 THEN {"alarm"} ELSE {})
         IN  /\ due \subseteq Answered(i, {"saved", "cut"})
             /\ Answered(i, {"saved"}) \subseteq due

\* Whatever dies, raises or is not ready in time, it ends with an exit code and
\* leaves no engine behind, unless it waits for ever: for requests that whoever
\* holds the port accepted and never answers, and for nothing else.
VerifyEnds ==
  \/ <>[](pc = "ended" /\ code # NoCode /\ proc \in {"none", "gone"})
  \/ <>[](pc = "run" /\ hung # {} /\ pending = hung)
=============================================================================
