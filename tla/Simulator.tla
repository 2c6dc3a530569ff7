------------------------------ MODULE Simulator -----------------------------
(***************************************************************************)
(* SNPSimulator, one run after another into the same export directory:     *)
(* the capture's windows are exported over what is there, every window     *)
(* file found is encoded, the lines are posted to the engine in groups of  *)
(* input_count, one daemon thread a group, and the histories are scored.   *)
(*                                                                         *)
(* A history is abstracted to the features Analyzer would mark in it, a    *)
(* request to its group: the engine builds a new system for each one.      *)
(* A later run is of a capture of the same name: re-recorded, or windowed  *)
(* otherwise.                                                              *)
(***************************************************************************)
EXTENDS Encoder

CONSTANTS
  input_count,  \* --input-sources
  Captures,     \* sequences of windows, which are sequences of packets
  Answer(_),    \* the features marked in the engine's history of a group
  MaxRuns       \* bound on the runs into the directory

ASSUME SimulatorAssumption ==
  /\ input_count \in Nat \ {0} /\ MaxRuns \in Nat \ {0}
  /\ Captures \subseteq Seq(Seq(Packet))
  /\ \A capture \in Captures : Len(capture) > 0  \* an empty one has one window

VARIABLES
  run,        \* which run this is
  capture,    \* the windows of its capture
  pc,         \* where the main thread is
  files,      \* the window files of the directory, by index
  groups,     \* what each thread posts
  thread,     \* where each thread is
  histories,  \* the history files of the directory, by index: the run that
              \* opened it last, the features in it, and whether its last row
              \* is cut before the last column that is scored
  unread,     \* the histories Analyzer has listed and not read yet
  seen,       \* the features it has marked in those it has read
  result      \* the features in output-<file_name>.json

dir  == <<files, histories, result>>
vars == <<run, capture, pc, dir, groups, thread, unread, seen>>

Feature == {"rate", "ratio", "pattern", "alarm"}

\* No file of that name.
Absent == [by |-> 0, marks |-> {}, cut |-> FALSE]

Present == {k \in DOMAIN histories : histories[k] # Absent}

\* What Analyzer marks in the engine's history of a group.
Marks(group) == Feature \cap Answer(group)

Ended(k) == thread[k] \in {"saved", "gave up"}

\* The process: its threads are daemons, and end with it.
Running == pc \notin {"preprocess", "scored", "raised"}

\* Mutant: the windows are added to the files of an earlier run.
OverAppended(contents, old) ==
  [w \in DOMAIN (contents \o SubSeq(old, Len(contents) + 1, Len(old))) |->
     (IF w \in DOMAIN old THEN old[w] ELSE <<>>)
       \o (IF w \in DOMAIN contents THEN contents[w] ELSE <<>>)]

\* The directory's files once contents are written over those of the same index.
Over(contents, old) ==
  contents \o SubSeq(old, Len(contents) + 1, Len(old))

\* Mutant: the last group is not padded.
GroupedUnpadded(lines) ==
  [k \in 1..((Len(lines) + input_count - 1) \div input_count) |->
    SubSeq(lines, (k - 1) * input_count + 1,
           IF k * input_count <= Len(lines) THEN k * input_count ELSE Len(lines))]

\* input_count lines a group, the last one padded with end markers.
Grouped(lines) ==
  [k \in 1..((Len(lines) + input_count - 1) \div input_count) |->
    [i \in 1..input_count |->
       LET l == (k - 1) * input_count + i
       IN  IF l <= Len(lines) THEN lines[l] ELSE <<EndOfSubstream>>]]

Init ==
  /\ run = 1
  /\ capture \in Captures
  /\ pc = "preprocess"
  /\ files = <<>> /\ histories = <<>> /\ result = {}
  /\ groups = <<>> /\ thread = <<>> /\ unread = {} /\ seen = {}

-----------------------------------------------------------------------------
(* The main thread.                                                        *)

\* _preprocess, and simulate up to the first start().
Preprocess ==
  /\ pc = "preprocess"
  /\ files' = Over(capture, files)
  /\ \E lines \in {encode_packets(files')} : groups' = Grouped(lines)
  /\ thread' = [k \in DOMAIN groups' |-> "new"]
  /\ histories' = [k \in DOMAIN histories \cup DOMAIN groups' |->
                     IF k \in DOMAIN histories THEN histories[k] ELSE Absent]
  /\ pc' = "simulate"
  /\ UNCHANGED <<run, capture, result, unread, seen>>

Start(k) ==
  /\ pc = "simulate" /\ thread[k] = "new"
  /\ \A j \in 1..(k - 1) : thread[j] # "new"
  /\ thread' = [thread EXCEPT ![k] = "posted"]
  /\ UNCHANGED <<run, capture, pc, dir, groups, unread, seen>>

\* A start() that raises: no thread after it is started, none before it is joined,
\* and the run goes on.
StartRaises ==
  /\ pc = "simulate"
  /\ \E k \in DOMAIN thread : thread[k] = "new"
  /\ pc' = "not joined"
  /\ UNCHANGED <<run, capture, dir, groups, thread, unread, seen>>

\* The joins, and the log of "Successfully fetch all histories."
Join ==
  /\ pc = "simulate"
  /\ \A k \in DOMAIN thread : Ended(k)
  /\ pc' = "fetched"
  /\ UNCHANGED <<run, capture, dir, groups, thread, unread, seen>>

\* Analyzer.start: every history of the directory counts ...
List ==
  /\ pc \in {"fetched", "not joined"}
  /\ pc' = "score"
  /\ unread' = Present /\ seen' = {}
  /\ UNCHANGED <<run, capture, dir, groups, thread>>

\* ... as it is when it is opened, in the order of the listing ...
Read(k) ==
  /\ pc = "score" /\ k \in unread /\ ~histories[k].cut
  /\ unread' = unread \ {k}
  /\ seen' = seen \cup histories[k].marks
  /\ UNCHANGED <<run, capture, pc, dir, groups, thread>>

\* ... and a row without its last columns, which DictReader makes None, is a
\* TypeError that ends the program: an earlier run's result stays.
ReadRaises(k) ==
  /\ pc = "score" /\ k \in unread /\ histories[k].cut
  /\ pc' = "raised"
  /\ UNCHANGED <<run, capture, dir, groups, thread, unread, seen>>

Score ==
  /\ pc = "score" /\ unread = {}
  /\ result' = seen
  /\ pc' = "scored"
  /\ UNCHANGED <<run, capture, files, histories, groups, thread, unread, seen>>

\* Another run into the directory, once this one is over or was killed.
Rerun ==
  /\ pc # "preprocess" /\ run < MaxRuns
  /\ run' = run + 1
  /\ capture' \in Captures
  /\ pc' = "preprocess"
  /\ groups' = <<>> /\ thread' = <<>> /\ unread' = {} /\ seen' = {}
  /\ UNCHANGED dir

-----------------------------------------------------------------------------
(* Thread k: _t_simulate_spike_train.                                      *)

Posted(k)  == Running /\ thread[k] \in {"posted", "reposted"}
Writing(k) == Running /\ thread[k] \in {"writing", "rewriting"}

\* Mutant: a request that failed is sent again for as long as it fails.
FailedAgain(k) == "backoff"

\* What follows a failed attempt.
Failed(k) == IF thread[k] \in {"posted", "writing"} THEN "backoff" ELSE "gave up"

\* Mutant: the file is opened to append.
BegunAppended(k) ==
  [by : {run}, marks : {histories[k].marks \cup new : new \in SUBSET Marks(groups[k])},
   cut : {FALSE}]

\* As much of a history as is in the file at some moment of the writing, which may
\* stop within a row: what such a file says is never scored.
Begun(k) ==
  [by : {run}, marks : SUBSET Marks(groups[k]), cut : {FALSE}]
    \cup {[by |-> run, marks |-> {}, cut |-> TRUE]}

\* Mutant: the template is shared by the threads, not copied.
SavedShared(k) ==
  LET last == CHOOSE j \in DOMAIN thread :
                /\ thread[j] # "new"
                /\ \A i \in DOMAIN thread : thread[i] # "new" => i <= j
  IN  [by |-> run, marks |-> histories[k].marks \cup Marks(groups[last]), cut |-> FALSE]

\* The rest, of the answer to the thread's own copy of the template.
Saved(k) ==
  [by |-> run, marks |-> histories[k].marks \cup Marks(groups[k]), cut |-> FALSE]

\* _history_to_csv opens the file, and empties it ...
Write(k) ==
  /\ Posted(k)
  /\ \E begun \in Begun(k) : histories' = [histories EXCEPT ![k] = begun]
  /\ thread' = [thread EXCEPT ![k] = IF @ = "posted" THEN "writing" ELSE "rewriting"]
  /\ UNCHANGED <<run, capture, pc, files, result, groups, unread, seen>>

\* ... and writes the rest.
Save(k) ==
  /\ Writing(k)
  /\ histories' = [histories EXCEPT ![k] = Saved(k)]
  /\ thread' = [thread EXCEPT ![k] = "saved"]
  /\ UNCHANGED <<run, capture, pc, files, result, groups, unread, seen>>

\* No answer, one without a history, or a write that fails.
Fail(k) ==
  /\ Posted(k) \/ Writing(k)
  /\ thread' = [thread EXCEPT ![k] = Failed(k)]
  /\ UNCHANGED <<run, capture, pc, dir, groups, unread, seen>>

\* Accepted and never answered: requests.post has no timeout.
Hang(k) ==
  /\ Posted(k)
  /\ thread' = [thread EXCEPT ![k] = "hung"]
  /\ UNCHANGED <<run, capture, pc, dir, groups, unread, seen>>

Retry(k) ==
  /\ Running /\ thread[k] = "backoff"
  /\ thread' = [thread EXCEPT ![k] = "reposted"]
  /\ UNCHANGED <<run, capture, pc, dir, groups, unread, seen>>

-----------------------------------------------------------------------------

Main ==
  \/ Preprocess \/ StartRaises \/ Join \/ List \/ Score
  \/ \E k \in DOMAIN thread : Start(k)
  \/ \E k \in DOMAIN histories : Read(k) \/ ReadRaises(k)

Work(k) == Write(k) \/ Save(k) \/ Fail(k) \/ Hang(k) \/ Retry(k)

Next == Main \/ Rerun \/ \E k \in DOMAIN thread : Work(k)

\* Every thread is scheduled; nobody has to run the program again.  A request is
\* answered, fails, or hangs for ever.
Spec ==
  /\ Init /\ [][Next]_vars
  /\ WF_vars(Main) /\ WF_vars(\E k \in DOMAIN thread : Work(k))

-----------------------------------------------------------------------------

TypeOK ==
  /\ run \in 1..MaxRuns /\ capture \in Captures
  /\ pc \in {"preprocess", "simulate", "fetched", "not joined", "score", "scored", "raised"}
  /\ DOMAIN thread = DOMAIN groups
  /\ \A k \in DOMAIN groups : k \in DOMAIN histories /\ Len(groups[k]) = input_count
  /\ Range(thread) \subseteq {"new", "posted", "writing", "backoff", "reposted", "rewriting",
                             "saved", "gave up", "hung"}
  /\ Range(histories) \subseteq [by : 0..run, marks : SUBSET Feature, cut : BOOLEAN]
  /\ unread \subseteq Present /\ seen \subseteq Feature /\ result \subseteq Feature

\* The features the engine marks in some group of this run.
Marked(ks) == UNION {Marks(groups[k]) : k \in ks}

SavedOnes == {k \in DOMAIN thread : thread[k] = "saved"}

\* Every thread was joined: in a run that is scored and was not, some were never
\* started.
AllEnded == \A k \in DOMAIN thread : Ended(k)

\* With as many devices as inputs, group k is window k and its line i holds the
\* symbols of device i, whichever devices are idle in it.
GroupIsWindow ==
  LET devices == _discover_devices(files)
  IN  pc # "preprocess" /\ Len(devices) = input_count =>
        /\ Len(groups) = Len(files)
        /\ \A k \in DOMAIN groups : \A i \in 1..input_count :
             groups[k][i] = Line(files[k], devices[i])

\* Where the symbols are in the groups: the group, the line and the place in it.
PostedPlaces ==
  UNION {{k} \X {i} \X (1..(Len(groups[k][i]) - 1)) : k \in DOMAIN groups, i \in 1..input_count}

\* Where the packets sent to the target port are in the window files.
SentPlaces ==
  UNION {{w} \X {m \in DOMAIN files[w] : files[w][m].to_target} : w \in DOMAIN files}

\* Every packet sent to the target port is the symbol it stands for in exactly one
\* group, and nothing else is a symbol: not the victim's replies.
EveryPacketPosted ==
  pc # "preprocess" =>
    \A symbol \in 1..4 :
      Cardinality({p \in PostedPlaces : groups[p[1]][p[2]][p[3]] = symbol}) =
        Cardinality({q \in SentPlaces : _symbol(files[q[1]][q[2]]) = symbol})

\* In a new directory the verdict has no feature that no group of the run has,
\* whatever requests, writes and starts failed; once the threads are joined it has
\* every feature of the saved groups.
FirstVerdict ==
  run = 1 /\ pc = "scored" =>
    /\ result \subseteq Marked(DOMAIN groups)
    /\ AllEnded => Marked(SavedOnes) \subseteq result

\* The request for a window, of so many devices as there are inputs.
Request(window, devices) == [i \in 1..input_count |-> Line(window, devices[i])]

\* A run that loses no group, in a directory where the run before it had no more
\* windows and groups, is scored by the windows of its own capture and no other.
RerunVerdict ==
  LET devices == _discover_devices(capture)
  IN  /\ pc = "scored" /\ SavedOnes = DOMAIN thread
      /\ Len(files) = Len(capture) /\ DOMAIN histories = DOMAIN groups
      /\ Len(devices) = input_count
      => result = UNION {Marks(Request(window, devices)) : window \in Range(capture)}

\* Whatever an earlier run left, was killed at or failed to write, a feature of the
\* verdict that no window of the run's own capture shows is that of a window file
\* past the capture's last one, encoded again, or of a history that this run never
\* opened: its group was not fetched, or it has no such group.
StaleOnlyLeftOver ==
  LET devices == _discover_devices(files)
  IN  pc = "scored" /\ AllEnded /\ Len(devices) = input_count =>
        \A f \in result :
          \/ \E window \in Range(capture) : f \in Marks(Request(window, devices))
          \/ \E w \in (Len(capture) + 1)..Len(files) : f \in Marks(Request(files[w], devices))
          \/ \E k \in Present \ SavedOnes : histories[k].by < run /\ f \in histories[k].marks

\* However many requests fail, a run comes to an end: with a verdict, or by the
\* exception that a history cut within a row raises.  It waits for ever only for
\* a request that is never answered.
EveryRunEnds ==
  <>[] \/ pc = "scored"
       \/ pc = "raised" /\ \E k \in Present : histories[k].cut
       \/ pc = "simulate" /\ \E k \in DOMAIN thread : thread[k] = "hung"

\* simulator.py, once the threads are joined: "Successfully fetch all histories."
AllHistoriesFetched == pc = "fetched" => SavedOnes = DOMAIN thread
=============================================================================
