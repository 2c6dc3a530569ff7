----------------------------- MODULE VerifyProofs ---------------------------
(***************************************************************************)
(* What an exit code of 0 of the verification script says, for any         *)
(* scenarios and captures, whatever the engines that answer mark, and      *)
(* whenever the script's own engine dies.                                  *)
(***************************************************************************)
EXTENDS Verify, TLAPS

\* What scenario i is to find, and that its answers say just that.
Due(i) ==
  Scenarios[i].expected \cup (IF Cardinality(Scenarios[i].expected) >= 2 THEN {"alarm"} ELSE {})

Earned(i) ==
  /\ Due(i) \subseteq Answered(i, {"saved", "cut"})
  /\ Answered(i, {"saved"}) \subseteq Due(i)

LEMMA ElementOf ==
  ASSUME NEW S, NEW s \in Seq(S)
  PROVE  \A i \in 1 .. Len(s) : s[i] \in S
OBVIOUS

LEMMA Parameters ==
  /\ MaxProbes \in Nat /\ MaxProbes >= 1
  /\ Len(Scenarios) \in Nat /\ Turns = 1 .. Len(Scenarios)
  /\ \A i \in Turns : /\ Scenarios[i].expected \subseteq Features
                      /\ Scenarios[i].captures \in Seq(SUBSET Window)
  /\ \A who \in {"engine", "other"}, w \in Window :
       Marks[who][w] \subseteq Features \cup {"alarm"}
<1>1. Scenarios \in Seq([expected : SUBSET Features, captures : Seq(SUBSET Window)])
  BY VerifyAssumption
<1>2. \A i \in 1 .. Len(Scenarios) :
        Scenarios[i] \in [expected : SUBSET Features, captures : Seq(SUBSET Window)]
  BY <1>1, ElementOf
<1>3. Len(Scenarios) \in Nat /\ Turns = 1 .. Len(Scenarios)
  BY <1>1 DEF Turns
<1>4. \A who \in {"engine", "other"}, w \in Window :
        Marks[who][w] \subseteq Features \cup {"alarm"}
  BY VerifyAssumption
<1>5. MaxProbes \in Nat /\ MaxProbes >= 1
  BY VerifyAssumption
<1>6. QED
  BY <1>2, <1>3, <1>4, <1>5

LEMMA CaptureIsWindows ==
  ASSUME NEW i \in Turns, HasCapture(i)
  PROVE  find_capture(i) \subseteq Window
<1>1. Scenarios[i].captures \in Seq(SUBSET Window) /\ Scenarios[i].captures # <<>>
  BY Parameters DEF HasCapture
<1>2. QED
  BY <1>1 DEF find_capture

-----------------------------------------------------------------------------

\* Where the main thread is says what it has done; the scenario that is being
\* run, or raised, is counted and not compared.
Placed ==
  /\ pc = "get" => probes < MaxProbes
  /\ pc = "run" => turn \in Turns /\ HasCapture(turn)
  /\ pc # "run" => hung = {}
  /\ pc \notin {"finally", "report", "ended"} => code = NoCode
  /\ pc \in {"finally", "report"} => code # 0
  /\ pc \in {"finally", "report", "ended"} /\ code # 1 => turn \notin Turns
  /\ turn \in Turns \/ (pc # "run" /\ total <= Len(Scenarios))
  /\ total <= turn /\ (pc \notin {"run", "finally", "report", "ended"} => total <= turn - 1)
  /\ total > 0 => \E i \in Turns : HasCapture(i)

Compared == IF pc = "run" THEN total - 1 ELSE total

TypeInv == TypeOK /\ Placed /\ passed <= Compared

LEMMA TypeInit == Init => TypeInv
  BY Parameters DEF Init, TypeInv, TypeOK, Placed, Compared, NoCode

LEMMA TypeNext == TypeInv /\ [Next]_vars => TypeInv'
<1> SUFFICES ASSUME TypeInv, [Next]_vars PROVE TypeInv'
  OBVIOUS
<1> USE Parameters DEF TypeInv, TypeOK, Placed, Compared, count, NoCode
<1>1. CASE Bind \/ Die \/ OtherBinds
  BY <1>1 DEF Bind, Die, OtherBinds
<1>2. CASE FreePort \/ Spawn \/ PollFails \/ Poll \/ Ready \/ NoAnswer
  BY <1>2 DEF FreePort, Spawn, PollFails, NotReady, Poll, Ready, NoAnswer
<1>3. CASE Skip
  BY <1>3 DEF Skip
<1>4. CASE StartScenario
  <2>1. turn \in Turns /\ HasCapture(turn) /\ find_capture(turn) \subseteq Window
    BY <1>4, CaptureIsWindows DEF StartScenario
  <2>2. QED
    BY <1>4, <2>1 DEF StartScenario
<1>5. ASSUME NEW w \in Window, Save(w) \/ Cut(w) \/ Lose(w) PROVE TypeInv'
  <2>1. turn \in Turns
    BY <1>5 DEF Save, Cut, Lose
  <2>2. dir' \in [Turns -> SUBSET (Features \cup {"alarm"})]
    <3>1. CASE Save(w)
      <4>1. Marks[port][w] \subseteq Features \cup {"alarm"}
        BY <3>1 DEF Save
      <4>2. QED
        BY <2>1, <3>1, <4>1 DEF Save, OutDir
    <3>2. CASE Cut(w)
      <4>1. Marks[port][w] \subseteq Features \cup {"alarm"}
        BY <3>2 DEF Cut
      <4>2. QED
        BY <2>1, <3>2, <4>1 DEF Cut, OutDir
    <3>3. CASE Lose(w)
      BY <3>3 DEF Lose
    <3>4. QED
      BY <1>5, <3>1, <3>2, <3>3
  <2>3. answers' \subseteq Turns \X Window \X {"engine", "other"} \X {"saved", "cut"}
    BY <1>5, <2>1 DEF Save, Cut, Lose
  <2>4. QED
    BY <1>5, <2>2, <2>3 DEF Save, Cut, Lose
<1>6. CASE Compare
  BY <1>6 DEF Compare
<1>7. CASE Raise \/ AllRun \/ NotJoined \/ \E w \in Window : Hang(w)
  BY <1>7 DEF Raise, AllRun, NotJoined, Hang
<1>8. CASE StopEngine
  BY <1>8 DEF StopEngine
<1>9. CASE Report
  BY <1>9 DEF Report, ExitCode
<1>10. CASE UNCHANGED vars
  BY <1>10 DEF vars
<1>11. QED
  BY <1>1, <1>2, <1>3, <1>4, <1>5, <1>6, <1>7, <1>8, <1>9, <1>10 DEF Next, Main, Done

\* The counts stay within the scenarios, whatever raises.
THEOREM TypeCorrect == Spec => []TypeOK
<1>1. TypeInv => TypeOK
  BY DEF TypeInv
<1>2. QED
  BY <1>1, TypeInit, TypeNext, PTL DEF Spec

-----------------------------------------------------------------------------

\* A directory holds at least what was saved into it, at most what was answered.
DirLedger ==
  \A i \in Turns : /\ Answered(i, {"saved"}) \subseteq dir[i]
                   /\ dir[i] \subseteq Answered(i, {"saved", "cut"})

\* If every comparison so far passed, every scenario so far is earned.
PassLedger ==
  code # 1 /\ passed = Compared =>
    \A i \in Turns : i < turn /\ HasCapture(i) => Earned(i)

PassInv ==
  /\ TypeInv /\ DirLedger /\ PassLedger
  /\ pc = "ended" /\ code = 0 => total > 0 /\ passed = total

\* Saying the same answers and directories.
LEMMA AnswersFixed ==
  ASSUME UNCHANGED answers
  PROVE  /\ \A i, o : Answered(i, o)' = Answered(i, o)
         /\ \A i : Earned(i)' = Earned(i)
  BY DEF Answered, Earned, Due

\* An answer to the current scenario says nothing of another, and adds at most
\* what was written, at least what was saved.
LEMMA OneAnswer ==
  ASSUME NEW w, NEW outcome \in {"saved", "cut"}, NEW who,
         answers' = answers \cup {<<turn, w, who, outcome>>}
  PROVE  /\ \A i, o : i # turn => Answered(i, o)' = Answered(i, o)
         /\ \A i : i = turn =>
              /\ Answered(i, {"saved", "cut"})' = Answered(i, {"saved", "cut"}) \cup Marks[who][w]
              /\ Answered(i, {"saved"})' =
                   Answered(i, {"saved"}) \cup (IF outcome = "saved" THEN Marks[who][w] ELSE {})
<1> DEFINE Those(S, i, o) == {b \in S : b[1] = i /\ b[4] \in o}
           given == <<turn, w, who, outcome>>
<1>1. /\ given[1] = turn /\ given[2] = w /\ given[3] = who /\ given[4] = outcome
  OBVIOUS
<1> HIDE DEF given
<1>2. answers' = answers \cup {given}
  BY DEF given
<1>3. \A i, o : i # turn => Those(answers', i, o) = Those(answers, i, o)
  BY <1>1, <1>2
<1>4. /\ Those(answers', turn, {"saved", "cut"}) =
           Those(answers, turn, {"saved", "cut"}) \cup {given}
      /\ Those(answers', turn, {"saved"}) =
           Those(answers, turn, {"saved"}) \cup (IF outcome = "saved" THEN {given} ELSE {})
  BY <1>1, <1>2
<1>5. \A i, o : /\ Answered(i, o) = UNION {Marks[a[3]][a[2]] : a \in Those(answers, i, o)}
                /\ Answered(i, o)' = UNION {Marks[a[3]][a[2]] : a \in Those(answers', i, o)}
  BY DEF Answered
<1> HIDE DEF Those
<1> DEFINE Said(S) == UNION {Marks[a[3]][a[2]] : a \in S}
<1>6. \A S : Said(S \cup {given}) = Said(S) \cup Marks[who][w]
  BY <1>1
<1>7. \A i, o : /\ Answered(i, o) = Said(Those(answers, i, o))
                /\ Answered(i, o)' = Said(Those(answers', i, o))
  BY <1>5
<1> HIDE DEF Said
<1>8. /\ Said(Those(answers', turn, {"saved", "cut"})) =
           Said(Those(answers, turn, {"saved", "cut"})) \cup Marks[who][w]
      /\ Said(Those(answers', turn, {"saved"})) =
           Said(Those(answers, turn, {"saved"}))
             \cup (IF outcome = "saved" THEN Marks[who][w] ELSE {})
  <2>1. CASE outcome = "saved"
    BY <1>4, <1>6, <2>1
  <2>2. CASE outcome # "saved"
    <3>1. Those(answers', turn, {"saved"}) = Those(answers, turn, {"saved"})
      BY <1>4, <2>2
    <3>2. QED
      BY <1>4, <1>6, <2>2, <3>1
  <2>3. QED
    BY <2>1, <2>2
<1>9. \A i, o : i # turn => Answered(i, o)' = Answered(i, o)
  BY <1>3, <1>7
<1>10. QED
  BY <1>7, <1>8, <1>9

\* The comparison that passes finds the directory to hold exactly what is due.
LEMMA CorrectIsEarned ==
  ASSUME TypeOK, DirLedger, NEW i \in Turns, Correct(dir[i], Scenarios[i].expected)
  PROVE  Earned(i)
<1>1. dir[i] \subseteq Features \cup {"alarm"} /\ Scenarios[i].expected \subseteq Features
  BY Parameters DEF TypeOK
<1>2. dir[i] = Due(i)
  BY <1>1 DEF Correct, Due, Features
<1>3. QED
  BY <1>2 DEF DirLedger, Earned

LEMMA PassInit == Init => PassInv
<1> SUFFICES ASSUME Init PROVE PassInv
  OBVIOUS
<1>1. TypeInv
  BY TypeInit
<1>2. DirLedger
  BY Parameters DEF Init, DirLedger, Answered
<1>3. PassLedger
  BY Parameters DEF Init, PassLedger
<1>4. QED
  BY <1>1, <1>2, <1>3 DEF Init, PassInv

LEMMA PassNext == PassInv /\ [Next]_vars => PassInv'
<1> SUFFICES ASSUME PassInv, [Next]_vars PROVE PassInv'
  OBVIOUS
<1>1. TypeInv /\ TypeInv' /\ TypeOK /\ Placed /\ DirLedger /\ PassLedger
  BY TypeNext DEF PassInv, TypeInv
<1>2. total \in Nat /\ passed \in Nat /\ turn \in Nat /\ passed <= Compared
  BY <1>1, Parameters DEF TypeInv, TypeOK
\* The steps that leave the answers, the counts and the turn alone.
<1>3. ASSUME UNCHANGED <<answers, dir, turn, passed, total>>,
             code' = code \/ code' = 1, pc' # "ended" \/ code' # 0,
             pc' = "run" <=> pc = "run"
      PROVE  PassInv'
  BY <1>1, <1>3, AnswersFixed DEF PassInv, DirLedger, PassLedger, Compared, TypeInv
<1>4. CASE Bind \/ Die \/ OtherBinds
  <2>1. CASE pc = "ended"
    BY <1>1, <1>4, <2>1, AnswersFixed
       DEF Bind, Die, OtherBinds, PassInv, DirLedger, PassLedger, Compared, count
  <2>2. CASE pc # "ended"
    BY <1>3, <1>4, <2>2 DEF Bind, Die, OtherBinds, count
  <2>3. QED
    BY <2>1, <2>2
<1>5. CASE FreePort \/ Spawn \/ PollFails \/ Poll \/ Ready \/ NoAnswer
  BY <1>3, <1>5 DEF FreePort, Spawn, PollFails, NotReady, Poll, Ready, NoAnswer, count
<1>6. CASE Skip
  <2>1. pc = "next" /\ pc' = "next" /\ turn' = turn + 1 /\ ~HasCapture(turn)
        /\ UNCHANGED <<answers, dir, passed, total, code>>
    BY <1>6 DEF Skip, count
  <2>2. DirLedger'
    BY <1>1, <2>1, AnswersFixed DEF DirLedger
  <2>3. \A i \in Turns : i < turn' /\ HasCapture(i) => i < turn
    BY <1>2, <2>1, Parameters
  <2>4. PassLedger'
    BY <1>1, <2>1, <2>3, AnswersFixed DEF PassLedger, Compared
  <2>5. QED
    BY <1>1, <2>1, <2>2, <2>4 DEF PassInv
<1>7. CASE StartScenario
  <2>1. pc = "next" /\ pc' = "run" /\ total' = total + 1
        /\ UNCHANGED <<answers, dir, passed, turn, code>>
    BY <1>7 DEF StartScenario
  <2>2. DirLedger'
    BY <1>1, <2>1, AnswersFixed DEF DirLedger
  <2>3. Compared' = Compared
    BY <1>2, <2>1 DEF Compared
  <2>4. PassLedger'
    BY <1>1, <2>1, <2>3, AnswersFixed DEF PassLedger
  <2>5. QED
    BY <1>1, <2>1, <2>2, <2>4 DEF PassInv
<1>8. ASSUME NEW w \in Window, Save(w) \/ Cut(w) PROVE PassInv'
  <2>1. pc = "run" /\ turn \in Turns /\ port \in {"engine", "other"}
        /\ UNCHANGED <<pc, turn, passed, total, code>>
    BY <1>1, <1>8 DEF Save, Cut, count, Placed, TypeOK
  <2>2. PICK outcome \in {"saved", "cut"}, written \in SUBSET Marks[port][w] :
          /\ answers' = answers \cup {<<turn, w, port, outcome>>}
          /\ outcome = "saved" => written = Marks[port][w]
          /\ dir' = [dir EXCEPT ![turn] = @ \cup written]
    <3>1. CASE Save(w)
      BY <3>1 DEF Save, OutDir
    <3>2. CASE Cut(w)
      <4>1. PICK part \in SUBSET Marks[port][w] :
              dir' = [dir EXCEPT ![OutDir(turn)] = @ \cup part]
        BY <3>2 DEF Cut
      <4>2. QED
        BY <3>2, <4>1 DEF Cut, OutDir
    <3>3. QED
      BY <1>8, <3>1, <3>2
  <2>3. /\ \A i, o : i # turn => Answered(i, o)' = Answered(i, o)
        /\ \A i : i = turn =>
             /\ Answered(i, {"saved", "cut"})' = Answered(i, {"saved", "cut"}) \cup Marks[port][w]
             /\ Answered(i, {"saved"})' =
                  Answered(i, {"saved"}) \cup (IF outcome = "saved" THEN Marks[port][w] ELSE {})
    BY <2>2, OneAnswer
  <2>4. \A i \in Turns : dir'[i] = IF i = turn THEN dir[i] \cup written ELSE dir[i]
    BY <1>1, <2>1, <2>2 DEF TypeOK
  <2>5. DirLedger'
    <3> SUFFICES ASSUME NEW i \in Turns
                 PROVE  /\ Answered(i, {"saved"})' \subseteq dir'[i]
                        /\ dir'[i] \subseteq Answered(i, {"saved", "cut"})'
      BY DEF DirLedger
    <3>1. /\ Answered(i, {"saved"}) \subseteq dir[i]
          /\ dir[i] \subseteq Answered(i, {"saved", "cut"})
      BY <1>1 DEF DirLedger
    <3>2. CASE i = turn
      <4>1. dir'[i] = dir[i] \cup written /\ written \subseteq Marks[port][w]
        BY <2>2, <2>4, <3>2
      <4>2. dir'[i] \subseteq Answered(i, {"saved", "cut"})'
        BY <2>3, <3>1, <3>2, <4>1
      <4>3. Answered(i, {"saved"})' \subseteq dir'[i]
        BY <2>2, <2>3, <3>1, <3>2, <4>1
      <4>4. QED
        BY <4>2, <4>3
    <3>3. CASE i # turn
      <4>1. dir'[i] = dir[i]
        BY <2>4, <3>3
      <4>2. /\ Answered(i, {"saved"})' = Answered(i, {"saved"})
            /\ Answered(i, {"saved", "cut"})' = Answered(i, {"saved", "cut"})
        BY <2>3, <3>3
      <4>3. QED
        BY <3>1, <4>1, <4>2
    <3>4. QED
      BY <3>2, <3>3
  <2>6. \A i \in Turns : i < turn => Earned(i)' = Earned(i)
    BY <1>2, <2>3, Parameters DEF Earned, Due
  <2>7. PassLedger'
    BY <1>1, <2>1, <2>6 DEF PassLedger, Compared
  <2>8. QED
    BY <1>1, <2>1, <2>5, <2>7 DEF PassInv
<1>9. ASSUME NEW w \in Window, Lose(w) PROVE PassInv'
  BY <1>3, <1>9 DEF Lose, count
<1>10. CASE Compare
  <2>1. pc = "run" /\ pc' = "next" /\ turn' = turn + 1 /\ turn \in Turns
        /\ UNCHANGED <<answers, dir, total, code>>
        /\ passed' = IF Correct(dir[turn], Scenarios[turn].expected)
                       THEN passed + 1 ELSE passed
    BY <1>1, <1>10 DEF Compare, OutDir, Placed
  <2>2. DirLedger'
    BY <1>1, <2>1, AnswersFixed DEF DirLedger
  <2>3. ASSUME code' # 1, passed' = Compared', NEW i \in Turns, i < turn', HasCapture(i)
        PROVE  Earned(i)
    <3>1. Correct(dir[turn], Scenarios[turn].expected) /\ passed = Compared
      BY <1>2, <2>1, <2>3 DEF Compared
    <3>2. CASE i = turn
      BY <1>1, <2>1, <3>1, <3>2, CorrectIsEarned
    <3>3. CASE i # turn
      <4>1. i < turn
        BY <1>2, <2>1, <2>3, <3>3, Parameters
      <4>2. QED
        BY <1>1, <2>1, <2>3, <3>1, <4>1 DEF PassLedger
    <3>4. QED
      BY <3>2, <3>3
  <2>4. PassLedger'
    BY <2>1, <2>3, AnswersFixed DEF PassLedger
  <2>5. QED
    BY <1>1, <2>1, <2>2, <2>4 DEF PassInv
<1>11. CASE Raise
  BY <1>1, <1>11, AnswersFixed DEF Raise, PassInv, DirLedger, PassLedger, count
<1>12. CASE AllRun \/ StopEngine \/ NotJoined \/ \E w \in Window : Hang(w)
  BY <1>3, <1>12 DEF AllRun, StopEngine, NotJoined, Hang, count
<1>13. CASE Report
  <2>1. pc = "report" /\ pc' = "ended"
        /\ UNCHANGED <<answers, dir, turn, passed, total>>
        /\ code' = IF code = NoCode THEN ExitCode ELSE code
    BY <1>13 DEF Report, count
  <2>2. DirLedger'
    BY <1>1, <2>1, AnswersFixed DEF DirLedger
  <2>3. code # 0 /\ (code' # 1 => code # 1) /\ Compared' = Compared
    BY <1>1, <2>1 DEF Placed, Compared, NoCode
  <2>4. PassLedger'
    BY <1>1, <2>1, <2>3, AnswersFixed DEF PassLedger
  <2>5. code' = 0 => total > 0 /\ passed = total
    BY <2>1, <2>3 DEF ExitCode
  <2>6. QED
    BY <1>1, <2>1, <2>2, <2>4, <2>5 DEF PassInv
<1>14. CASE UNCHANGED vars
  BY <1>1, <1>14, AnswersFixed DEF vars, PassInv, DirLedger, PassLedger, Compared, count
<1>15. QED
  BY <1>4, <1>5, <1>6, <1>7, <1>8, <1>9, <1>10, <1>11, <1>12, <1>13, <1>14
     DEF Next, Main, Done

\* An exit code of 0 is earned by the answers to every scenario that has a capture,
\* whoever gave them.
THEOREM PassesAreEarned == Spec => []PassEarned
<1>1. PassInv => PassEarned
  <2> SUFFICES ASSUME PassInv, code = 0 PROVE PassEarned
    BY DEF PassEarned
  <2>1. TypeOK /\ Placed /\ PassLedger
    BY DEF PassInv, TypeInv
  <2>2. pc = "ended"
    BY <2>1 DEF Placed, TypeOK, NoCode
  <2>3. total > 0 /\ passed = total /\ turn \notin Turns /\ Compared = total
    BY <2>1, <2>2 DEF PassInv, Placed, Compared
  <2>4. \A i \in Turns : i < turn
    BY <2>1, <2>3, Parameters DEF TypeOK
  <2>5. \A i \in Turns : HasCapture(i) => Earned(i)
    BY <2>1, <2>3, <2>4 DEF PassLedger
  <2>6. \E i \in Turns : HasCapture(i)
    BY <2>1, <2>3 DEF Placed
  <2>7. QED
    BY <2>5, <2>6 DEF PassEarned, Earned, Due
<1>2. QED
  BY <1>1, PassInit, PassNext, PTL DEF Spec
=============================================================================
