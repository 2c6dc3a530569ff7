----------------------------- MODULE SNPSystem ------------------------------
(***************************************************************************)
(* The SN P engine (snp_engine/neuron.py, system.py, main.py): one request *)
(* builds one system, runs it tick by tick and answers with its history.   *)
(* A tick activates every neuron in list order, each a step here, because  *)
(* what a neuron does depends on who has already written to its mailbox.   *)
(***************************************************************************)
EXTENDS Rule, Sequences

CONSTANTS
  Order,      \* the neuron ids, in the order of the posted list
  Inputs,     \* the ids of the Input neurons
  Outputs,    \* the ids of the Output neurons
  RulesOf,    \* the rules of each Regular neuron
  ContentOf,  \* the spikes each Regular neuron is created with
  Weight,     \* per synapse <<from, to>>, its weight
  Requests    \* the trains a request may put in the Input neurons

Ids     == {Order[k] : k \in DOMAIN Order}
Regular == Ids \ (Inputs \cup Outputs)
Boxes   == Ids \ Inputs  \* a synapse into an Input neuron is ignored

\* _parse_synapse and parse_rule reject anything else before the first tick.
ASSUME SystemAssumption ==
  /\ Inputs \cup Outputs \subseteq Ids /\ Inputs \cap Outputs = {}
  /\ \A e \in DOMAIN Weight : e[1] \in Ids \ Outputs /\ e[2] \in Ids
  /\ \A r \in Regular : \A rule \in RulesOf[r] : WellFormed(rule)

VARIABLES
  endpoint,   \* "simulate" or "step"
  request,    \* the trains that were posted
  remaining,  \* Input._remaining
  spikes,     \* Regular._spikes
  incoming,   \* the mailboxes, _incoming
  delayed,    \* the delays > 0 that hold spikes in Regular._delayed
  activated,  \* Regular._activated_rule, as a set of at most one rule
  recorded,   \* Output._remaining, the totals of each tick
  turn,       \* the next neuron of this tick, 0 between ticks
  owed,       \* ticks still to run whatever the halting check would say
  status,     \* "running", "answered" or "failed" (a RuntimeError, HTTP 500)
  row,        \* the last row of _history
  spiked      \* the neurons some row shows firing a rule that ends in a;0

neurons == <<remaining, spikes, incoming, delayed, activated, recorded>>
vars    == <<endpoint, request, neurons, turn, owed, status, row, spiked>>

Row(rem, sp, act, rec) ==
  [remaining |-> rem, spikes |-> sp, activated |-> act, recorded |-> rec]

\* _fireable_rules
Fireable(r) == {rule \in RulesOf[r] : Matches(rule, spikes[r])}

\* Mutant: a rule that could fire does not keep the system running.
AwakeByMail(r) == incoming[r] > 0 \/ delayed[r] # {}

\* Regular.is_active: mail counts only when it is positive.
Awake(r) == incoming[r] > 0 \/ delayed[r] # {} \/ Fireable(r) # {}

Active ==
  \/ \E i \in Inputs : remaining[i] # <<>>
  \/ \E o \in Outputs : incoming[o] > 0
  \/ \E r \in Regular : Awake(r)

\* receive() on every target of a neuron that emits.
Deliver(box, from, produced) ==
  [t \in Boxes |->
     IF <<from, t>> \in DOMAIN Weight THEN box[t] + Weight[<<from, t>>] * produced
                                      ELSE box[t]]

HasTarget(from) == \E t \in Boxes : <<from, t>> \in DOMAIN Weight

Init ==
  /\ endpoint \in {"simulate", "step"}
  /\ request \in Requests
  /\ remaining = request
  /\ spikes = ContentOf
  /\ incoming = [t \in Boxes |-> 0]
  /\ delayed = [r \in Regular |-> {}]
  /\ activated = [r \in Regular |-> {}]
  /\ recorded = [o \in Outputs |-> <<>>]
  /\ turn = 0
  /\ owed = IF endpoint = "step" THEN 2 ELSE 1
  /\ status = "running"
  /\ row = Row(remaining, spikes, activated, recorded)
  /\ spiked = {}

-----------------------------------------------------------------------------

\* The constructor runs one tick and /simulate/step one more; /simulate then
\* goes on while _check_if_halted finds an active neuron.
BeginTick ==
  /\ status = "running" /\ turn = 0
  /\ owed > 0 \/ (endpoint = "simulate" /\ Active)
  /\ turn' = 1
  /\ owed' = IF owed > 0 THEN owed - 1 ELSE 0
  /\ UNCHANGED <<endpoint, request, neurons, status, row, spiked>>

Turn(id) ==
  /\ status = "running" /\ turn \in DOMAIN Order /\ Order[turn] = id
  /\ turn' = turn + 1
  /\ UNCHANGED <<endpoint, request, owed, row, spiked>>

\* Input.activate
Replay(i) ==
  /\ Turn(i)
  /\ remaining[i] # <<>>
  /\ remaining' = [remaining EXCEPT ![i] = Tail(@)]
  /\ incoming' = Deliver(incoming, i, Head(remaining[i]))
  /\ UNCHANGED <<spikes, delayed, activated, recorded, status>>

Exhausted(i) ==
  /\ Turn(i)
  /\ remaining[i] = <<>>
  /\ UNCHANGED <<neurons, status>>

\* Output.activate
Record(o) ==
  /\ Turn(o)
  /\ recorded' = [recorded EXCEPT ![o] = Append(@, incoming[o])]
  /\ incoming' = [incoming EXCEPT ![o] = 0]
  /\ UNCHANGED <<remaining, spikes, delayed, activated, status>>

\* Regular.activate when no rule matches what the neuron held before its mail
\* was folded in.
Rest(r) ==
  /\ Turn(r)
  /\ Fireable(r) = {}
  /\ spikes' = [spikes EXCEPT ![r] = @ + incoming[r]]
  /\ incoming' = [incoming EXCEPT ![r] = 0]
  /\ activated' = [activated EXCEPT ![r] = {}]
  /\ status' = IF spikes'[r] < 0 THEN "failed" ELSE status
  /\ UNCHANGED <<remaining, delayed, recorded>>

\* Mutant: a white hole also takes the mail folded in this tick.
FireTakesMail(r, rule) ==
  /\ Turn(r)
  /\ rule \in Fireable(r)
  /\ spikes' = [spikes EXCEPT ![r] = @ + incoming[r] - Consumed(rule, @ + incoming[r])]
  /\ incoming' = Deliver([incoming EXCEPT ![r] = 0], r, rule.produce)
  /\ activated' = [activated EXCEPT ![r] = {rule}]
  /\ UNCHANGED <<remaining, delayed, recorded, status>>

\* Regular.activate when one does: a white hole takes the spikes it matched
\* on, not the mail folded in since; a delayed production is never released.
\* A neuron may have a synapse to itself: its mail is folded before it emits.
Fire(r, rule) ==
  /\ Turn(r)
  /\ rule \in Fireable(r)
  /\ spikes' = [spikes EXCEPT ![r] = @ + incoming[r] - Consumed(rule, @)]
  /\ incoming' = Deliver([incoming EXCEPT ![r] = 0], r,
                         IF rule.delay = 0 THEN rule.produce ELSE 0)
  /\ delayed' = IF rule.delay > 0 /\ HasTarget(r)
                THEN [delayed EXCEPT ![r] = @ \cup {rule.delay}] ELSE delayed
  /\ activated' = [activated EXCEPT ![r] = {rule}]
  /\ status' = IF spikes'[r] < 0 THEN "failed" ELSE status
  /\ UNCHANGED <<remaining, recorded>>

\* _make_history at the end of simulate_step.
EndTick ==
  /\ status = "running" /\ turn > Len(Order)
  /\ turn' = 0
  /\ row' = Row(remaining, spikes, activated, recorded)
  /\ spiked' = spiked \cup
       {r \in Regular : \E rule \in activated[r] : rule.produce = 1 /\ rule.delay = 0}
  /\ UNCHANGED <<endpoint, request, neurons, owed, status>>

\* Mutant: /simulate/step waits for the system to halt.
AnswerWhenHalted ==
  /\ status = "running" /\ turn = 0 /\ owed = 0
  /\ ~Active
  /\ status' = "answered"
  /\ UNCHANGED <<endpoint, request, neurons, turn, owed, row, spiked>>

Answer ==
  /\ status = "running" /\ turn = 0 /\ owed = 0
  /\ endpoint = "step" \/ ~Active
  /\ status' = "answered"
  /\ UNCHANGED <<endpoint, request, neurons, turn, owed, row, spiked>>

\* The system is dropped with its request; nothing happens to it afterwards.
Done == status # "running" /\ UNCHANGED vars

Next ==
  \/ BeginTick
  \/ \E i \in Inputs : Replay(i) \/ Exhausted(i)
  \/ \E o \in Outputs : Record(o)
  \/ \E r \in Regular : Rest(r)
  \/ \E r \in Regular : \E rule \in RulesOf[r] : Fire(r, rule)
  \/ EndTick
  \/ Answer
  \/ Done

\* One thread runs the request to its end.
Spec == Init /\ [][Next]_vars /\ WF_vars(Next)

-----------------------------------------------------------------------------

\* system.py: simulate runs "until no neuron has any work left".  What the
\* halting check takes for a halt is one: no mail, train, scheduled spike or
\* applicable rule is left that another tick would act on.
HaltedIsQuiescent ==
  status = "answered" /\ endpoint = "simulate" =>
    /\ \A t \in Boxes : incoming[t] = 0
    /\ \A i \in Inputs : remaining[i] = <<>>
    /\ \A r \in Regular : Fireable(r) = {} /\ delayed[r] = {}
=============================================================================
