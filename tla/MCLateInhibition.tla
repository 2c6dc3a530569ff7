-------------------------- MODULE MCLateInhibition --------------------------
(***************************************************************************)
(* A two-neuron system for the engine: "source" is listed after "target"   *)
(* and subtracts spikes from it, so its mail arrives when target has       *)
(* already had its turn in the tick and waits for the next one.            *)
(***************************************************************************)
EXTENDS SNPSystem

ListedOrder  == <<"train", "target", "source", "out">>
ListedInputs == {"train"}
ListedOutputs == {"out"}
ListedRules  == [target |-> {Exactly(1, 1)}, source |-> {Exactly(1, 1)}]
ListedContent == [target |-> 0, source |-> 0]

SynapseList ==
  {<<"train", "source", 1>>, <<"source", "target", -1>>, <<"target", "out", 1>>}
ListedWeight ==
  [e \in {<<s[1], s[2]>> : s \in SynapseList} |->
     (CHOOSE s \in SynapseList : <<s[1], s[2]>> = e)[3]]

ListedRequests == [ListedInputs -> {<<1>>, <<1, 1>>}]
=============================================================================
