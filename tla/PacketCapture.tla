--------------------------- MODULE PacketCapture ---------------------------
(***************************************************************************)
(* packet_capture.py, one process a scenario: scapy is imported and the    *)
(* socket opened, which takes seconds; then sniff stores what it sees for  *)
(* the given duration; then what it stored is saved.                       *)
(*                                                                         *)
(* A stored packet is the stream it came from.  The time is the caller's.  *)
(***************************************************************************)
EXTENDS Integers

VARIABLES
  cap,          \* "none", "starting", "sniffing", "saving", then "saved",
                \* "empty" (nothing to save, so no file) or "dead"
  sniff_from,   \* when sniff began
  caught        \* _packets: the streams they came from

capVars == <<cap, sniff_from, caught>>

Exited == {"saved", "empty", "dead"}

CaptureInit == cap = "none" /\ sniff_from = 0 /\ caught = {}

Popen == cap' = "starting" /\ sniff_from' = 0 /\ caught' = {}

BeginSniff(t) ==
  /\ cap = "starting"
  /\ cap' = "sniffing" /\ sniff_from' = t
  /\ UNCHANGED caught

\* The packets of stream s are on the wire.
Sniff(s) ==
  /\ caught' = IF cap = "sniffing" THEN caught \cup {s} ELSE caught
  /\ UNCHANGED <<cap, sniff_from>>

\* sniff returns at its timeout.
EndSniff(t, cap_dur) ==
  /\ cap = "sniffing" /\ t >= sniff_from + cap_dur
  /\ cap' = "saving"
  /\ UNCHANGED <<sniff_from, caught>>

Save ==
  /\ cap = "saving"
  /\ cap' = IF caught = {} THEN "empty" ELSE "saved"
  /\ UNCHANGED <<sniff_from, caught>>

\* No permission, no such interface, or an exception of sniff or of a write.
Die ==
  /\ cap \in {"starting", "sniffing", "saving"}
  /\ cap' = "dead" /\ sniff_from' = 0 /\ caught' = {}

\* Ctrl-C: scapy's sniff returns what it has; anywhere else it is the end.
Interrupted ==
  IF cap = "sniffing" THEN cap' = "saving" /\ UNCHANGED <<sniff_from, caught>>
                      ELSE Die \/ (cap \in {"none"} \cup Exited /\ UNCHANGED capVars)

CaptureTypeOK(streams) ==
  /\ cap \in {"none", "starting", "sniffing", "saving"} \cup Exited
  /\ sniff_from \in Nat
  /\ caught \subseteq streams
=============================================================================
