------------------------------- MODULE Encoder ------------------------------
(***************************************************************************)
(* PacketEncoder: the window files of a directory become one line per      *)
(* window and device, a packet a symbol and a 5 at the end.                *)
(*                                                                         *)
(* A packet is abstracted to its source MAC, whether it is addressed to    *)
(* the target port, its TCP flags and whether its source is a test-net     *)
(* address.  MACs are numbers, ordered as sorted() orders the strings.     *)
(***************************************************************************)
EXTENDS Naturals, Sequences, FiniteSets, SequencesExt

Packet == [device : Nat, to_target : BOOLEAN, flags : {"syn", "ack", "other"}, spoofed : BOOLEAN]

EndOfSubstream == 5

_symbol(packet) ==
  CASE packet.flags = "syn" -> IF packet.spoofed THEN 2 ELSE 3
    [] packet.flags = "ack" -> 4
    [] OTHER                -> 1

\* The elements of a set of numbers, the smallest first.
InOrder(S) ==
  CHOOSE s \in [1..Cardinality(S) -> S] :
    \A i, j \in 1..Cardinality(S) : i < j => s[i] < s[j]

\* Mutant: the victim's replies are taken for an attacker's packets.
SentEither(window) == DOMAIN window

\* _is_attacker: the places of what is addressed to the target port.
Sent(window) == {m \in DOMAIN window : window[m].to_target}

\* by_device: the places, and the packets there, in the order of the file.
Places(window, device) ==
  {m \in Sent(window) : window[m].device = device}

FromDevice(window, device) ==
  LET places == InOrder(Places(window, device))
  IN  [m \in DOMAIN places |-> window[places[m]]]

Attackers(files) ==
  UNION {{window[m].device : m \in Sent(window)} : window \in Range(files)}

_discover_devices(files) == InOrder(Attackers(files))

Line(window, device) ==
  LET packets == FromDevice(window, device)
  IN  Append([m \in DOMAIN packets |-> _symbol(packets[m])], EndOfSubstream)

\* Mutant: a device that is idle in a window has no line.
encode_packets_busy(files) ==
  LET devices == _discover_devices(files)
  IN  SelectSeq(
        FlattenSeq([w \in DOMAIN files |->
                      [d \in DOMAIN devices |-> Line(files[w], devices[d])]]),
        LAMBDA line : Len(line) > 1)

encode_packets(files) ==
  LET devices == _discover_devices(files)
  IN  FlattenSeq([w \in DOMAIN files |->
                    [d \in DOMAIN devices |-> Line(files[w], devices[d])]])
=============================================================================
