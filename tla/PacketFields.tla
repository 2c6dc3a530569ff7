---------------------------- MODULE PacketFields ----------------------------
(***************************************************************************)
(* What becomes of a packet's TCP flags on their way into the detector.    *)
(* packet_capture writes them into the CSV twice, as five booleans and as  *)
(* the raw byte, and the PCAP reader derives the same; windowing goes by   *)
(* the booleans, the encoder and the oracle by the whole byte.             *)
(***************************************************************************)
\* The byte's bits, the two of ECN included.
Flag == {"F", "S", "R", "P", "A", "U", "E", "C"}

\* _extract_packet_fields; _make_packet computes the same, as the strings that
\* csv makes of them.
Fields(flags) ==
  [is_syn     |-> "S" \in flags /\ "A" \notin flags,
   is_syn_ack |-> {"S", "A"} \subseteq flags,
   is_ack     |-> "A" \in flags /\ {"S", "F", "R"} \cap flags = {},
   is_fin     |-> "F" \in flags,
   is_rst     |-> "R" \in flags]

\* add_packet's tests, in its order: a row neither branch takes is held as it is.
Dropped(flags)  == Fields(flags).is_rst \/ Fields(flags).is_fin
Opens(flags)    == ~Dropped(flags) /\ Fields(flags).is_syn_ack
Completes(flags) == ~Dropped(flags) /\ Fields(flags).is_ack

\* ENCODE_NORMAL_SYN and ENCODE_ACK: tcp_flags_raw is 2, 16.
PureSyn(flags) == flags = {"S"}
PureAck(flags) == flags = {"A"}

\* The two readings of a packet agree where the detector depends on it: what is
\* counted as a SYN or an ACK is held by a window, so that the packet cap bounds the
\* counts; a counted SYN opens no handshake of its own; a counted ACK completes
\* one; and no packet does two of these.  The converse fails only where a bit the
\* booleans ignore is set: with ECN or PSH a SYN or an ACK is not counted.
ASSUME FlagReadingsAgree ==
  \A flags \in SUBSET Flag :
    /\ PureSyn(flags) => ~Dropped(flags) /\ Fields(flags).is_syn /\ ~Opens(flags)
    /\ PureAck(flags) => Completes(flags)
    /\ (Completes(flags) /\ ~PureAck(flags)) \/ (Fields(flags).is_syn /\ ~Dropped(flags) /\ ~PureSyn(flags))
         => {"P", "U", "E", "C"} \cap flags # {}
    /\ ~(Opens(flags) /\ Completes(flags))
=============================================================================
