----------------------------- MODULE Windowing ------------------------------
(***************************************************************************)
(* DataPreprocessor._parse_csv / _parse_pcap and WindowedPackets: rows of  *)
(* a capture are put, in the order they were captured, into windows of a   *)
(* fixed width that may wait a little for a handshake to finish.           *)
(*                                                                         *)
(* A row is abstracted to its timestamp, what the code tells rows apart by *)
(* and the handshake it belongs to: the SYN-ACK's ack_num, which is the    *)
(* seq_num of the ACK that completes it and follows that of the SYN.       *)
(***************************************************************************)
EXTENDS Naturals, Integers, Sequences, FiniteSets

CONSTANTS
  Handshake,        \* the handshakes of the capture
  max_time_window,  \* Delta-t
  grace,
  hard_limit,
  MaxRows, MaxTime  \* bounds on the capture

\* The command line enforces none of this; with a zero width or limit a fresh
\* window refuses its first row too, and the row is lost.
ASSUME WindowingAssumption ==
  /\ max_time_window \in Nat \ {0} /\ hard_limit \in Nat \ {0}
  /\ grace \in Nat /\ MaxRows \in Nat /\ MaxTime \in Nat

Kind == {"syn", "syn_ack", "ack", "rst_or_fin"}
Rows == [ts : 0..MaxTime, kind : Kind, of : Handshake]

NotSet == -1  \* _window_end before the first row is offered

VARIABLES
  capture,  \* the rows offered so far
  windows,  \* DataPreprocessor._windowed: per window, its end and the places
            \* in the capture of the rows it holds
  pending   \* _pending_handshakes of the last window

vars == <<capture, windows, pending>>

Current == Len(windows)

Fresh == [end |-> NotSet, rows |-> <<>>]

Init ==
  /\ capture = <<>>
  /\ windows = <<Fresh>>
  /\ pending = {}

\* The end a window has once a row of time ts has been offered to it.
EndOf(w, ts) == IF w.end = NotSet THEN ts + max_time_window ELSE w.end

\* Mutants: a window that never waits; one that waits for as long as a handshake
\* is pending; one that is closed a tick early.
LimitReachedAtOnce(w, ts) ==
  ts >= EndOf(w, ts) \/ Len(w.rows) >= hard_limit
LimitReachedPatient(w, ts) ==
  (ts >= EndOf(w, ts) /\ pending = {}) \/ Len(w.rows) >= hard_limit
LimitReachedEarly(w, ts) ==
  \/ ts >= EndOf(w, ts) - 1 /\ (pending = {} \/ ts >= EndOf(w, ts) + grace)
  \/ Len(w.rows) >= hard_limit

\* _soft_limit, and the packet cap: the window takes no row of time ts.
LimitReached(w, ts) ==
  \/ ts >= EndOf(w, ts) /\ (pending = {} \/ ts >= EndOf(w, ts) + grace)
  \/ Len(w.rows) >= hard_limit

\* Mutant: a row is numbered as the one after it.
TakingNumberedAhead(w, row) ==
  [end  |-> EndOf(w, row.ts),
   rows |-> IF row.kind = "rst_or_fin" THEN w.rows
                                       ELSE Append(w.rows, Len(capture) + 2)]

\* The rest of add_packet: RST and FIN rows are dropped, after they have set
\* the window's end; a pending handshake is cleared by its ACK.
Taking(w, row) ==
  [end  |-> EndOf(w, row.ts),
   rows |-> IF row.kind = "rst_or_fin" THEN w.rows
                                       ELSE Append(w.rows, Len(capture) + 1)]

StillPending(before, row) ==
  CASE row.kind = "syn_ack" -> before \cup {row.of}
    [] row.kind = "ack"     -> before \ {row.of}
    [] OTHER                -> before

-----------------------------------------------------------------------------

Add(row) ==
  /\ ~LimitReached(windows[Current], row.ts)
  /\ windows' = [windows EXCEPT ![Current] = Taking(@, row)]
  /\ pending' = StillPending(pending, row)

\* Mutant: the row that closed a window is not offered to the next one.
OpenWithoutRow(row) ==
  /\ LimitReached(windows[Current], row.ts)
  /\ windows' = Append(windows, Fresh)
  /\ pending' = {}

\* add_packet returned False: a new window is made and offered the same row.
OpenNext(row) ==
  /\ LimitReached(windows[Current], row.ts)
  /\ windows' = Append(windows, Taking(Fresh, row))
  /\ pending' = StillPending({}, row)

\* The next row of the capture, in time order.
Offer(row) ==
  /\ Len(capture) < MaxRows
  /\ Len(capture) > 0 => row.ts >= capture[Len(capture)].ts
  /\ capture' = Append(capture, row)

Next == \E row \in Rows : Offer(row) /\ (Add(row) \/ OpenNext(row))

Spec == Init /\ [][Next]_vars

-----------------------------------------------------------------------------

RowsOf(w) == {windows[w].rows[m] : m \in DOMAIN windows[w].rows}

TypeOK ==
  /\ capture \in Seq(Rows)
  /\ windows \in Seq([end : Nat \cup {NotSet}, rows : Seq(1..Len(capture))])
  /\ Len(windows) > 0
  /\ pending \subseteq Handshake

\* Every row but the RST and FIN ones is in exactly one window, and the windows
\* one after the other are those rows in the order of the capture.
NothingLostOrMoved ==
  /\ \A p \in 1..Len(capture) :
       capture[p].kind # "rst_or_fin" <=> \E w \in 1..Current : p \in RowsOf(w)
  /\ \A v, w \in 1..Current :
       \A a \in DOMAIN windows[v].rows, b \in DOMAIN windows[w].rows :
         (v < w \/ (v = w /\ a < b)) => windows[v].rows[a] < windows[w].rows[b]

\* No window outlasts its width and the grace, or the packet cap, however many
\* handshakes never complete.
WindowsBounded ==
  \A w \in 1..Current :
    /\ Len(windows[w].rows) <= hard_limit
    /\ \A p \in RowsOf(w) :
         /\ capture[p].ts < windows[w].end + grace
         /\ capture[p].ts >= windows[w].end - max_time_window

\* A window is closed by nothing but the cap before its full width has passed,
\* so that its SYN count is a velocity.
NoEarlyClose ==
  \A w \in 1..(Current - 1) :
    \/ Len(windows[w].rows) = hard_limit
    \/ windows[w + 1].end >= windows[w].end + max_time_window

\* An ACK that arrives within the grace is in the window of its SYN-ACK, unless
\* the cap was reached.
HandshakeKept ==
  \A w \in 1..Current : \A p \in RowsOf(w) :
    \A q \in (p + 1)..Len(capture) :
      /\ capture[p].kind = "syn_ack" /\ capture[q].kind = "ack"
      /\ capture[p].of = capture[q].of
      /\ \A r \in (p + 1)..(q - 1) : capture[r].of # capture[p].of
      /\ capture[q].ts < windows[w].end + grace
      /\ Len(windows[w].rows) < hard_limit
      => q \in RowsOf(w)

\* packet_encoding/FEATURE_DOCUMENTATION.md: "when the boundary is reached with
\* a handshake still in flight" - its SYN in the window, its completing ACK not
\* yet - "the window stays open a little longer (a small grace period)".
HandshakeInFlightKept ==
  \A w \in 1..Current : \A p \in RowsOf(w) :
    \A q \in (p + 1)..Len(capture) :
      /\ capture[p].kind = "syn" /\ capture[q].kind = "ack"
      /\ capture[p].of = capture[q].of
      /\ \E r \in (p + 1)..(q - 1) :
           capture[r].kind = "syn_ack" /\ capture[r].of = capture[p].of
      /\ \A r \in (p + 1)..(q - 1) :
           capture[r].of = capture[p].of => capture[r].kind = "syn_ack"
      /\ capture[q].ts < windows[w].end + grace
      /\ Len(windows[w].rows) < hard_limit
      => q \in RowsOf(w)
=============================================================================
