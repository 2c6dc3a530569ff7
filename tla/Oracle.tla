------------------------------- MODULE Oracle -------------------------------
(***************************************************************************)
(* analysis/inspect_capture.py, the label a capture is predicted to get:   *)
(* it counts the same rows as the detector, but in cells of a fixed grid   *)
(* that starts with the first row, where the detector's windows start with *)
(* the first row after the last window and may wait for a handshake.       *)
(***************************************************************************)
EXTENDS Windowing, PacketFields

Cell(p) == (capture[p].ts - capture[1].ts) \div max_time_window

SYNs(places) == Cardinality({p \in places : capture[p].kind = "syn"})

InCell(c) == {p \in DOMAIN capture : Cell(p) = c}

\* peak_syn >= rate_thresh.
RateFire(rate_thresh) == \E p \in DOMAIN capture : SYNs(InCell(Cell(p))) >= rate_thresh

-----------------------------------------------------------------------------

\* The cells a window may reach past that of its first row.
Reach == (2 * max_time_window + grace - 2) \div max_time_window

CapClosed(w) == w < Current /\ Len(windows[w].rows) = hard_limit

\* The grid and the windows never drift apart: a window lies within Reach + 1
\* cells, and a cell within two windows unless the cap closed one
\* of them early.  So, the cap aside, where the oracle predicts a rate some window
\* has at least half of it, and it predicts at least a 1 / (Reach + 1)th of what a
\* window has: the thresholds need that gap for "the ground truth the detector must
\* reproduce" to be one.
OracleNearWindows ==
  /\ \A w \in 1..Current : \A p, q \in RowsOf(w) : Cell(q) - Cell(p) <= Reach
  /\ \A v, w \in 1..Current : \A p \in RowsOf(v), q \in RowsOf(w) :
       v + 1 < w /\ Cell(p) = Cell(q) => \E u \in v .. w : CapClosed(u)
  /\ (\A w \in 1..Current : ~CapClosed(w)) =>
       /\ \A k \in 1 .. Len(capture) :
            RateFire(k) => \E w \in 1..Current : 2 * SYNs(RowsOf(w)) >= k
       /\ \A w \in 1..Current :
            SYNs(RowsOf(w)) > 0 =>
              RateFire((SYNs(RowsOf(w)) + Reach) \div (Reach + 1))
=============================================================================
