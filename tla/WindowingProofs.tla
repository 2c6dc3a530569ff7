-------------------------- MODULE WindowingProofs ---------------------------
(***************************************************************************)
(* What windowing guarantees of every capture, for every width, grace and  *)
(* packet cap.  A step offers one row and touches the last window only, or *)
(* opens a new one: Steps says so once, and the invariants use no more.    *)
(***************************************************************************)
EXTENDS Oracle, FiniteSetTheorems, WellFoundedInduction, TLAPS

Place == Len(capture) + 1  \* of the row being offered

\* The rows a window of the next state held before.
Before(w) == IF w <= Current THEN windows[w].rows ELSE <<>>

WindowType == [end : Nat \cup {NotSet}, rows : Seq(Nat)]

\* TypeOK, with the places of the rows as a conjunct of its own.
Typed ==
  /\ capture \in Seq(Rows)
  /\ windows \in Seq(WindowType) /\ Len(windows) > 0
  /\ \A w \in 1..Current : \A m \in DOMAIN windows[w].rows :
       windows[w].rows[m] \in 1..Len(capture)
  /\ pending \subseteq Handshake

LEMMA ElementsIn ==
  ASSUME NEW S, NEW T, NEW s \in Seq(S), \A k \in 1..Len(s) : s[k] \in T
  PROVE  s \in Seq(T)
OBVIOUS

LEMMA TypedIsTypeOK == Typed => TypeOK
<1> SUFFICES ASSUME Typed PROVE TypeOK
  OBVIOUS
<1>1. \A w \in 1..Len(windows) :
        windows[w] \in [end : Nat \cup {NotSet}, rows : Seq(1..Len(capture))]
  <2> SUFFICES ASSUME NEW w \in 1..Len(windows)
               PROVE  windows[w] \in [end : Nat \cup {NotSet}, rows : Seq(1..Len(capture))]
    OBVIOUS
  <2>1. windows[w] \in WindowType
    BY DEF Typed
  <2>2. windows[w].rows \in Seq(1..Len(capture))
    <3>1. windows[w].rows \in Seq(Nat)
      BY <2>1 DEF WindowType
    <3>2. \A m \in 1..Len(windows[w].rows) : windows[w].rows[m] \in 1..Len(capture)
      BY <3>1 DEF Typed, Current
    <3>3. QED
      BY <3>1, <3>2
  <2>3. QED
    BY <2>1, <2>2 DEF WindowType
<1>2. windows \in Seq([end : Nat \cup {NotSet}, rows : Seq(1..Len(capture))])
  <2>1. windows \in Seq(WindowType)
    BY DEF Typed
  <2>2. QED
    BY <1>1, <2>1, ElementsIn
<1>3. QED
  BY <1>2 DEF Typed, TypeOK

LEMMA TypedInit == Init => Typed
  BY DEF Init, Typed, Fresh, WindowType, Current, NotSet

\* A row of time ts makes an untouched window's end, and a window that takes a row
\* keeps its type.
LEMMA TakingType ==
  ASSUME NEW w \in WindowType, NEW row \in Rows, capture \in Seq(Rows)
  PROVE  /\ Taking(w, row) \in WindowType
         /\ Taking(w, row).end = EndOf(w, row.ts)
         /\ row.ts \in Nat /\ EndOf(w, row.ts) \in Nat \cup {NotSet}
         /\ Taking(w, row).rows = IF row.kind = "rst_or_fin" THEN w.rows
                                                            ELSE Append(w.rows, Place)
<1>1. row.ts \in Nat
  BY WindowingAssumption DEF Rows
<1>2. EndOf(w, row.ts) \in Nat \cup {NotSet}
  BY <1>1, WindowingAssumption DEF EndOf, WindowType
<1>3. QED
  BY <1>1, <1>2 DEF Taking, WindowType, Place

\* What a step does to the windows.
LEMMA Steps ==
  ASSUME Typed, NEW row \in Rows, Offer(row), Add(row) \/ OpenNext(row)
  PROVE  /\ capture' = Append(capture, row) /\ capture' \in Seq(Rows)
         /\ windows' \in Seq(WindowType)
         /\ Current \in Nat /\ Current >= 1
         /\ \/ Current' = Current /\ Add(row)
            \/ Current' = Current + 1 /\ OpenNext(row)
         /\ \A w \in 1..Current' : w # Current' => w <= Current /\ windows'[w] = windows[w]
         /\ windows'[Current'].rows = IF row.kind = "rst_or_fin" THEN Before(Current')
                                      ELSE Append(Before(Current'), Place)
         /\ windows'[Current'].end =
              IF Current' = Current THEN EndOf(windows[Current], row.ts)
                                    ELSE row.ts + max_time_window
<1>1. /\ capture' = Append(capture, row) /\ capture' \in Seq(Rows)
      /\ Current \in Nat /\ Current >= 1 /\ Current = Len(windows)
  BY DEF Typed, Offer, Current
<1>2. CASE Add(row)
  <2>1. windows' = [windows EXCEPT ![Current] = Taking(windows[Current], row)]
    BY <1>2 DEF Add
  <2>2. windows[Current] \in WindowType
    BY <1>1 DEF Typed
  <2>3. /\ Taking(windows[Current], row) \in WindowType
        /\ Taking(windows[Current], row).end = EndOf(windows[Current], row.ts)
        /\ Taking(windows[Current], row).rows =
             IF row.kind = "rst_or_fin" THEN windows[Current].rows
                                        ELSE Append(windows[Current].rows, Place)
    BY <2>2, TakingType DEF Typed
  <2>4. windows' \in Seq(WindowType) /\ Len(windows') = Len(windows)
    BY <1>1, <2>1, <2>3 DEF Typed
  <2>5. Current' = Current
    BY <2>4 DEF Current
  <2>6. \A w \in 1..Current : w # Current => windows'[w] = windows[w]
    BY <1>1, <2>1 DEF Typed
  <2>7. windows'[Current] = Taking(windows[Current], row)
    BY <1>1, <2>1 DEF Typed
  <2>8. Before(Current) = windows[Current].rows
    BY <1>1 DEF Before
  <2>9. QED
    BY <1>1, <1>2, <2>3, <2>4, <2>5, <2>6, <2>7, <2>8
<1>3. CASE OpenNext(row)
  <2>1. windows' = Append(windows, Taking(Fresh, row))
    BY <1>3 DEF OpenNext
  <2>2. Fresh \in WindowType /\ Fresh.end = NotSet /\ Fresh.rows = <<>>
    BY DEF Fresh, WindowType, NotSet
  <2>3. /\ Taking(Fresh, row) \in WindowType
        /\ Taking(Fresh, row).end = row.ts + max_time_window
        /\ Taking(Fresh, row).rows =
             IF row.kind = "rst_or_fin" THEN <<>> ELSE Append(<<>>, Place)
    BY <2>2, TakingType DEF Typed, EndOf
  <2>4. windows' \in Seq(WindowType) /\ Len(windows') = Len(windows) + 1
    BY <1>1, <2>1, <2>3 DEF Typed
  <2>5. Current' = Current + 1
    BY <1>1, <2>4 DEF Current
  <2>6. \A w \in 1..(Current + 1) :
          w # Current + 1 => w <= Current /\ windows'[w] = windows[w]
    BY <1>1, <2>1, <2>3 DEF Typed
  <2>7. windows'[Current + 1] = Taking(Fresh, row)
    BY <1>1, <2>1, <2>3 DEF Typed
  <2>8. Before(Current + 1) = <<>>
    BY <1>1 DEF Before
  <2>9. QED
    <3>1. windows'[Current'].rows = IF row.kind = "rst_or_fin" THEN Before(Current')
                                      ELSE Append(Before(Current'), Place)
      BY <2>3, <2>5, <2>7, <2>8
    <3>2. Current' # Current /\ windows'[Current'].end = row.ts + max_time_window
      BY <1>1, <2>3, <2>5, <2>7
    <3>3. \A w \in 1..Current' : w # Current' => w <= Current /\ windows'[w] = windows[w]
      BY <2>5, <2>6
    <3>4. QED
      BY <1>1, <1>3, <2>4, <2>5, <3>1, <3>2, <3>3
<1>4. QED
  BY <1>2, <1>3

LEMMA AppendKeeps ==
  ASSUME NEW s \in Seq(Nat), NEW p \in Nat, NEW k \in DOMAIN s
  PROVE  k \in DOMAIN Append(s, p) /\ Append(s, p)[k] = s[k]
OBVIOUS

\* The rows of every window after a step: those of before, and the row offered.
LEMMA StepRows ==
  ASSUME Typed, NEW row \in Rows, Offer(row), Add(row) \/ OpenNext(row)
  PROVE  /\ \A w \in 1..Current' : \A m \in DOMAIN windows'[w].rows :
              \/ /\ w <= Current /\ m \in DOMAIN windows[w].rows
                 /\ windows'[w].rows[m] = windows[w].rows[m]
              \/ /\ w = Current' /\ row.kind # "rst_or_fin"
                 /\ windows'[w].rows[m] = Place /\ m = Len(Before(w)) + 1
         /\ \A w \in 1..Current : \A m \in DOMAIN windows[w].rows :
              m \in DOMAIN windows'[w].rows /\ windows'[w].rows[m] = windows[w].rows[m]
         /\ row.kind # "rst_or_fin" =>
              \E m \in DOMAIN windows'[Current'].rows : windows'[Current'].rows[m] = Place
<1>1. /\ Current \in Nat /\ Current >= 1
      /\ Current' = Current \/ Current' = Current + 1
      /\ \A w \in 1..Current' : w # Current' => w <= Current /\ windows'[w] = windows[w]
      /\ windows'[Current'].rows = IF row.kind = "rst_or_fin" THEN Before(Current')
                                   ELSE Append(Before(Current'), Place)
  BY Steps
<1>2. \A w \in 1..Current : windows[w].rows \in Seq(Nat)
  <2> SUFFICES ASSUME NEW w \in 1..Current PROVE windows[w].rows \in Seq(Nat)
    OBVIOUS
  <2>1. windows[w] \in WindowType
    BY DEF Typed, Current
  <2>2. QED
    BY <2>1 DEF WindowType
<1>3. Before(Current') \in Seq(Nat) /\ Place \in Nat
  BY <1>1, <1>2 DEF Before, Place, Typed
<1>4. \A m \in DOMAIN Before(Current') :
        Current' <= Current /\ Before(Current') = windows[Current'].rows
  BY <1>1 DEF Before
<1>5. \A m \in DOMAIN Before(Current') :
        /\ m \in DOMAIN windows'[Current'].rows
        /\ windows'[Current'].rows[m] = Before(Current')[m]
  BY <1>1, <1>3, AppendKeeps
<1>6. ASSUME NEW w \in 1..Current', NEW m \in DOMAIN windows'[w].rows
      PROVE  \/ /\ w <= Current /\ m \in DOMAIN windows[w].rows
                /\ windows'[w].rows[m] = windows[w].rows[m]
             \/ /\ w = Current' /\ row.kind # "rst_or_fin"
                /\ windows'[w].rows[m] = Place /\ m = Len(Before(w)) + 1
  <2>1. CASE w # Current'
    BY <1>1, <1>6, <2>1
  <2>2. CASE w = Current' /\ m \in DOMAIN Before(w)
    BY <1>4, <1>5, <2>2
  <2>3. CASE w = Current' /\ m \notin DOMAIN Before(w)
    <3>1. row.kind # "rst_or_fin" /\ windows'[w].rows = Append(Before(w), Place)
      BY <1>1, <1>6, <2>3
    <3>2. m = Len(Before(w)) + 1 /\ windows'[w].rows[m] = Place
      BY <1>3, <1>6, <2>3, <3>1
    <3>3. QED
      BY <2>3, <3>1, <3>2
  <2>4. QED
    BY <2>1, <2>2, <2>3
<1>7. ASSUME NEW w \in 1..Current, NEW m \in DOMAIN windows[w].rows
      PROVE  m \in DOMAIN windows'[w].rows /\ windows'[w].rows[m] = windows[w].rows[m]
  <2>1. CASE w # Current'
    BY <1>1, <1>7, <2>1
  <2>2. CASE w = Current'
    <3>1. Before(Current') = windows[w].rows
      BY <2>2 DEF Before
    <3>2. QED
      BY <1>5, <1>7, <2>2, <3>1
  <2>3. QED
    BY <2>1, <2>2
<1>8. ASSUME row.kind # "rst_or_fin"
      PROVE  \E m \in DOMAIN windows'[Current'].rows : windows'[Current'].rows[m] = Place
  <2>1. windows'[Current'].rows = Append(Before(Current'), Place)
    BY <1>1, <1>8
  <2>2. QED
    BY <1>3, <2>1
<1>9. QED
  BY <1>6, <1>7, <1>8

LEMMA TypedNext == Typed /\ [Next]_vars => Typed'
<1> SUFFICES ASSUME Typed, [Next]_vars PROVE Typed'
  OBVIOUS
<1>1. CASE UNCHANGED vars
  BY <1>1 DEF vars, Typed, Current
<1>2. CASE Next
  <2>1. PICK row \in Rows : Offer(row) /\ (Add(row) \/ OpenNext(row))
    BY <1>2 DEF Next
  <2>2. /\ capture' \in Seq(Rows) /\ Len(capture') = Len(capture) + 1
        /\ windows' \in Seq(WindowType) /\ Current' > 0 /\ Len(capture) \in Nat
    BY <2>1, Steps DEF Typed
  <2>3. \A w \in 1..Current' : \A m \in DOMAIN windows'[w].rows :
          windows'[w].rows[m] \in 1..Len(capture')
    <3> SUFFICES ASSUME NEW w \in 1..Current', NEW m \in DOMAIN windows'[w].rows
                 PROVE  windows'[w].rows[m] \in 1..Len(capture')
      OBVIOUS
    <3>1. \/ /\ w <= Current /\ m \in DOMAIN windows[w].rows
             /\ windows'[w].rows[m] = windows[w].rows[m]
          \/ windows'[w].rows[m] = Place
      BY <2>1, StepRows
    <3>2. Current \in Nat
      BY DEF Typed, Current
    <3>3. QED
      BY <2>2, <3>1, <3>2 DEF Typed, Place
  <2>4. pending' \subseteq Handshake
    BY <2>1 DEF Add, OpenNext, StillPending, Rows, Typed
  <2>5. QED
    BY <2>2, <2>3, <2>4 DEF Typed, Current
<1>3. QED
  BY <1>1, <1>2

LEMMA AlwaysTyped == Spec => []Typed
  BY TypedInit, TypedNext, PTL DEF Spec

\* The windows stay sequences of rows of the capture.
THEOREM TypeCorrect == Spec => []TypeOK
  BY AlwaysTyped, TypedIsTypeOK, PTL

-----------------------------------------------------------------------------
(* The bounds.                                                             *)

\* WindowsBounded is not inductive: that a new row is no older than the window's
\* first one follows from the order of the capture, and that a window without an
\* end is empty keeps the first row's bound from being about older ones.
BoundInv ==
  /\ Typed
  /\ WindowsBounded
  /\ \A w \in 1..Current : windows[w].end = NotSet => windows[w].rows = <<>>
  /\ windows[Current].end # NotSet =>
       /\ Len(capture) > 0
       /\ windows[Current].end - max_time_window <= capture[Len(capture)].ts

LEMMA BoundInit == Init => BoundInv
<1> SUFFICES ASSUME Init PROVE BoundInv
  OBVIOUS
<1>1. Typed
  BY TypedInit
<1>2. Current = 1 /\ windows[1].rows = <<>> /\ windows[1].end = NotSet
  BY DEF Init, Fresh, Current
<1>3. WindowsBounded
  BY <1>2, WindowingAssumption DEF WindowsBounded, RowsOf
<1>4. QED
  BY <1>1, <1>2, <1>3 DEF BoundInv

\* The window that a row was offered to, after it: the one that took it, or the
\* one that was opened for it.
LEMMA LastWindow ==
  ASSUME BoundInv, NEW row \in Rows, Offer(row), Add(row) \/ OpenNext(row)
  PROVE  LET last == windows'[Current']
         IN  /\ last.end \in Nat /\ row.ts \in Nat
             /\ last.end - max_time_window <= row.ts
             /\ row.ts < last.end + grace
             /\ Len(Before(Current')) < hard_limit
             /\ Current' <= Current /\ windows[Current'].rows # <<>> =>
                  last.end = windows[Current'].end
<1>1. /\ Current \in Nat /\ Current >= 1
      /\ \/ Current' = Current /\ Add(row)
         \/ Current' = Current + 1 /\ OpenNext(row)
      /\ windows'[Current'].end =
           IF Current' = Current THEN EndOf(windows[Current], row.ts)
                                 ELSE row.ts + max_time_window
  BY Steps DEF BoundInv
<1>2. row.ts \in Nat /\ max_time_window \in Nat \ {0} /\ grace \in Nat
      /\ hard_limit \in Nat \ {0}
  BY WindowingAssumption DEF Rows
<1>3. CASE Current' = Current /\ Add(row)
  <2>1. ~LimitReached(windows[Current], row.ts)
    BY <1>3 DEF Add
  <2>2. windows[Current] \in WindowType
    BY <1>1 DEF BoundInv, Typed, Current
  <2>3. windows[Current].end \in Nat \cup {NotSet} /\ Len(windows[Current].rows) \in Nat
    BY <2>2 DEF WindowType
  <2>4. EndOf(windows[Current], row.ts) \in Nat
    BY <1>2, <2>3 DEF EndOf
  <2>5. EndOf(windows[Current], row.ts) - max_time_window <= row.ts
    <3>1. CASE windows[Current].end = NotSet
      BY <1>2, <3>1 DEF EndOf
    <3>2. CASE windows[Current].end # NotSet
      <4>1. /\ windows[Current].end - max_time_window <= capture[Len(capture)].ts
            /\ Len(capture) > 0 /\ Len(capture) \in Nat
        BY <3>2 DEF BoundInv, Typed
      <4>2. capture[Len(capture)].ts <= row.ts /\ capture[Len(capture)] \in Rows
        BY <4>1 DEF Offer, BoundInv, Typed
      <4>3. capture[Len(capture)].ts \in Nat /\ windows[Current].end \in Nat
        BY <2>3, <3>2, <4>2, WindowingAssumption DEF Rows
      <4>4. QED
        BY <1>2, <3>2, <4>1, <4>2, <4>3 DEF EndOf
    <3>3. QED
      BY <3>1, <3>2
  <2>6. row.ts < EndOf(windows[Current], row.ts) + grace
    BY <1>2, <2>1, <2>4 DEF LimitReached
  <2>7. Len(Before(Current)) < hard_limit
    BY <1>1, <1>2, <2>1, <2>3 DEF LimitReached, Before
  <2>8. windows[Current].rows # <<>> =>
          EndOf(windows[Current], row.ts) = windows[Current].end
    BY <1>1 DEF BoundInv, EndOf
  <2>9. QED
    BY <1>1, <1>2, <1>3, <2>4, <2>5, <2>6, <2>7, <2>8
<1>4. CASE Current' = Current + 1 /\ OpenNext(row)
  <2>1. Before(Current') = <<>>
    BY <1>1, <1>4 DEF Before
  <2>2. QED
    BY <1>1, <1>2, <1>4, <2>1
<1>5. QED
  BY <1>1, <1>3, <1>4

LEMMA BoundNext == BoundInv /\ [Next]_vars => BoundInv'
<1> SUFFICES ASSUME BoundInv, [Next]_vars PROVE BoundInv'
  OBVIOUS
<1>1. Typed'
  BY TypedNext DEF BoundInv
<1>2. CASE UNCHANGED vars
  BY <1>1, <1>2 DEF vars, BoundInv, WindowsBounded, RowsOf, Current
<1>3. CASE Next
  <2>1. PICK row \in Rows : Offer(row) /\ (Add(row) \/ OpenNext(row))
    BY <1>3 DEF Next
  <2> DEFINE last == windows'[Current']
  <2>2. /\ last.end \in Nat /\ row.ts \in Nat
        /\ last.end - max_time_window <= row.ts
        /\ row.ts < last.end + grace
        /\ Len(Before(Current')) < hard_limit
        /\ Current' <= Current /\ windows[Current'].rows # <<>> =>
             last.end = windows[Current'].end
    BY <2>1, LastWindow
  <2>3. /\ capture' = Append(capture, row) /\ capture' \in Seq(Rows)
        /\ Current \in Nat /\ Current >= 1
        /\ Current' = Current \/ Current' = Current + 1
        /\ \A w \in 1..Current' : w # Current' => w <= Current /\ windows'[w] = windows[w]
        /\ last.rows = IF row.kind = "rst_or_fin" THEN Before(Current')
                                                  ELSE Append(Before(Current'), Place)
    BY <2>1, Steps DEF BoundInv
  <2>4. /\ Len(capture) \in Nat /\ Len(capture') = Place /\ capture'[Place] = row
        /\ \A p \in 1..Len(capture) : capture'[p] = capture[p]
    BY <2>3 DEF Place, BoundInv, Typed
  <2>5. \A w \in 1..Current' : Len(windows'[w].rows) <= hard_limit
    <3> SUFFICES ASSUME NEW w \in 1..Current' PROVE Len(windows'[w].rows) <= hard_limit
      OBVIOUS
    <3>1. CASE w # Current'
      BY <2>3, <3>1 DEF BoundInv, WindowsBounded
    <3>2. CASE w = Current'
      <4>1. Before(Current') \in Seq(Nat)
        <5>1. CASE Current' <= Current
          <6>1. windows[Current'] \in WindowType
            BY <2>3, <5>1 DEF BoundInv, Typed, Current
          <6>2. QED
            BY <5>1, <6>1 DEF Before, WindowType
        <5>2. CASE ~(Current' <= Current)
          BY <5>2 DEF Before
        <5>3. QED
          BY <5>1, <5>2
      <4>2. Len(last.rows) <= Len(Before(Current')) + 1 /\ Len(Before(Current')) \in Nat
        BY <2>3, <4>1
      <4>3. Len(last.rows) \in Nat
        BY <2>3, <4>1
      <4>4. QED
        BY <2>2, <3>2, <4>2, <4>3, WindowingAssumption
    <3>3. QED
      BY <3>1, <3>2
  <2>6. ASSUME NEW w \in 1..Current', NEW m \in DOMAIN windows'[w].rows
        PROVE  /\ capture'[windows'[w].rows[m]].ts < windows'[w].end + grace
               /\ capture'[windows'[w].rows[m]].ts >= windows'[w].end - max_time_window
    <3>1. CASE w <= Current /\ m \in DOMAIN windows[w].rows
               /\ windows'[w].rows[m] = windows[w].rows[m]
      <4>1. w \in 1..Current /\ windows[w].rows[m] \in RowsOf(w)
        BY <2>3, <3>1 DEF RowsOf
      <4>2. /\ capture[windows[w].rows[m]].ts < windows[w].end + grace
            /\ capture[windows[w].rows[m]].ts >= windows[w].end - max_time_window
        BY <4>1 DEF BoundInv, WindowsBounded
      <4>3. windows[w].rows[m] \in 1..Len(capture)
        BY <3>1, <4>1 DEF BoundInv, Typed
      <4>4. windows'[w].end = windows[w].end
        <5>1. CASE w # Current'
          BY <2>3, <5>1
        <5>2. CASE w = Current'
          <6>1. windows[w].rows # <<>>
            BY <3>1
          <6>2. QED
            BY <2>2, <3>1, <5>2, <6>1
        <5>3. QED
          BY <5>1, <5>2
      <4>5. QED
        BY <2>4, <3>1, <4>2, <4>3, <4>4
    <3>2. CASE w = Current' /\ windows'[w].rows[m] = Place
      BY <2>2, <2>4, <3>2, WindowingAssumption
    <3>3. QED
      BY <2>1, <2>6, <3>1, <3>2, StepRows DEF BoundInv
  <2>7. WindowsBounded'
    BY <2>5, <2>6 DEF WindowsBounded, RowsOf
  <2>8. \A w \in 1..Current' : windows'[w].end = NotSet => windows'[w].rows = <<>>
    BY <2>2, <2>3 DEF BoundInv, NotSet
  <2>9. Len(capture') > 0 /\ last.end - max_time_window <= capture'[Len(capture')].ts
    BY <2>2, <2>4 DEF Place
  <2>10. QED
    BY <1>1, <2>7, <2>8, <2>9 DEF BoundInv
<1>4. QED
  BY <1>2, <1>3

\* No capture, however many handshakes it leaves open, makes a window longer than
\* its width and the grace or fuller than the cap.
THEOREM WindowsStayBounded == Spec => []WindowsBounded
<1>1. BoundInv => WindowsBounded
  BY DEF BoundInv
<1>2. QED
  BY <1>1, BoundInit, BoundNext, PTL DEF Spec

-----------------------------------------------------------------------------
(* The order.                                                              *)

OrderInv == Typed /\ NothingLostOrMoved

LEMMA OrderInit == Init => OrderInv
BY TypedInit DEF Init, OrderInv, NothingLostOrMoved, RowsOf, Current, Fresh

LEMMA OrderNext == OrderInv /\ [Next]_vars => OrderInv'
<1> SUFFICES ASSUME OrderInv, [Next]_vars PROVE OrderInv'
  OBVIOUS
<1>1. Typed'
  BY TypedNext DEF OrderInv
<1>2. CASE UNCHANGED vars
  BY <1>1, <1>2 DEF vars, OrderInv, NothingLostOrMoved, RowsOf, Current
<1>3. CASE Next
  <2>1. PICK row \in Rows : Offer(row) /\ (Add(row) \/ OpenNext(row))
    BY <1>3 DEF Next
  <2> DEFINE Old(w, m) == /\ w <= Current /\ m \in DOMAIN windows[w].rows
                          /\ windows'[w].rows[m] = windows[w].rows[m]
             New(w, m) == /\ w = Current' /\ row.kind # "rst_or_fin"
                          /\ windows'[w].rows[m] = Place /\ m = Len(Before(w)) + 1
  <2>2. /\ \A w \in 1..Current' : \A m \in DOMAIN windows'[w].rows : Old(w, m) \/ New(w, m)
        /\ \A w \in 1..Current : \A m \in DOMAIN windows[w].rows :
             m \in DOMAIN windows'[w].rows /\ windows'[w].rows[m] = windows[w].rows[m]
        /\ row.kind # "rst_or_fin" =>
             \E m \in DOMAIN windows'[Current'].rows : windows'[Current'].rows[m] = Place
    BY <2>1, StepRows DEF OrderInv
  <2>3. /\ Current \in Nat /\ Current >= 1 /\ Current' \in Nat
        /\ Current' = Current \/ Current' = Current + 1
        /\ capture' = Append(capture, row)
    BY <2>1, Steps DEF OrderInv
  <2>4. /\ Len(capture) \in Nat /\ Len(capture') = Place /\ capture'[Place] = row
        /\ \A p \in 1..Len(capture) : capture'[p] = capture[p]
    BY <2>3 DEF Place, OrderInv, Typed
  <2>5. \A w \in 1..Current' : \A m \in DOMAIN windows'[w].rows :
          Old(w, m) => windows'[w].rows[m] \in 1..Len(capture)
    BY <2>3 DEF OrderInv, Typed
  <2>6. ASSUME NEW p \in 1..Len(capture')
        PROVE  capture'[p].kind # "rst_or_fin" <=>
                 \E w \in 1..Current' : \E m \in DOMAIN windows'[w].rows :
                   windows'[w].rows[m] = p
    <3>1. CASE p = Place
      <4>1. \A w \in 1..Current' : \A m \in DOMAIN windows'[w].rows :
              windows'[w].rows[m] = Place => New(w, m)
        BY <2>2, <2>4, <2>5 DEF Place
      <4>2. QED
        BY <2>2, <2>3, <2>4, <3>1, <4>1
    <3>2. CASE p \in 1..Len(capture)
      <4>1. capture'[p].kind # "rst_or_fin" <=>
              \E w \in 1..Current : \E m \in DOMAIN windows[w].rows : windows[w].rows[m] = p
        BY <2>4, <3>2 DEF OrderInv, NothingLostOrMoved, RowsOf
      <4>2. ASSUME NEW w \in 1..Current', NEW m \in DOMAIN windows'[w].rows,
                   windows'[w].rows[m] = p
            PROVE  w \in 1..Current /\ m \in DOMAIN windows[w].rows /\ windows[w].rows[m] = p
        BY <2>2, <2>3, <2>4, <3>2, <4>2 DEF Place
      <4>3. ASSUME NEW w \in 1..Current, NEW m \in DOMAIN windows[w].rows,
                   windows[w].rows[m] = p
            PROVE  /\ w \in 1..Current' /\ m \in DOMAIN windows'[w].rows
                   /\ windows'[w].rows[m] = p
        BY <2>2, <2>3, <4>3
      <4>4. QED
        BY <4>1, <4>2, <4>3
    <3>3. QED
      BY <2>4, <3>1, <3>2 DEF Place
  <2>7. ASSUME NEW v \in 1..Current', NEW w \in 1..Current',
               NEW a \in DOMAIN windows'[v].rows, NEW b \in DOMAIN windows'[w].rows,
               v < w \/ (v = w /\ a < b)
        PROVE  windows'[v].rows[a] < windows'[w].rows[b]
    <3>1. CASE Old(v, a) /\ Old(w, b)
      BY <2>3, <2>7, <3>1 DEF OrderInv, NothingLostOrMoved
    <3>2. CASE Old(v, a) /\ New(w, b)
      BY <2>4, <2>5, <3>2 DEF Place
    <3>3. CASE New(v, a)
      <4>1. v = w /\ a < b /\ w = Current'
        BY <2>3, <2>7, <3>3
      <4>2. Old(w, b) => b \in 1..Len(Before(w)) /\ Len(Before(w)) \in Nat
        <5>1. ASSUME Old(w, b) PROVE windows[w] \in WindowType
          BY <2>3, <5>1 DEF OrderInv, Typed, Current
        <5>2. QED
          BY <5>1 DEF Before, WindowType
      <4>3. b # Len(Before(w)) + 1
        <5>1. Before(w) \in Seq(Nat)
          <6>1. w <= Current => windows[w] \in WindowType
            BY <2>3 DEF OrderInv, Typed, Current
          <6>2. QED
            BY <6>1 DEF Before, WindowType
        <5>2. QED
          BY <3>3, <4>1, <5>1
      <4>4. QED
        BY <2>2, <3>3, <4>1, <4>2, <4>3
    <3>4. QED
      BY <2>2, <3>1, <3>2, <3>3
  <2>8. NothingLostOrMoved'
    BY <2>6, <2>7 DEF NothingLostOrMoved, RowsOf
  <2>9. QED
    BY <1>1, <2>8 DEF OrderInv
<1>4. QED
  BY <1>2, <1>3

\* Whatever closes the windows, they are together the capture without its RST and
\* FIN rows, in its order.
THEOREM WindowsKeepCapture == Spec => []NothingLostOrMoved
<1>1. OrderInv => NothingLostOrMoved
  BY DEF OrderInv
<1>2. QED
  BY <1>1, OrderInit, OrderNext, PTL DEF Spec

-----------------------------------------------------------------------------
(* The width.                                                              *)

FullWidthInv == BoundInv /\ NoEarlyClose

LEMMA FullWidthInit == Init => FullWidthInv
BY BoundInit DEF Init, FullWidthInv, NoEarlyClose, Current

LEMMA FullWidthNext == FullWidthInv /\ [Next]_vars => FullWidthInv'
<1> SUFFICES ASSUME FullWidthInv, [Next]_vars PROVE FullWidthInv'
  OBVIOUS
<1>1. BoundInv'
  BY BoundNext DEF FullWidthInv
<1>2. CASE UNCHANGED vars
  BY <1>1, <1>2 DEF vars, FullWidthInv, NoEarlyClose, Current
<1>3. CASE Next
  <2>1. PICK row \in Rows : Offer(row) /\ (Add(row) \/ OpenNext(row))
    BY <1>3 DEF Next
  <2>2. /\ Current \in Nat /\ Current >= 1
        /\ \/ Current' = Current /\ Add(row)
           \/ Current' = Current + 1 /\ OpenNext(row)
        /\ \A w \in 1..Current' : w # Current' => w <= Current /\ windows'[w] = windows[w]
        /\ windows'[Current'].end =
             IF Current' = Current THEN EndOf(windows[Current], row.ts)
                                   ELSE row.ts + max_time_window
    BY <2>1, Steps DEF FullWidthInv, BoundInv
  <2>3. /\ row.ts \in Nat /\ max_time_window \in Nat \ {0} /\ hard_limit \in Nat
        /\ \A w \in 1..Current : /\ windows[w].end \in Nat \cup {NotSet}
                                  /\ Len(windows[w].rows) \in Nat
                                  /\ Len(windows[w].rows) <= hard_limit
    <3>1. \A w \in 1..Current : windows[w] \in WindowType
      BY DEF FullWidthInv, BoundInv, Typed, Current
    <3>2. QED
      BY <3>1, WindowingAssumption
         DEF Rows, WindowType, FullWidthInv, BoundInv, WindowsBounded
  <2>4. SUFFICES ASSUME NEW w \in 1..(Current' - 1)
                 PROVE  \/ Len(windows'[w].rows) = hard_limit
                        \/ windows'[w + 1].end >= windows'[w].end + max_time_window
    BY <1>1 DEF FullWidthInv, NoEarlyClose
  <2>5. w \in 1..Current /\ windows'[w] = windows[w]
    BY <2>2, <2>4
  <2>6. CASE w < Current
    <3>1. \/ Len(windows[w].rows) = hard_limit
          \/ windows[w + 1].end >= windows[w].end + max_time_window
      BY <2>2, <2>6 DEF FullWidthInv, NoEarlyClose
    <3>2. CASE w + 1 < Current'
      BY <2>2, <2>5, <3>1, <3>2
    \* The last window keeps the end it has.
    <3>3. CASE w + 1 = Current' /\ Current' = Current
      <4>1. windows'[w + 1].end = EndOf(windows[w + 1], row.ts)
        BY <2>2, <3>3
      <4>2. windows[w + 1].end >= windows[w].end + max_time_window =>
              windows[w + 1].end # NotSet
        BY <2>2, <2>3, <2>6 DEF NotSet
      <4>3. QED
        BY <2>5, <3>1, <4>1, <4>2 DEF EndOf
    <3>4. QED
      BY <2>2, <2>4, <2>6, <3>2, <3>3
  \* A window is opened by a row that the last one refused.
  <2>7. CASE w = Current /\ Current' = Current + 1
    <3>1. LimitReached(windows[w], row.ts)
      BY <2>2, <2>7 DEF OpenNext
    <3>2. windows'[w + 1].end = row.ts + max_time_window
      BY <2>2, <2>7
    <3>3. CASE Len(windows[w].rows) >= hard_limit
      BY <2>3, <2>5, <3>3
    <3>4. CASE row.ts >= EndOf(windows[w], row.ts)
      <4>1. EndOf(windows[w], row.ts) = windows[w].end
        BY <2>3, <3>4 DEF EndOf
      <4>2. QED
        BY <2>3, <2>5, <3>2, <3>4, <4>1 DEF NotSet
    <3>5. QED
      BY <3>1, <3>3, <3>4 DEF LimitReached
  <2>8. QED
    BY <2>2, <2>4, <2>5, <2>6, <2>7
<1>4. QED
  BY <1>2, <1>3

\* Only the cap closes a window before its width is over, so that its SYN count
\* can be read as a velocity.
THEOREM WindowsKeepWidth == Spec => []NoEarlyClose
<1>1. FullWidthInv => NoEarlyClose
  BY DEF FullWidthInv
<1>2. QED
  BY <1>1, FullWidthInit, FullWidthNext, PTL DEF Spec

-----------------------------------------------------------------------------
(* The handshakes.                                                         *)

\* A SYN-ACK that nothing of its handshake has followed is pending in the last
\* window, or its window was closed by the cap or when the grace was over.
StillWaiting ==
  \A w \in 1..Current : \A m \in DOMAIN windows[w].rows :
    LET p == windows[w].rows[m]
    IN  /\ capture[p].kind = "syn_ack"
        /\ \A r \in (p + 1)..Len(capture) : capture[r].of # capture[p].of
        => \/ w = Current /\ capture[p].of \in pending
           \/ /\ w < Current
              /\ \/ Len(windows[w].rows) >= hard_limit
                 \/ capture[Len(capture)].ts >= windows[w].end + grace

KeptInv == BoundInv /\ StillWaiting /\ HandshakeKept

\* A window that holds a row keeps its end, and loses none.
LEMMA WindowsGrow ==
  ASSUME BoundInv, NEW row \in Rows, Offer(row), Add(row) \/ OpenNext(row),
         NEW w \in 1..Current, windows[w].rows # <<>>
  PROVE  /\ windows'[w].end = windows[w].end /\ windows[w].end \in Nat
         /\ Len(windows[w].rows) \in Nat /\ Len(windows'[w].rows) \in Nat
         /\ Len(windows[w].rows) <= Len(windows'[w].rows)
         /\ w < Current => windows'[w] = windows[w]
<1>1. /\ Current \in Nat /\ Current >= 1
      /\ Current' = Current \/ Current' = Current + 1
      /\ \A v \in 1..Current' : v # Current' => v <= Current /\ windows'[v] = windows[v]
      /\ windows'[Current'].rows = IF row.kind = "rst_or_fin" THEN Before(Current')
                                   ELSE Append(Before(Current'), Place)
  BY Steps DEF BoundInv
<1>2. windows[w] \in WindowType
  BY DEF BoundInv, Typed, Current
<1>3. windows[w].rows \in Seq(Nat) /\ windows[w].end \in Nat
  BY <1>2 DEF BoundInv, WindowType, NotSet
<1>4. w < Current => windows'[w] = windows[w]
  BY <1>1
<1>5. CASE w # Current'
  <2>1. windows'[w] = windows[w]
    BY <1>1, <1>5
  <2>2. QED
    BY <1>3, <2>1
<1>6. CASE w = Current'
  <2>1. windows'[w].end = windows[w].end
    BY <1>1, <1>6, LastWindow
  <2>2. Before(w) = windows[w].rows
    BY DEF Before
  <2>3. Place \in Nat
    BY DEF Place, BoundInv, Typed
  <2>4. windows'[w].rows = windows[w].rows \/ windows'[w].rows = Append(windows[w].rows, Place)
    BY <1>1, <1>6, <2>2
  <2>5. Len(windows[w].rows) \in Nat /\ Len(windows'[w].rows) \in Nat
        /\ Len(windows[w].rows) <= Len(windows'[w].rows)
    BY <1>3, <2>3, <2>4
  <2>6. QED
    BY <1>3, <1>4, <2>1, <2>5
<1>7. QED
  BY <1>5, <1>6

\* A row that the last window refuses finds it full or past its grace, if a
\* handshake is pending.
LEMMA RefusedWhilePending ==
  ASSUME BoundInv, NEW row \in Rows, OpenNext(row), pending # {},
         windows[Current].rows # <<>>
  PROVE  \/ Len(windows[Current].rows) >= hard_limit
         \/ row.ts >= windows[Current].end + grace
<1>1. Current \in 1..Current
  BY DEF BoundInv, Typed, Current
<1>2. EndOf(windows[Current], row.ts) = windows[Current].end
  BY <1>1 DEF BoundInv, EndOf
<1>3. QED
  BY <1>2 DEF OpenNext, LimitReached

LEMMA KeptInit == Init => KeptInv
<1> SUFFICES ASSUME Init PROVE StillWaiting /\ HandshakeKept
  BY BoundInit DEF KeptInv
<1>1. Current = 1 /\ windows[1].rows = <<>>
  BY DEF Init, Current, Fresh
<1>2. QED
  BY <1>1 DEF StillWaiting, HandshakeKept, RowsOf

LEMMA KeptNext == KeptInv /\ [Next]_vars => KeptInv'
<1> SUFFICES ASSUME KeptInv, [Next]_vars PROVE KeptInv'
  OBVIOUS
<1>1. BoundInv' /\ BoundInv /\ StillWaiting /\ HandshakeKept
  BY BoundNext DEF KeptInv
<1>2. CASE UNCHANGED vars
  BY <1>1, <1>2 DEF vars, KeptInv, StillWaiting, HandshakeKept, RowsOf, Current
<1>3. CASE Next
  <2>1. PICK row \in Rows : Offer(row) /\ (Add(row) \/ OpenNext(row))
    BY <1>3 DEF Next
  <2>2. /\ Current \in Nat /\ Current >= 1
        /\ \/ Current' = Current /\ Add(row)
           \/ Current' = Current + 1 /\ OpenNext(row)
        /\ capture' = Append(capture, row) /\ capture \in Seq(Rows)
    BY <1>1, <2>1, Steps DEF BoundInv, Typed
  <2>3. /\ Len(capture) \in Nat /\ Len(capture') = Place /\ capture'[Place] = row
        /\ \A p \in 1..Len(capture) : capture'[p] = capture[p]
    BY <2>2 DEF Place
  <2>4. /\ grace \in Nat /\ hard_limit \in Nat /\ row.ts \in Nat
        /\ Len(capture) > 0 => /\ capture[Len(capture)].ts \in Nat
                               /\ capture[Len(capture)].ts <= row.ts
    <3>1. row.ts \in Nat /\ grace \in Nat /\ hard_limit \in Nat
      BY WindowingAssumption DEF Rows
    <3>2. ASSUME Len(capture) > 0
          PROVE  capture[Len(capture)].ts \in Nat /\ capture[Len(capture)].ts <= row.ts
      <4>1. capture[Len(capture)] \in Rows
        BY <2>2, <3>2
      <4>2. QED
        BY <2>1, <3>2, <4>1, WindowingAssumption DEF Offer, Rows
    <3>3. QED
      BY <3>1, <3>2
  \* An old SYN-ACK in a window of before, not followed by its handshake so far.
  <2>5. ASSUME NEW w \in 1..Current, NEW m \in DOMAIN windows[w].rows,
               NEW p, p = windows[w].rows[m],
               capture[p].kind = "syn_ack",
               \A r \in (p + 1)..Len(capture) : capture[r].of # capture[p].of
        PROVE  \/ /\ w = Current' /\ capture[p].of \in pending /\ Add(row)
               \/ /\ w < Current'
                  /\ \/ Len(windows'[w].rows) >= hard_limit
                     \/ row.ts >= windows'[w].end + grace
    <3>1. windows[w].rows # <<>>
      BY <2>5
    <3>2. /\ windows'[w].end = windows[w].end /\ windows[w].end \in Nat
          /\ Len(windows[w].rows) \in Nat /\ Len(windows'[w].rows) \in Nat
          /\ Len(windows[w].rows) <= Len(windows'[w].rows)
      BY <1>1, <2>1, <3>1, WindowsGrow
    <3>3. p \in 1..Len(capture)
      BY <1>1, <2>5 DEF BoundInv, Typed
    <3>4. \/ w = Current /\ capture[p].of \in pending
          \/ /\ w < Current
             /\ \/ Len(windows[w].rows) >= hard_limit
                \/ capture[Len(capture)].ts >= windows[w].end + grace
      BY <1>1, <2>5 DEF StillWaiting
    <3>5. CASE w = Current /\ capture[p].of \in pending
      <4>1. CASE Current' = Current /\ Add(row)
        BY <3>5, <4>1
      <4>2. CASE Current' = Current + 1 /\ OpenNext(row)
        <5>1. \/ Len(windows[w].rows) >= hard_limit
              \/ row.ts >= windows[w].end + grace
          BY <1>1, <3>1, <3>5, <4>2, RefusedWhilePending
        <5>2. w < Current'
          BY <2>2, <3>5, <4>2
        <5>3. QED
          BY <2>4, <3>2, <5>1, <5>2
      <4>3. QED
        BY <2>2, <4>1, <4>2
    <3>6. CASE /\ w < Current
               /\ \/ Len(windows[w].rows) >= hard_limit
                  \/ capture[Len(capture)].ts >= windows[w].end + grace
      <4>1. w < Current'
        BY <2>2, <3>6
      <4>2. Len(capture) > 0
        BY <2>3, <3>3
      <4>3. CASE Len(windows[w].rows) >= hard_limit
        BY <2>4, <3>2, <4>1, <4>3
      <4>4. CASE capture[Len(capture)].ts >= windows[w].end + grace
        <5>1. row.ts >= windows[w].end + grace
          BY <2>4, <3>2, <4>2, <4>4
        <5>2. row.ts >= windows'[w].end + grace
          BY <3>2, <5>1
        <5>3. QED
          BY <4>1, <5>2
      <4>5. QED
        BY <3>6, <4>3, <4>4
    <3>7. QED
      BY <3>4, <3>5, <3>6
  <2>6. ASSUME NEW w \in 1..Current', NEW m \in DOMAIN windows'[w].rows
        PROVE  \/ /\ w \in 1..Current /\ m \in DOMAIN windows[w].rows
                  /\ windows'[w].rows[m] = windows[w].rows[m]
                  /\ windows[w].rows[m] \in 1..Len(capture)
               \/ /\ w = Current' /\ row.kind # "rst_or_fin"
                  /\ windows'[w].rows[m] = Place
    <3>1. \/ /\ w <= Current /\ m \in DOMAIN windows[w].rows
             /\ windows'[w].rows[m] = windows[w].rows[m]
          \/ /\ w = Current' /\ row.kind # "rst_or_fin"
             /\ windows'[w].rows[m] = Place
      BY <1>1, <2>1, <2>6, StepRows DEF BoundInv
    <3>2. w <= Current => w \in 1..Current
      BY <2>2
    <3>3. QED
      BY <1>1, <3>1, <3>2 DEF BoundInv, Typed
  <2>7. StillWaiting'
    <3> SUFFICES ASSUME NEW w \in 1..Current', NEW m \in DOMAIN windows'[w].rows,
                        NEW p, p = windows'[w].rows[m],
                        capture'[p].kind = "syn_ack",
                        \A r \in (p + 1)..Len(capture') : capture'[r].of # capture'[p].of
                 PROVE  \/ w = Current' /\ capture'[p].of \in pending'
                        \/ /\ w < Current'
                           /\ \/ Len(windows'[w].rows) >= hard_limit
                              \/ capture'[Len(capture')].ts >= windows'[w].end + grace
      BY DEF StillWaiting
    <3>1. CASE w = Current' /\ p = Place
      <4>1. row.kind = "syn_ack" /\ capture'[p].of = row.of
        BY <2>3, <3>1
      <4>2. row.of \in pending'
        BY <2>1, <4>1 DEF Add, OpenNext, StillPending
      <4>3. QED
        BY <3>1, <4>1, <4>2
    <3>2. CASE /\ w \in 1..Current /\ m \in DOMAIN windows[w].rows
               /\ p = windows[w].rows[m] /\ p \in 1..Len(capture)
      <4>1. capture'[p] = capture[p]
        BY <2>3, <3>2
      <4>2. \A r \in (p + 1)..Len(capture) : capture[r].of # capture[p].of
        BY <2>3, <3>2, <4>1 DEF Place
      <4>3. row.of # capture[p].of
        <5>1. Place \in (p + 1)..Len(capture')
          BY <2>3, <3>2 DEF Place
        <5>2. QED
          BY <2>3, <4>1, <5>1
      <4>4. capture[p].of \in pending /\ Add(row) => capture[p].of \in pending'
        BY <4>3 DEF Add, StillPending
      <4>5. \/ /\ w = Current' /\ capture[p].of \in pending /\ Add(row)
            \/ /\ w < Current'
               /\ \/ Len(windows'[w].rows) >= hard_limit
                  \/ row.ts >= windows'[w].end + grace
        BY <2>5, <3>2, <4>1, <4>2
      <4>6. QED
        BY <2>3, <4>1, <4>4, <4>5
    <3>3. QED
      BY <2>6, <3>1, <3>2
  <2>8. HandshakeKept'
    <3> SUFFICES ASSUME NEW w \in 1..Current', NEW m \in DOMAIN windows'[w].rows,
                        NEW p, p = windows'[w].rows[m],
                        NEW q \in (p + 1)..Len(capture'),
                        capture'[p].kind = "syn_ack", capture'[q].kind = "ack",
                        capture'[p].of = capture'[q].of,
                        \A r \in (p + 1)..(q - 1) : capture'[r].of # capture'[p].of,
                        capture'[q].ts < windows'[w].end + grace,
                        Len(windows'[w].rows) < hard_limit
                 PROVE  q \in RowsOf(w)'
      BY DEF HandshakeKept, RowsOf
    <3>1. p # Place
      BY <2>3 DEF Place
    <3>2. /\ w \in 1..Current /\ m \in DOMAIN windows[w].rows
          /\ p = windows[w].rows[m] /\ p \in 1..Len(capture)
      BY <2>6, <3>1
    <3>3. /\ windows'[w].end = windows[w].end /\ windows[w].end \in Nat
          /\ Len(windows[w].rows) \in Nat /\ Len(windows'[w].rows) \in Nat
          /\ Len(windows[w].rows) <= Len(windows'[w].rows)
      BY <1>1, <2>1, <3>2, WindowsGrow
    <3>4. capture'[p] = capture[p]
      BY <2>3, <3>2
    <3>5. CASE q = Place
      <4>1. row.kind = "ack" /\ ~(row.ts >= windows'[w].end + grace)
            /\ ~(Len(windows'[w].rows) >= hard_limit)
        BY <2>3, <2>4, <3>3, <3>5
      <4>2. \A r \in (p + 1)..Len(capture) : capture[r].of # capture[p].of
        BY <2>3, <3>2, <3>4, <3>5 DEF Place
      <4>3. w = Current'
        BY <2>5, <3>2, <3>4, <4>1, <4>2
      <4>4. \E n \in DOMAIN windows'[Current'].rows : windows'[Current'].rows[n] = Place
        BY <1>1, <2>1, <4>1, StepRows DEF BoundInv
      <4>5. QED
        BY <3>5, <4>3, <4>4 DEF RowsOf
    <3>6. CASE q \in (p + 1)..Len(capture)
      <4>1. q \in 1..Len(capture) /\ capture'[q] = capture[q]
        BY <2>3, <3>2, <3>6
      <4>2. \A r \in (p + 1)..(q - 1) : capture[r].of # capture[p].of
        BY <2>3, <3>2, <3>4, <3>6
      <4>3. p \in RowsOf(w)
        BY <3>2 DEF RowsOf
      <4>4. Len(windows[w].rows) < hard_limit
        BY <2>4, <3>3
      <4>5. q \in RowsOf(w)
        BY <1>1, <3>2, <3>3, <3>4, <3>6, <4>1, <4>2, <4>3, <4>4 DEF HandshakeKept
      <4>6. PICK n \in DOMAIN windows[w].rows : windows[w].rows[n] = q
        BY <4>5 DEF RowsOf
      <4>7. n \in DOMAIN windows'[w].rows /\ windows'[w].rows[n] = q
        BY <1>1, <2>1, <3>2, <4>6, StepRows DEF BoundInv
      <4>8. QED
        BY <4>7 DEF RowsOf
    <3>7. QED
      BY <2>3, <3>2, <3>5, <3>6 DEF Place
  <2>9. QED
    BY <1>1, <2>7, <2>8 DEF KeptInv
<1>4. QED
  BY <1>2, <1>3

\* However rows of other handshakes fall between, the ACK that completes a
\* handshake within the grace is in the window of its SYN-ACK, unless the cap was
\* reached.
THEOREM HandshakesAreKept == Spec => []HandshakeKept
<1>1. KeptInv => HandshakeKept
  BY DEF KeptInv
<1>2. QED
  BY <1>1, KeptInit, KeptNext, PTL DEF Spec

-----------------------------------------------------------------------------
\* The oracle's grid against the windows.

\* Time only goes on, and a window starts no earlier than any row of those before.
TimeInv ==
  /\ FullWidthInv
  /\ \A p, q \in 1..Len(capture) : p <= q => capture[p].ts <= capture[q].ts
  /\ \A v, w \in 1..Current :
       v < w => /\ windows[w].end # NotSet /\ windows[v].end <= windows[w].end
                /\ \A p \in RowsOf(v) : capture[p].ts <= windows[w].end - max_time_window

\* An empty capture has no times.
LEMMA TimeInit == Init => TimeInv
BY FullWidthInit DEF Init, TimeInv, Current

\* A row is no earlier than those before it, and neither is the window it opens.
LEMMA TimeNext == TimeInv /\ [Next]_vars => TimeInv'
<1> SUFFICES ASSUME TimeInv, [Next]_vars PROVE TimeInv'
  OBVIOUS
<1>1. FullWidthInv' /\ FullWidthInv /\ Typed /\ BoundInv
  BY FullWidthNext DEF TimeInv, FullWidthInv, BoundInv
<1>2. CASE UNCHANGED vars
  BY <1>1, <1>2 DEF vars, TimeInv, RowsOf, Current
<1>3. CASE Next
  <2>1. PICK row \in Rows : Offer(row) /\ (Add(row) \/ OpenNext(row))
    BY <1>3 DEF Next
  <2>2. /\ capture' = Append(capture, row) /\ capture \in Seq(Rows)
        /\ Current \in Nat /\ Current >= 1
        /\ \/ Current' = Current /\ Add(row)
           \/ Current' = Current + 1 /\ OpenNext(row)
        /\ \A w \in 1..Current' : w # Current' => w <= Current /\ windows'[w] = windows[w]
        /\ windows'[Current'].end =
             IF Current' = Current THEN EndOf(windows[Current], row.ts)
                                   ELSE row.ts + max_time_window
    BY <1>1, <2>1, Steps DEF Typed
  <2>3. /\ row.ts \in Nat /\ max_time_window \in Nat \ {0}
        /\ \A w \in 1..Current : windows[w].end \in Nat \cup {NotSet}
        /\ \A p \in 1..Len(capture) : capture[p].ts \in Nat
        /\ \A w \in 1..Current : RowsOf(w) \subseteq 1..Len(capture)
    <3>1. \A w \in 1..Current : windows[w] \in WindowType
      BY <1>1 DEF Typed, Current
    <3>2. \A w \in 1..Current : RowsOf(w) \subseteq 1..Len(capture)
      BY <1>1 DEF Typed, RowsOf
    <3>3. \A p \in 1..Len(capture) : capture[p] \in Rows
      BY <2>2
    <3> QED
      BY <3>1, <3>2, <3>3, WindowingAssumption DEF Rows, WindowType
  <2>4. PICK n \in Nat : /\ n = Len(capture) /\ Len(capture') = n + 1 /\ capture'[n + 1] = row
                         /\ \A p \in 1..n : capture'[p] = capture[p]
    BY <2>2
  <2>5. \A p \in 1..n : capture[p].ts <= row.ts
    <3>1. \A p \in 1..n : capture[p].ts <= capture[n].ts
      BY <2>4 DEF TimeInv
    <3>2. n > 0 => row.ts >= capture[n].ts
      BY <2>1, <2>4 DEF Offer
    <3> SUFFICES ASSUME NEW p \in 1..n PROVE capture[p].ts <= row.ts
      OBVIOUS
    <3>3. capture[p].ts \in Nat /\ capture[n].ts \in Nat
      BY <2>3, <2>4
    <3> QED
      BY <2>3, <3>1, <3>2, <3>3
  <2>6. \A p, q \in 1..(n + 1) : p <= q => capture'[p].ts <= capture'[q].ts
    <3> SUFFICES ASSUME NEW p \in 1..(n + 1), NEW q \in 1..(n + 1), p <= q
                 PROVE  capture'[p].ts <= capture'[q].ts
      OBVIOUS
    <3>1. CASE q <= n
      BY <2>4, <3>1 DEF TimeInv
    <3>2. CASE q = n + 1 /\ p <= n
      BY <2>4, <2>5, <3>2
    <3>3. CASE q = n + 1 /\ p = n + 1
      BY <2>3, <2>4, <3>3
    <3> QED
      BY <3>1, <3>2, <3>3
  <2>7. ASSUME NEW v \in 1..Current', NEW w \in 1..Current', v < w
        PROVE  /\ windows'[w].end # NotSet /\ windows'[v].end <= windows'[w].end
               /\ \A p \in RowsOf(v)' : capture'[p].ts <= windows'[w].end - max_time_window
    <3>1. v \in 1..Current /\ windows'[v] = windows[v]
      BY <2>2, <2>7
    <3>2. RowsOf(v)' = RowsOf(v) /\ RowsOf(v) \subseteq 1..n
      BY <2>3, <2>4, <3>1 DEF RowsOf
    <3>3. CASE w <= Current
      <4>1. /\ windows[w].end # NotSet /\ windows[v].end <= windows[w].end
            /\ \A p \in RowsOf(v) : capture[p].ts <= windows[w].end - max_time_window
        BY <2>7, <3>1, <3>3 DEF TimeInv
      <4>2. windows'[w].end = windows[w].end
        BY <2>2, <2>7, <3>3, <4>1 DEF EndOf
      <4> QED
        BY <2>4, <3>1, <3>2, <4>1, <4>2
    <3>4. CASE w = Current + 1
      <4>1. windows'[w].end = row.ts + max_time_window
        BY <2>2, <2>7, <3>4
      <4>2. windows[Current].end <= row.ts + max_time_window
        <5>1. CASE windows[Current].end = NotSet
          BY <2>3, <5>1 DEF NotSet
        <5>2. CASE windows[Current].end # NotSet
          <6>1. n \in 1..n /\ windows[Current].end - max_time_window <= capture[n].ts
            BY <1>1, <2>4, <5>2 DEF BoundInv
          <6>2. capture[n].ts <= row.ts /\ capture[n].ts \in Nat
            BY <2>3, <2>4, <2>5, <6>1
          <6>3. windows[Current].end \in Int
            BY <2>2, <2>3 DEF NotSet
          <6> QED
            BY <2>3, <6>1, <6>2, <6>3
        <5> QED
          BY <5>1, <5>2
      <4>3. windows[v].end <= windows[Current].end
        <5>1. CASE v = Current
          BY <2>3, <3>1, <5>1 DEF NotSet
        <5>2. CASE v < Current
          BY <2>2, <3>1, <5>2 DEF TimeInv
        <5> QED
          BY <2>2, <3>1, <5>1, <5>2
      <4>4. windows'[v].end <= windows'[w].end /\ windows'[w].end # NotSet
        <5>1. windows[v].end \in Int /\ windows[Current].end \in Int
          BY <2>2, <2>3, <3>1 DEF NotSet
        <5> QED
          BY <2>3, <3>1, <4>1, <4>2, <4>3, <5>1 DEF NotSet
      <4>5. ASSUME NEW p \in RowsOf(v) PROVE capture'[p].ts <= windows'[w].end - max_time_window
        <5>1. p \in 1..n /\ capture'[p].ts <= row.ts
          BY <2>4, <2>5, <3>2
        <5> QED
          BY <2>3, <4>1, <5>1
      <4> QED
        BY <3>2, <4>4, <4>5
    <3>5. w \in Nat /\ (w <= Current \/ w = Current + 1)
      BY <2>2, <2>7
    <3> QED
      BY <3>3, <3>4, <3>5
  <2> QED
    BY <1>1, <2>4, <2>6, <2>7 DEF TimeInv
<1> QED
  BY <1>2, <1>3

\* The widths, and the cells a window may reach past its first, are counts.
LEMMA Widths ==
  /\ max_time_window \in Nat /\ max_time_window > 0 /\ grace \in Nat
  /\ hard_limit \in Nat /\ Reach \in Nat
<1>1. /\ max_time_window \in Nat /\ max_time_window > 0 /\ grace \in Nat
      /\ hard_limit \in Nat
  BY WindowingAssumption
<1>2. PICK a \in Nat : a = 2 * max_time_window + grace - 2
  BY <1>1, 2 * max_time_window + grace - 2 \in Nat
<1>3. a \div max_time_window \in Nat
  BY <1>1
<1> QED
  BY <1>1, <1>2, <1>3 DEF Reach

\* The least e with W * e in reach.
LEMMA ReachIs ==
  ASSUME NEW e \in Nat, max_time_window * e <= 2 * max_time_window + grace - 2
  PROVE  e <= Reach
<1> DEFINE W == max_time_window
<1>1. W \in Nat /\ W > 0 /\ grace \in Nat
  BY Widths
<1>2. PICK a \in Nat : a = 2 * W + grace - 2
  BY <1>1, 2 * W + grace - 2 \in Nat
<1>3. W * e <= a
  BY <1>2
<1> HIDE DEF W
<1>4. PICK x \in Nat, y \in 0..(W - 1) : x = a \div W /\ a = W * x + y
  BY <1>1
<1>5. ~(e > x)
  <2> SUFFICES ASSUME e > x PROVE FALSE
    OBVIOUS
  <2>1. PICK j \in Nat : e = x + 1 + j
    BY e - x - 1 \in Nat, e = x + 1 + (e - x - 1)
  <2>2. W * e = W * x + W + W * j
    BY <1>1, <2>1
  <2>3. PICK p \in Nat, q \in Nat : p = W * x /\ q = W * j
    BY <1>1
  <2> QED
    BY <1>1, <1>3, <1>4, <2>2, <2>3
<1>6. Reach = x
  BY <1>2, <1>4 DEF Reach, W
<1> QED
  BY <1>5, <1>6

\* A row's time from the first one, by its cell and its place in it.
LEMMA CellOf ==
  ASSUME TimeInv, NEW p \in 1..Len(capture)
  PROVE  /\ Cell(p) \in Nat /\ capture[p].ts \in Nat /\ capture[1].ts \in Nat
         /\ \E r \in 0..(max_time_window - 1) :
              capture[p].ts = capture[1].ts + max_time_window * Cell(p) + r
<1> DEFINE W == max_time_window
<1>1. W \in Nat /\ W > 0
  BY Widths
<1>2. \A q \in 1..Len(capture) : capture[q].ts \in Nat
  <2>1. \A q \in 1..Len(capture) : capture[q] \in Rows
    BY DEF TimeInv, FullWidthInv, BoundInv, Typed
  <2>2. 0..MaxTime \subseteq Nat
    OBVIOUS
  <2> QED
    BY <2>1, <2>2 DEF Rows
<1>3. Len(capture) \in Nat /\ 1 \in 1..Len(capture)
  <2>1. Len(capture) \in Nat
    BY DEF TimeInv, FullWidthInv, BoundInv, Typed
  <2> QED
    BY <2>1
<1>4. capture[1].ts <= capture[p].ts
  BY <1>3 DEF TimeInv
<1>5. PICK s \in Nat, t \in Nat, a \in Nat :
        s = capture[1].ts /\ t = capture[p].ts /\ a = t - s
  BY <1>2, <1>3, <1>4, capture[p].ts - capture[1].ts \in Nat
<1> HIDE DEF W
<1>6. PICK x \in Nat, r \in 0..(W - 1) : x = a \div W /\ a = W * x + r
  BY <1>1
<1>7. Cell(p) = x
  BY <1>5, <1>6 DEF Cell, W
<1>8. t = s + W * x + r
  <2>1. PICK m \in Nat : m = W * x
    BY <1>1
  <2>2. a = m + r
    BY <1>6, <2>1, Zenon
  <2>3. t = s + a
    BY <1>5
  <2>4. r \in Nat
    BY <1>1
  <2>5. t = s + m + r
    BY <2>2, <2>3, <2>4
  <2> QED
    BY <2>1, <2>5, Zenon
<1> QED
  BY <1>5, <1>7, <1>8 DEF W

\* Cells by the times between rows.
LEMMA CellsApart ==
  ASSUME TimeInv, NEW p \in 1..Len(capture), NEW q \in 1..Len(capture)
  PROVE  /\ capture[q].ts - capture[p].ts >= max_time_window => Cell(p) # Cell(q)
         /\ capture[q].ts - capture[p].ts < max_time_window + grace => Cell(q) - Cell(p) <= Reach
<1> DEFINE W == max_time_window
<1>1. W \in Nat /\ W > 0 /\ grace \in Nat /\ Reach \in Nat
  BY Widths
<1>2. PICK r \in 0..(W - 1) : capture[p].ts = capture[1].ts + W * Cell(p) + r
  BY CellOf
<1>3. PICK z \in 0..(W - 1) : capture[q].ts = capture[1].ts + W * Cell(q) + z
  BY CellOf
<1>6. /\ Cell(p) \in Nat /\ Cell(q) \in Nat /\ capture[1].ts \in Nat
      /\ capture[p].ts \in Nat /\ capture[q].ts \in Nat
  BY CellOf
<1>7. PICK a \in Nat, b \in Nat : a = Cell(p) /\ b = Cell(q)
  BY <1>6
<1>8. PICK s \in Nat, t \in Nat, u \in Nat :
        s = capture[1].ts /\ t = capture[p].ts /\ u = capture[q].ts
  BY <1>6
<1> HIDE DEF W
<1>9. PICK m \in Nat, n \in Nat : m = W * a /\ n = W * b
  BY <1>1
<1>10. t = s + m + r /\ u = s + n + z
  BY <1>2, <1>3, <1>7, <1>8, <1>9, Zenon
<1>4. ASSUME u - t >= W PROVE a # b
  <2> SUFFICES ASSUME a = b PROVE FALSE
    OBVIOUS
  <2>1. m = n
    BY <1>9, Zenon
  <2> QED
    BY <1>1, <1>10, <1>4, <2>1
<1>5. ASSUME u - t < W + grace PROVE b - a <= Reach
  <2>1. CASE b <= a
    BY <1>1, <2>1
  <2>2. CASE b > a
    <3>1. PICK e \in Nat : b = a + e
      BY <2>2, b - a \in Nat, b = a + (b - a)
    <3>2. W * b = W * a + W * e
      BY <1>1, <3>1
    <3>3. PICK k \in Nat : k = W * e
      BY <1>1
    <3>4. n = m + k
      BY <1>9, <3>2, <3>3, Zenon
    <3>5. k <= 2 * W + grace - 2
      BY <1>1, <1>10, <1>5, <3>4
    <3>6. e <= Reach
      BY <3>3, <3>5, ReachIs DEF W
    <3> QED
      BY <1>1, <3>1, <3>6
  <2> QED
    BY <2>1, <2>2
<1> QED
  BY <1>7, <1>8, <1>4, <1>5 DEF W

\* The rows of a window are places of the capture.
LEMMA RowsOfWindow ==
  ASSUME TimeInv, NEW w \in 1..Current
  PROVE  /\ RowsOf(w) \in SUBSET (1..Len(capture)) /\ Len(capture) \in Nat
         /\ Current \in Nat /\ Len(windows[w].rows) \in Nat
         /\ windows[w].end \in Int
         /\ RowsOf(w) # {} => windows[w].end \in Nat
<1>1. Typed /\ \A v \in 1..Current : windows[v].end = NotSet => windows[v].rows = <<>>
  BY DEF TimeInv, FullWidthInv, BoundInv
<1>2. windows[w] \in WindowType /\ Current \in Nat /\ Len(capture) \in Nat
  BY <1>1 DEF Typed, Current
<1>3. Len(windows[w].rows) \in Nat /\ windows[w].end \in Nat \cup {NotSet}
  BY <1>2 DEF WindowType
<1>4. RowsOf(w) \in SUBSET (1..Len(capture))
  BY <1>1 DEF Typed, RowsOf
<1>5. RowsOf(w) # {} => windows[w].rows # <<>>
  BY DEF RowsOf
<1> QED
  BY <1>1, <1>2, <1>3, <1>4, <1>5 DEF NotSet

\* A window lies within Reach + 1 cells.
LEMMA WindowInCells ==
  ASSUME TimeInv, NEW w \in 1..Current, NEW p \in RowsOf(w), NEW q \in RowsOf(w)
  PROVE  Cell(q) - Cell(p) <= Reach
<1>1. /\ p \in 1..Len(capture) /\ q \in 1..Len(capture) /\ windows[w].end \in Nat
  BY RowsOfWindow
<1>2. capture[p].ts \in Nat /\ capture[q].ts \in Nat
  BY <1>1, CellOf
<1>3. /\ capture[q].ts < windows[w].end + grace
      /\ capture[p].ts >= windows[w].end - max_time_window
  BY DEF TimeInv, FullWidthInv, BoundInv, WindowsBounded
<1>4. PICK x \in Nat, y \in Nat, e \in Nat :
        x = capture[p].ts /\ y = capture[q].ts /\ e = windows[w].end
  BY <1>1, <1>2
<1>5. y < e + grace /\ x >= e - max_time_window
  BY <1>3, <1>4, Zenon
<1>6. y - x < max_time_window + grace
  BY <1>5, Widths
<1> QED
  BY <1>1, <1>4, <1>6, CellsApart

\* A cell lies within two windows, the cap aside.
LEMMA CellInWindows ==
  ASSUME TimeInv, NEW v \in 1..Current, NEW w \in 1..Current, v + 1 < w, ~CapClosed(v + 1),
         NEW p \in RowsOf(v), NEW q \in RowsOf(w)
  PROVE  Cell(p) # Cell(q)
<1> DEFINE x == v + 1
           W == max_time_window
<1>1. /\ p \in 1..Len(capture) /\ q \in 1..Len(capture) /\ Current \in Nat
      /\ windows[w].end \in Nat
  BY RowsOfWindow
<1>2. capture[p].ts \in Nat /\ capture[q].ts \in Nat
  BY <1>1, CellOf
<1>3. W \in Nat /\ W > 0 /\ grace \in Nat
  BY Widths
<1>4. /\ x \in 1..(Current - 1) /\ x \in 1..Current /\ x + 1 \in 1..Current /\ v < x
      /\ x < Current /\ (x + 1 < w \/ x + 1 = w)
  BY <1>1
<1>5. capture[p].ts <= windows[x].end - W
  BY <1>4 DEF TimeInv
<1>6. windows[x + 1].end >= windows[x].end + W
  BY <1>4 DEF TimeInv, FullWidthInv, NoEarlyClose, CapClosed
<1> HIDE DEF x
<1>7. windows[w].end >= windows[x + 1].end
  <2>1. CASE x + 1 < w
    BY <1>4, <2>1 DEF TimeInv
  <2>2. CASE x + 1 = w
    BY <1>1, <2>2
  <2> QED
    BY <1>4, <2>1, <2>2
<1>8. capture[q].ts >= windows[w].end - W
  BY DEF TimeInv, FullWidthInv, BoundInv, WindowsBounded
<1>9. windows[x].end \in Int /\ windows[x + 1].end \in Int
  BY <1>4, RowsOfWindow
<1>10. capture[q].ts - capture[p].ts >= W
  <2>1. PICK a \in Int, b \in Int, c \in Int :
          a = windows[x].end /\ b = windows[x + 1].end /\ c = windows[w].end
    BY <1>1, <1>9
  <2>2. PICK t \in Nat, u \in Nat : t = capture[p].ts /\ u = capture[q].ts
    BY <1>2
  <2>3. t <= a - W /\ b >= a + W /\ c >= b /\ u >= c - W
    BY <1>5, <1>6, <1>7, <1>8, <2>1, <2>2
  <2>4. u - t >= W
    BY <1>3, <2>3
  <2> QED
    BY <2>2, <2>4
<1> QED
  BY <1>1, <1>10, CellsApart

\* A set of naturals that is closed upwards from 0 has all of them.
LEMMA Upward ==
  ASSUME NEW S, 0 \in S, \A k \in Nat : k \in S => k + 1 \in S
  PROVE  Nat \subseteq S
<1> DEFINE T == {k \in Nat : k \notin S}
<1> SUFFICES ASSUME T # {} PROVE FALSE
  OBVIOUS
<1>1. PICK x \in T : \A y \in T : ~(<<y, x>> \in OpToRel(<, Nat))
  BY NatLessThanWellFounded, WFMin
<1>2. x \in Nat /\ x # 0
  OBVIOUS
<1>3. x - 1 \in Nat /\ x - 1 < x /\ (x - 1) + 1 = x
  BY <1>2
<1>4. x - 1 \notin T
  BY <1>1, <1>3 DEF OpToRel
<1> QED
  BY <1>3, <1>4

\* Any set of naturals but the empty one has a least.
LEMMA Least ==
  ASSUME NEW S \in SUBSET Nat, S # {}
  PROVE  \E x \in S : \A y \in S : x <= y
<1>1. PICK x \in S : \A y \in S : ~(<<y, x>> \in OpToRel(<, Nat))
  BY NatLessThanWellFounded, WFMin
<1>2. \A y \in S : ~(y < x)
  BY <1>1 DEF OpToRel
<1> QED
  BY <1>2

\* The SYNs among the places.
SYNsOf(places) == {p \in places : capture[p].kind = "syn"}

\* The SYNs of some rows are a finite set, whose size SYNs is.
LEMMA SYNsAre ==
  ASSUME TimeInv, NEW places \in SUBSET (1..Len(capture))
  PROVE  /\ IsFiniteSet(SYNsOf(places)) /\ SYNs(places) = Cardinality(SYNsOf(places))
         /\ SYNs(places) \in Nat
<1>1. Len(capture) \in Nat
  BY DEF TimeInv, FullWidthInv, BoundInv, Typed
<1>2. IsFiniteSet(1..Len(capture))
  BY <1>1, FS_Interval
<1>3. SYNsOf(places) \in SUBSET (1..Len(capture))
  BY DEF SYNsOf
<1>4. IsFiniteSet(SYNsOf(places))
  BY <1>2, <1>3, FS_Subset
<1>5. SYNs(places) = Cardinality(SYNsOf(places))
  BY DEF SYNs, SYNsOf
<1> QED
  BY <1>4, <1>5, FS_CardinalityType

\* A set covered by two has at most as many as both.
LEMMA AtMostBoth ==
  ASSUME NEW A, NEW B, NEW S, IsFiniteSet(A), IsFiniteSet(B), S \subseteq A \cup B
  PROVE  /\ IsFiniteSet(S) /\ Cardinality(S) \in Nat
         /\ Cardinality(A) \in Nat /\ Cardinality(B) \in Nat
         /\ Cardinality(S) <= Cardinality(A) + Cardinality(B)
<1>1. /\ IsFiniteSet(A \cup B)
      /\ Cardinality(A \cup B) = Cardinality(A) + Cardinality(B) - Cardinality(A \cap B)
  BY FS_Union
<1>2. IsFiniteSet(A \cap B)
  BY FS_Intersection
<1>3. /\ Cardinality(A) \in Nat /\ Cardinality(B) \in Nat /\ Cardinality(A \cap B) \in Nat
      /\ Cardinality(A \cup B) \in Nat
  BY <1>1, <1>2, FS_CardinalityType
<1>4. IsFiniteSet(S) /\ Cardinality(S) <= Cardinality(A \cup B)
  BY <1>1, FS_Subset
<1>5. Cardinality(S) \in Nat
  BY <1>4, FS_CardinalityType
<1>6. PICK a \in Nat, b \in Nat, c \in Nat, d \in Nat, e \in Nat :
        /\ a = Cardinality(A) /\ b = Cardinality(B) /\ c = Cardinality(A \cap B)
        /\ d = Cardinality(A \cup B) /\ e = Cardinality(S)
  BY <1>3, <1>5
<1>7. e <= a + b
  BY <1>1, <1>4, <1>6
<1> QED
  BY <1>3, <1>4, <1>5, <1>6, <1>7

\* Where a cell has k SYNs, one of the two windows it lies in has half of them.
LEMMA CellHasWindow ==
  ASSUME TimeInv, NothingLostOrMoved, \A w \in 1..Current : ~CapClosed(w),
         NEW k \in Nat, k > 0, RateFire(k)
  PROVE  \E w \in 1..Current : 2 * SYNs(RowsOf(w)) >= k
<1>1. PICK x \in 1..Len(capture) : SYNs(InCell(Cell(x))) >= k
  BY DEF RateFire, TimeInv, FullWidthInv, BoundInv, Typed
<1> DEFINE c == Cell(x)
           S == SYNsOf(InCell(c))
           In(w) == SYNsOf(RowsOf(w))
<1>2. InCell(c) \in SUBSET (1..Len(capture)) /\ \A p \in InCell(c) : Cell(p) = c
  BY DEF InCell, TimeInv, FullWidthInv, BoundInv, Typed
<1>3. IsFiniteSet(S) /\ Cardinality(S) \in Nat /\ Cardinality(S) >= k
  BY <1>1, <1>2, SYNsAre
<1>4. Current \in Nat /\ Current > 0
  BY DEF TimeInv, FullWidthInv, BoundInv, Typed, Current
<1>5. \A w \in 1..Current : /\ IsFiniteSet(In(w)) /\ Cardinality(In(w)) \in Nat
                            /\ SYNs(RowsOf(w)) = Cardinality(In(w))
  BY SYNsAre, RowsOfWindow
<1>6. \A p \in S : \E w \in 1..Current : p \in In(w)
  <2> SUFFICES ASSUME NEW p \in S PROVE \E w \in 1..Current : p \in In(w)
    OBVIOUS
  <2>1. p \in 1..Len(capture) /\ capture[p].kind = "syn"
    BY <1>2 DEF SYNsOf
  <2>2. \E w \in 1..Current : p \in RowsOf(w)
    BY <2>1 DEF NothingLostOrMoved
  <2> QED
    BY <2>1, <2>2 DEF SYNsOf
<1>7. \A p \in S : Cell(p) = c
  BY <1>2 DEF SYNsOf
<1>8. \A v, w \in 1..Current : \A p \in S, q \in S : p \in In(v) /\ q \in In(w) => ~(v + 1 < w)
  <2> SUFFICES ASSUME NEW v \in 1..Current, NEW w \in 1..Current, NEW p \in S, NEW q \in S,
                      p \in In(v), q \in In(w), v + 1 < w
               PROVE  FALSE
    OBVIOUS
  <2>1. p \in RowsOf(v) /\ q \in RowsOf(w) /\ Cell(p) = Cell(q)
    BY <1>7 DEF SYNsOf
  <2>2. ~CapClosed(v + 1)
    BY <1>4, v + 1 \in 1..Current
  <2> QED
    BY <2>1, <2>2, CellInWindows
<1>9. S # {}
  BY <1>3, FS_EmptySet
<1> HIDE DEF S, In, c
<1> DEFINE Held == {w \in 1..Current : \E p \in S : p \in In(w)}
<1>10. PICK a \in Held : \A w \in Held : a <= w
  <2>1. Held \in SUBSET Nat /\ Held # {}
    BY <1>6, <1>9
  <2> HIDE DEF Held
  <2> QED
    BY <2>1, Least
<1>11. a \in 1..Current /\ \A w \in Held : w = a \/ w = a + 1
  <2> SUFFICES ASSUME NEW w \in Held PROVE w = a \/ w = a + 1
    BY <1>10
  <2>1. ~(a + 1 < w) /\ a <= w /\ a \in 1..Current /\ w \in 1..Current
    BY <1>8, <1>10
  <2> QED
    BY <1>4, <2>1
<1>12. PICK n \in Nat : n = Cardinality(S) /\ n >= k
  BY <1>3
<1>13. CASE a + 1 \in 1..Current
  <2>1. S \subseteq In(a) \cup In(a + 1)
    BY <1>6, <1>11
  <2>2. Cardinality(S) <= Cardinality(In(a)) + Cardinality(In(a + 1))
    BY <1>5, <1>11, <1>13, <2>1, AtMostBoth
  <2>3. PICK y \in Nat, z \in Nat : y = SYNs(RowsOf(a)) /\ z = SYNs(RowsOf(a + 1))
    BY <1>5, <1>11, <1>13
  <2>4. n <= y + z
    BY <1>5, <1>11, <1>12, <1>13, <2>2, <2>3
  <2>5. 2 * y >= k \/ 2 * z >= k
    BY <1>12, <2>4
  <2> QED
    BY <1>11, <1>13, <2>3, <2>5
<1>14. CASE a + 1 \notin 1..Current
  <2>1. S \subseteq In(a)
    BY <1>6, <1>11, <1>14
  <2>2. Cardinality(S) <= Cardinality(In(a))
    BY <1>5, <1>11, <2>1, FS_Subset
  <2>3. PICK y \in Nat : y = SYNs(RowsOf(a))
    BY <1>5, <1>11
  <2>4. 2 * y >= k
    BY <1>5, <1>11, <1>12, <2>2, <2>3
  <2> QED
    BY <1>11, <2>3, <2>4
<1> QED
  BY <1>13, <1>14

\* Rows of cells from low on, fewer than m in each.
Sparse(S, low, m) ==
  \A p \in S : Cell(p) >= low /\ Cardinality({q \in S : Cell(q) = Cell(p)}) < m

\* If no cell has m of them, any number of cells has at most m - 1 each.
LEMMA Pigeonholes ==
  ASSUME TimeInv, NEW S \in SUBSET (1..Len(capture)), NEW m \in Nat, m > 0, NEW low \in Nat,
         Sparse(S, low, m), NEW j \in Nat
  PROVE  Cardinality({p \in S : Cell(p) < low + j}) <= j * (m - 1)
<1> USE DEF Sparse
<1> DEFINE F(i) == {p \in S : Cell(p) < low + i}
           G(i) == {p \in S : Cell(p) = low + i}
           T == {i \in Nat : Cardinality(F(i)) <= i * (m - 1)}
<1>1. IsFiniteSet(S) /\ \A p \in S : Cell(p) \in Nat
  <2>1. Len(capture) \in Nat
    BY DEF TimeInv, FullWidthInv, BoundInv, Typed
  <2>2. IsFiniteSet(1..Len(capture))
    BY <2>1, FS_Interval
  <2> QED
    BY <2>2, FS_Subset, CellOf
<1>2. \A i \in Nat : /\ IsFiniteSet(F(i)) /\ Cardinality(F(i)) \in Nat
                     /\ IsFiniteSet(G(i)) /\ Cardinality(G(i)) \in Nat
  <2> SUFFICES ASSUME NEW i \in Nat
               PROVE  /\ IsFiniteSet(F(i)) /\ Cardinality(F(i)) \in Nat
                      /\ IsFiniteSet(G(i)) /\ Cardinality(G(i)) \in Nat
    OBVIOUS
  <2>1. F(i) \in SUBSET S /\ G(i) \in SUBSET S
    OBVIOUS
  <2> HIDE DEF F, G
  <2> QED
    BY <1>1, <2>1, FS_Subset, FS_CardinalityType
<1>3. \A i \in Nat : Cardinality(G(i)) <= m - 1
  <2> SUFFICES ASSUME NEW i \in Nat PROVE Cardinality(G(i)) <= m - 1
    OBVIOUS
  <2>1. CASE G(i) = {}
    <3>1. Cardinality(G(i)) = 0
      BY <2>1, FS_EmptySet
    <3> QED
      BY <3>1
  <2>2. CASE G(i) # {}
    <3>1. PICK p \in S : Cell(p) = low + i
      BY <2>2
    <3>2. G(i) = {q \in S : Cell(q) = Cell(p)}
      BY <3>1
    <3>3. Cardinality(G(i)) < m
      BY <3>2
    <3> HIDE DEF G
    <3>4. PICK g \in Nat : g = Cardinality(G(i))
      BY <1>2
    <3> QED
      BY <3>3, <3>4
  <2> QED
    BY <2>1, <2>2
<1>4. 0 \in T
  <2>1. F(0) = {}
    <3> SUFFICES ASSUME NEW p \in S, Cell(p) < low + 0 PROVE FALSE
      OBVIOUS
    <3>1. Cell(p) \in Nat /\ Cell(p) >= low
      BY <1>1
    <3> QED
      BY <3>1
  <2>2. Cardinality(F(0)) = 0
    BY <2>1, FS_EmptySet
  <2>3. 0 * (m - 1) = 0
    OBVIOUS
  <2> HIDE DEF F
  <2> QED
    BY <2>2, <2>3
<1>5. ASSUME NEW i \in Nat, i \in T PROVE i + 1 \in T
  <2>1. F(i + 1) \subseteq F(i) \cup G(i)
    <3> SUFFICES ASSUME NEW p \in S, Cell(p) < low + (i + 1)
                 PROVE  Cell(p) < low + i \/ Cell(p) = low + i
      OBVIOUS
    <3>1. Cell(p) \in Nat
      BY <1>1
    <3> QED
      BY <3>1
  <2> HIDE DEF F, G
  <2>2. Cardinality(F(i + 1)) <= Cardinality(F(i)) + Cardinality(G(i))
    BY <1>2, <2>1, AtMostBoth
  <2>3. PICK x \in Nat, y \in Nat, z \in Nat, n \in Nat :
          /\ x = Cardinality(F(i)) /\ y = Cardinality(G(i)) /\ z = Cardinality(F(i + 1))
          /\ n = i * (m - 1)
    BY <1>2, i + 1 \in Nat, m - 1 \in Nat, i * (m - 1) \in Nat
  <2>4. x <= n /\ y <= m - 1 /\ z <= x + y
    BY <1>3, <1>5, <2>2, <2>3
  <2>5. (i + 1) * (m - 1) = n + (m - 1)
    BY <2>3
  <2>6. z <= (i + 1) * (m - 1)
    BY <2>4, <2>5
  <2> QED
    BY <2>3, <2>6
<1> HIDE DEF T
<1>6. j \in T
  BY <1>4, <1>5, Upward
<1> QED
  BY <1>6 DEF T

\* What a window has, some cell has a 1 / (Reach + 1)th of.
LEMMA WindowHasCell ==
  ASSUME TimeInv, NEW w \in 1..Current, SYNs(RowsOf(w)) > 0
  PROVE  RateFire((SYNs(RowsOf(w)) + Reach) \div (Reach + 1))
<1> DEFINE S == SYNsOf(RowsOf(w))
           R == Reach + 1
<1>1. RowsOf(w) \in SUBSET (1..Len(capture)) /\ S \in SUBSET RowsOf(w)
  BY RowsOfWindow DEF SYNsOf
<1>2. PICK n \in Nat : n = SYNs(RowsOf(w)) /\ n > 0 /\ n = Cardinality(S)
  BY <1>1, SYNsAre
<1>3. R \in Nat /\ R > 0 /\ R = Reach + 1 /\ Reach \in Nat
  BY Widths
<1> HIDE DEF R
<1>4. PICK b \in Nat : b = n + Reach
  BY <1>3
<1>5. PICK m \in Nat, s \in 0..(R - 1) : m = b \div R /\ b = R * m + s
  BY <1>3
<1>6. m > 0
  <2> SUFFICES ASSUME m = 0 PROVE FALSE
    OBVIOUS
  <2>1. R * m = 0
    BY <1>3
  <2> QED
    BY <1>2, <1>3, <1>4, <1>5, <2>1
<1>7. m = (SYNs(RowsOf(w)) + Reach) \div (Reach + 1)
  BY <1>2, <1>3, <1>4, <1>5, Zenon
<1> SUFFICES ASSUME ~RateFire(m) PROVE FALSE
  BY <1>7
<1>8. \A p \in S : p \in 1..Len(capture) /\ Cell(p) \in Nat
  BY <1>1, CellOf
<1>9. S # {}
  BY <1>2, FS_EmptySet
<1>10. PICK low \in Nat : /\ \A p \in S : Cell(p) >= low
                          /\ \E p \in S : Cell(p) = low
  <2> DEFINE C == {Cell(p) : p \in S}
  <2>1. C \in SUBSET Nat /\ C # {}
    BY <1>8, <1>9
  <2>2. \E x \in C : \A y \in C : x <= y
    <3> HIDE DEF C
    <3> QED
      BY <2>1, Least
  <2> QED
    BY <1>8, <2>2
<1>11. \A p \in S : Cell(p) < low + R
  <2> SUFFICES ASSUME NEW p \in S PROVE Cell(p) < low + R
    OBVIOUS
  <2>1. PICK q \in S : Cell(q) = low
    BY <1>10
  <2>2. Cell(p) - Cell(q) <= Reach
    BY <1>1, WindowInCells
  <2>3. Cell(p) \in Nat
    BY <1>8
  <2> QED
    BY <1>3, <2>1, <2>2, <2>3
<1>12. \A p \in S : Cardinality({q \in S : Cell(q) = Cell(p)}) < m
  <2> SUFFICES ASSUME NEW p \in S PROVE Cardinality({q \in S : Cell(q) = Cell(p)}) < m
    OBVIOUS
  <2> DEFINE A == {q \in S : Cell(q) = Cell(p)}
             B == InCell(Cell(p))
  <2>1. p \in DOMAIN capture /\ DOMAIN capture = 1..Len(capture)
    BY <1>8 DEF TimeInv, FullWidthInv, BoundInv, Typed
  <2>2. ~(SYNs(B) >= m)
    BY <2>1 DEF RateFire
  <2>3. A \subseteq SYNsOf(B)
    BY <1>8, <2>1 DEF SYNsOf, InCell
  <2>4. B \in SUBSET (1..Len(capture))
    BY <2>1 DEF InCell
  <2> HIDE DEF A, B
  <2>5. IsFiniteSet(SYNsOf(B)) /\ SYNs(B) = Cardinality(SYNsOf(B)) /\ SYNs(B) \in Nat
    BY <2>4, SYNsAre
  <2>6. Cardinality(A) <= Cardinality(SYNsOf(B)) /\ Cardinality(A) \in Nat
    BY <2>3, <2>5, FS_Subset, FS_CardinalityType
  <2>7. Cardinality(A) < m
    BY <2>2, <2>5, <2>6
  <2> QED
    BY <2>7 DEF A
<1> HIDE DEF S
<1>13. Cardinality({p \in S : Cell(p) < low + R}) <= R * (m - 1)
  <2>1. Sparse(S, low, m)
    BY <1>10, <1>12 DEF Sparse
  <2>2. S \in SUBSET (1..Len(capture)) /\ R \in Nat /\ m \in Nat /\ m > 0 /\ low \in Nat
    BY <1>1, <1>3, <1>6
  <2> QED
    BY <2>1, <2>2, Pigeonholes, Zenon
<1>14. {p \in S : Cell(p) < low + R} = S
  BY <1>11
<1>15. PICK k \in Nat : m = k + 1
  BY <1>6, m - 1 \in Nat, m = (m - 1) + 1
<1>16. R * m = R * k + R /\ R * (m - 1) = R * k
  BY <1>3, <1>15
<1>17. PICK x \in Nat : x = R * k
  BY <1>3
<1>18. n <= x /\ b = x + R + s
  BY <1>2, <1>3, <1>5, <1>13, <1>14, <1>16, <1>17
<1> QED
  BY <1>3, <1>4, <1>18

\* The drift between grid and windows is bounded wherever time only goes on and
\* nothing was lost.
LEMMA NearWindows == TimeInv /\ NothingLostOrMoved => OracleNearWindows
<1> SUFFICES ASSUME TimeInv, NothingLostOrMoved PROVE OracleNearWindows
  OBVIOUS
<1>1. \A w \in 1..Current : \A p, q \in RowsOf(w) : Cell(q) - Cell(p) <= Reach
  BY WindowInCells
<1>2. \A v, w \in 1..Current : \A p \in RowsOf(v), q \in RowsOf(w) :
        v + 1 < w /\ Cell(p) = Cell(q) => \E u \in v .. w : CapClosed(u)
  <2> SUFFICES ASSUME NEW v \in 1..Current, NEW w \in 1..Current,
                      NEW p \in RowsOf(v), NEW q \in RowsOf(w), v + 1 < w, Cell(p) = Cell(q)
               PROVE  \E u \in v .. w : CapClosed(u)
    OBVIOUS
  <2>1. CapClosed(v + 1)
    BY CellInWindows
  <2> QED
    BY <2>1
<1>3. ASSUME \A w \in 1..Current : ~CapClosed(w)
      PROVE  /\ \A k \in 1 .. Len(capture) :
                  RateFire(k) => \E w \in 1..Current : 2 * SYNs(RowsOf(w)) >= k
             /\ \A w \in 1..Current :
                  SYNs(RowsOf(w)) > 0 =>
                    RateFire((SYNs(RowsOf(w)) + Reach) \div (Reach + 1))
  <2>1. \A k \in 1..Len(capture) : k \in Nat /\ k > 0
    BY DEF TimeInv, FullWidthInv, BoundInv, Typed
  <2> QED
    BY <1>3, <2>1, CellHasWindow, WindowHasCell
<1> QED
  BY <1>1, <1>2, <1>3 DEF OracleNearWindows

\* For every width, grace, cap and capture: a window of the detector lies within
\* Reach + 1 cells of the oracle's grid and a cell within two windows, and so, the cap
\* aside, where one of them counts a rate the other counts a fixed share of it.
THEOREM OracleIsNear == Spec => []OracleNearWindows
<1>1. Init => TimeInv /\ OrderInv
  BY TimeInit, OrderInit
<1>2. TimeInv /\ OrderInv /\ [Next]_vars => (TimeInv /\ OrderInv)'
  BY TimeNext, OrderNext
<1>3. TimeInv /\ OrderInv => OracleNearWindows
  BY NearWindows DEF OrderInv
<1> QED
  BY <1>1, <1>2, <1>3, PTL DEF Spec
=============================================================================
