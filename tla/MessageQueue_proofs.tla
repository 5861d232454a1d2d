------------------------- MODULE MessageQueue_proofs -------------------------
(***************************************************************************)
(* Proofs about MessageQueue.  The ring is looked at from the read         *)
(* position on: cell 0 of the view is the next to be read, the messages    *)
(* claimed follow one another from there, and behind them all is clear.    *)
(***************************************************************************)
EXTENDS MessageQueue, SequenceTheorems, TLAPS

-----------------------------------------------------------------------------
(* Remainders.                                                             *)

\* a is q times n and r more.
Divided(a, n, q, r) ==
  n \in Nat \ {0} /\ a \in Int /\ q \in Int /\ r \in 0 .. n - 1 /\ a = q * n + r

LEMMA RemainderIs ==
  ASSUME NEW n, NEW a, NEW q, NEW r, Divided(a, n, q, r)
  PROVE  a % n = r
<1>0. n \in Nat \ {0} /\ a \in Int /\ q \in Int /\ r \in 0 .. n - 1 /\ a = q * n + r
  BY DEF Divided
<1>1. PICK d \in Int : d = a \div n
  BY <1>0
<1>2. PICK x \in 0 .. n - 1 : x = a % n
  BY <1>0
<1>3. a = d * n + x
  BY <1>0, <1>1, <1>2
<1>4. PICK e \in Int : e = d - q
  BY <1>0
<1>5. e * n = r - x
  BY <1>0, <1>3, <1>4
<1>6. CASE e >= 1
  <2>1. e * n >= n
    BY <1>0, <1>6
  <2> QED
    BY <1>0, <1>5, <2>1
<1>7. CASE e <= -1
  <2>1. e * n <= -n
    BY <1>0, <1>7
  <2> QED
    BY <1>0, <1>5, <2>1
<1>8. CASE e = 0
  BY <1>0, <1>2, <1>5, <1>8
<1> QED
  BY <1>6, <1>7, <1>8

\* Positions that wrap at most once.
LEMMA WrappedIs ==
  ASSUME NEW a \in Int, -Wrap <= a, a < 2 * Wrap
  PROVE  a % Wrap = IF a < 0 THEN a + Wrap ELSE IF a < Wrap THEN a ELSE a - Wrap
<1>1. Wrap \in Nat \ {0}
  BY MessageQueueAssumption
<1>2. CASE a < 0
  <2>1. Divided(a, Wrap, -1, a + Wrap)
    BY <1>1, <1>2 DEF Divided
  <2> QED
    BY <1>2, <2>1, RemainderIs
<1>3. CASE 0 <= a /\ a < Wrap
  <2>1. Divided(a, Wrap, 0, a)
    BY <1>1, <1>3 DEF Divided
  <2> QED
    BY <1>3, <2>1, RemainderIs
<1>4. CASE Wrap <= a
  <2>1. Divided(a, Wrap, 1, a - Wrap)
    BY <1>1, <1>4 DEF Divided
  <2> QED
    BY <1>1, <1>4, <2>1, RemainderIs
<1> QED
  BY <1>1, <1>2, <1>3, <1>4

\* The cell o cells behind cell s.
Slot(s, o) == IF s + o < Size THEN s + o ELSE s + o - Size

LEMMA SlotIs ==
  ASSUME NEW p \in Nat, NEW o \in 0 .. Size
  PROVE  /\ p % Size \in 0 .. Size - 1
         /\ (p + o) % Size = Slot(p % Size, o)
<1>1. Size \in Nat \ {0}
  BY MessageQueueAssumption
<1>2. PICK q \in Int : q = p \div Size
  BY <1>1
<1>3. PICK r \in 0 .. Size - 1 : r = p % Size
  BY <1>1
<1>4. p = q * Size + r
  BY <1>1, <1>2, <1>3
<1>5. CASE r + o < Size
  <2>1. Divided(p + o, Size, q, r + o)
    BY <1>1, <1>4, <1>5 DEF Divided
  <2>2. (p + o) % Size = r + o
    BY <2>1, RemainderIs
  <2> QED
    BY <1>3, <1>5, <2>2 DEF Slot
<1>6. CASE ~(r + o < Size)
  <2>1. Divided(p + o, Size, q + 1, r + o - Size)
    BY <1>1, <1>4, <1>6 DEF Divided
  <2>2. (p + o) % Size = r + o - Size
    BY <2>1, RemainderIs
  <2> QED
    BY <1>3, <1>6, <2>2 DEF Slot
<1> QED
  BY <1>5, <1>6

\* A position keeps its cell where it wraps.
LEMMA SlotOfWrapped ==
  ASSUME NEW p \in 0 .. Wrap - 1, NEW o \in 0 .. Size
  PROVE  /\ (p + o) % Wrap \in 0 .. Wrap - 1
         /\ ((p + o) % Wrap) % Size = Slot(p % Size, o)
<1>1. Size \in Nat \ {0} /\ Wrap \in Nat \ {0} /\ Size <= Wrap /\ p \in Nat
  BY MessageQueueAssumption
<1>2. (p + o) % Wrap = IF p + o < Wrap THEN p + o ELSE p + o - Wrap
  BY <1>1, WrappedIs
<1>3. (p + o) % Size = Slot(p % Size, o)
  BY <1>1, SlotIs
<1>4. CASE p + o < Wrap
  BY <1>1, <1>2, <1>3, <1>4
<1>5. CASE ~(p + o < Wrap)
  <2>1. PICK c \in Int : c = Wrap \div Size
    BY <1>1
  <2>2. Wrap = c * Size
    BY <1>1, <2>1, MaskAssumption
  <2>3. PICK q \in Int, r \in 0 .. Size - 1 : r = (p + o) % Size /\ q = (p + o) \div Size
    BY <1>1
  <2>4. p + o = q * Size + r
    BY <1>1, <2>3
  <2>5. Divided(p + o - Wrap, Size, q - c, r)
    BY <1>1, <2>2, <2>4 DEF Divided
  <2>6. (p + o - Wrap) % Size = r
    BY <2>5, RemainderIs
  <2>7. (p + o) % Wrap = p + o - Wrap /\ p + o - Wrap \in 0 .. Wrap - 1
    BY <1>1, <1>2, <1>5
  <2> QED
    BY <1>3, <2>3, <2>6, <2>7
<1> QED
  BY <1>4, <1>5
-----------------------------------------------------------------------------
(* The view.                                                               *)

LEMMA Sizes == /\ Size \in Nat \ {0} /\ Wrap \in Nat \ {0} /\ 4 * Size <= Wrap
               /\ \A n \in Payloads : n \in Nat
  BY MessageQueueAssumption

LEMMA SlotIn ==
  ASSUME NEW s \in 0 .. Size - 1, NEW o \in 0 .. Size - 1
  PROVE  Slot(s, o) \in 0 .. Size - 1
BY Sizes DEF Slot

LEMMA SlotsApart ==
  ASSUME NEW s \in 0 .. Size - 1, NEW o \in 0 .. Size - 1, NEW u \in 0 .. Size - 1
  PROVE  Slot(s, o) = Slot(s, u) <=> o = u
BY Sizes DEF Slot

LEMMA SlotsAll ==
  ASSUME NEW s \in 0 .. Size - 1, NEW c \in 0 .. Size - 1
  PROVE  \E o \in 0 .. Size - 1 : Slot(s, o) = c
<1>1. CASE c >= s
  <2>1. c - s \in 0 .. Size - 1 /\ Slot(s, c - s) = c
    BY Sizes, <1>1 DEF Slot
  <2> QED
    BY <2>1
<1>2. CASE c < s
  <2>1. c - s + Size \in 0 .. Size - 1 /\ Slot(s, c - s + Size) = c
    BY Sizes, <1>2 DEF Slot
  <2> QED
    BY <2>1
<1> QED
  BY Sizes, <1>1, <1>2

LEMMA SlotOfSlot ==
  ASSUME NEW s \in 0 .. Size - 1, NEW a \in 0 .. Size - 1, NEW k \in Nat, a + k < Size
  PROVE  Slot(Slot(s, a), k) = Slot(s, a + k)
BY Sizes DEF Slot

\* The cells of a message that begins a cells behind the read position.
LEMMA CellIs ==
  ASSUME NEW R \in 0 .. Wrap - 1, NEW a \in 0 .. Size - 1, NEW k \in Nat, a + k < Size
  PROVE  Cell((R + a) % Wrap, k) = Slot(R % Size, a + k)
<1>1. PICK p : p = (R + a) % Wrap
  OBVIOUS
<1>2. PICK s : s = R % Size
  OBVIOUS
<1>3. R \in Nat /\ a \in 0 .. Size /\ k \in 0 .. Size
  BY Sizes
<1>4. p \in 0 .. Wrap - 1 /\ p % Size = Slot(s, a)
  BY <1>1, <1>2, <1>3, SlotOfWrapped
<1>5. s \in 0 .. Size - 1
  BY <1>2, <1>3, SlotIs
<1>6. PICK b \in 0 .. Size - 1 : b = Slot(s, a)
  BY <1>5, SlotIn
<1>7. Masked(p) = b
  BY <1>4, <1>6, MaskAssumption
<1>8. b % Size = b
  <2>1. Divided(b, Size, 0, b)
    BY Sizes DEF Divided
  <2> QED
    BY <2>1, RemainderIs
<1>9. (b + k) % Size = Slot(b % Size, k)
  BY <1>3, SlotIs
<1>10. Cell(p, k) = (b + k) % Size
  BY <1>7 DEF Cell
<1> QED
  BY <1>1, <1>2, <1>5, <1>6, <1>8, <1>9, <1>10, SlotOfSlot

LEMMA CellFromRead ==
  ASSUME NEW R \in 0 .. Wrap - 1, NEW k \in 0 .. Size - 1
  PROVE  Cell(R, k) = Slot(R % Size, k)
<1>1. 0 \in 0 .. Size - 1 /\ k \in Nat /\ 0 + k < Size /\ R \in Int /\ R + 0 = R /\ 0 + k = k
  BY Sizes
<1>2. Cell((R + 0) % Wrap, k) = Slot(R % Size, 0 + k)
  BY <1>1, CellIs
<1>3. (R + 0) % Wrap = R
  BY <1>1, Sizes, WrappedIs
<1> QED
  BY <1>1, <1>2, <1>3

\* The cells of a message at position w are those from a on behind cell s.
LiesAt(w, s, a, n) == \A k \in 0 .. n + 1 : Cell(w, k) = Slot(s, a + k)

\* What a write of the size and the payload does to the view.
Fills(e, d, w, n, x, y) ==
  e = [c \in DOMAIN d |-> IF c = Cell(w, 1) THEN x
                          ELSE IF \E k \in 2 .. n + 1 : c = Cell(w, k) THEN y ELSE d[c]]

\* The cell o behind s of a memory e that was d, written from a on.
FilledAt(e, d, s, a, n, x, y, o) ==
  e[Slot(s, o)] = IF o = a + 1 THEN x
                  ELSE IF o \in a + 2 .. a + n + 1 THEN y ELSE d[Slot(s, o)]

LEMMA FilledView ==
  ASSUME NEW d \in [0 .. Size - 1 -> Nat], NEW s \in 0 .. Size - 1,
         NEW a \in Nat, NEW n \in Nat, a + n + 2 <= Size, NEW x, NEW y, NEW w,
         LiesAt(w, s, a, n),
         NEW e, Fills(e, d, w, n, x, y),
         NEW o \in 0 .. Size - 1
  PROVE  FilledAt(e, d, s, a, n, x, y, o)
<1>1. PICK c : c = Slot(s, o)
  OBVIOUS
<1>2. c \in DOMAIN d
  BY <1>1, SlotIn
<1>3. 1 \in 0 .. n + 1 /\ a + 1 \in 0 .. Size - 1
  BY Sizes
<1>4. c = Cell(w, 1) <=> o = a + 1
  <2>1. Cell(w, 1) = Slot(s, a + 1)
    BY <1>3 DEF LiesAt
  <2> QED
    BY <1>1, <1>3, <2>1, SlotsApart
<1>5. (\E k \in 2 .. n + 1 : c = Cell(w, k)) <=> o \in a + 2 .. a + n + 1
  <2>1. ASSUME NEW k \in 2 .. n + 1 PROVE c = Cell(w, k) <=> o = a + k
    <3>1. k \in 0 .. n + 1 /\ a + k \in 0 .. Size - 1
      BY Sizes
    <3>2. Cell(w, k) = Slot(s, a + k)
      BY <3>1 DEF LiesAt
    <3> QED
      BY <1>1, <3>1, <3>2, SlotsApart
  <2>2. (\E k \in 2 .. n + 1 : c = Cell(w, k)) <=> \E k \in 2 .. n + 1 : o = a + k
    BY <2>1, Zenon
  <2>3. (\E k \in 2 .. n + 1 : o = a + k) <=> o \in a + 2 .. a + n + 1
    <3>1. ASSUME o \in a + 2 .. a + n + 1 PROVE \E k \in 2 .. n + 1 : o = a + k
      <4>1. o - a \in 2 .. n + 1 /\ o = a + (o - a)
        BY <3>1
      <4> QED
        BY <4>1
    <3> QED
      BY <3>1
  <2> QED
    BY <2>2, <2>3, Zenon
<1>6. e[c] = IF c = Cell(w, 1) THEN x
             ELSE IF \E k \in 2 .. n + 1 : c = Cell(w, k) THEN y ELSE d[c]
  BY <1>2, Zenon DEF Fills
<1> QED
  BY <1>1, <1>4, <1>5, <1>6, Zenon DEF FilledAt

\* The view after the first cells are cleared.
Clears(e, d, R, m) ==
  e = [c \in DOMAIN d |-> IF c \in Cells(R, m) THEN NotReady ELSE d[c]]

ClearedAt(e, d, s, m, o) == e[Slot(s, o)] = IF o < m THEN NotReady ELSE d[Slot(s, o)]

LEMMA ClearedView ==
  ASSUME NEW d \in [0 .. Size - 1 -> Nat], NEW R \in 0 .. Wrap - 1, NEW m \in 1 .. Size,
         NEW e, Clears(e, d, R, m),
         NEW o \in 0 .. Size - 1
  PROVE  ClearedAt(e, d, R % Size, m, o)
<1>1. PICK s : s = R % Size
  OBVIOUS
<1>2. s \in 0 .. Size - 1
  <2>1. R \in Nat /\ 0 \in 0 .. Size
    BY Sizes
  <2> QED
    BY <1>1, <2>1, SlotIs
<1>3. PICK c : c = Slot(s, o)
  OBVIOUS
<1>4. c \in DOMAIN d
  BY <1>2, <1>3, SlotIn
<1>5. c \in Cells(R, m) <=> o < m
  <2>1. ASSUME NEW k \in 0 .. m - 1 PROVE Cell(R, k) = c <=> k = o
    <3>1. k \in 0 .. Size - 1
      BY Sizes
    <3>2. Cell(R, k) = Slot(s, k)
      BY <1>1, <3>1, CellFromRead
    <3> QED
      BY <1>2, <1>3, <3>1, <3>2, SlotsApart
  <2>2. c \in Cells(R, m) <=> \E k \in 0 .. m - 1 : Cell(R, k) = c
    BY DEF Cells
  <2>3. c \in Cells(R, m) <=> \E k \in 0 .. m - 1 : k = o
    BY <2>1, <2>2, Zenon
  <2>4. (\E k \in 0 .. m - 1 : k = o) <=> o < m
    BY Sizes
  <2> QED
    BY <2>3, <2>4, Zenon
<1>6. e[c] = IF c \in Cells(R, m) THEN NotReady ELSE d[c]
  BY <1>4, Zenon DEF Clears
<1> QED
  BY <1>1, <1>3, <1>5, <1>6, Zenon DEF ClearedAt
-----------------------------------------------------------------------------
(* The inductive invariant.                                                *)

\* The cells from position R to position W.
Span(R, W) == (W - R) % Wrap

\* The position a cells behind R.
Behind(R, a) == (R + a) % Wrap

\* The cells from the read position on, of memory d and the cell s it is at.
ViewOf(d, s) == [o \in 0 .. Size - 1 |-> d[Slot(s, o)]]

Sent == [thread : Threads, n : Payloads]

Positions == 0 .. Wrap - 1

Writers == {Idle} \cup [at : {"asking", "claiming", "claimed", "filled"}, n : Payloads,
                        r : Positions, w : Positions]

RingType(d, R, W, wr, rd, pd) ==
  /\ d \in [0 .. Size - 1 -> Nat]
  /\ R \in Positions /\ W \in Positions
  /\ wr \in [Threads -> Writers]
  /\ rd.at \in {"idle", "reading", "cleared"} /\ rd.n \in Nat
  /\ pd \in Seq(Sent)

\* Where the messages begin: one behind the other, and the last ends where
\* what is claimed ends.
Layout(pos, pd, held) ==
  /\ pos \in [1 .. Len(pd) + 1 -> Nat] /\ pos[1] = 0 /\ pos[Len(pd) + 1] = held
  /\ \A i \in 1 .. Len(pd) : pos[i + 1] = pos[i] + Message(pd[i].n)
  /\ \A i, j \in 1 .. Len(pd) + 1 : i < j => pos[i] + Message(pd[i].n) <= pos[j]

\* The size and the payload of m are in the message at a of the view v.
Body(v, a, m) == v[a + 1] = m.n /\ \A k \in a + 2 .. a + m.n + 1 : v[k] = m.thread

\* The message is there to be read.
Whole(v, a, m) == v[a] = Ready /\ Body(v, a, m)

\* The message is not ready, and its thread, at x, is about to write it.
Coming(v, a, m, x, R) ==
  /\ v[a] = NotReady
  /\ x.at \in {"claimed", "filled"} /\ x.n = m.n /\ x.w = Behind(R, a)
  /\ x.at = "filled" => Body(v, a, m)

\* The first n + 2 cells are clear.
ClearTo(v, n) == \A o \in 0 .. n + 1 : v[o] = NotReady

\* The first message, once its memory is cleared, is neither.
Gone(i, rd) == i = 1 /\ rd.at = "cleared"

Each(pos, v, pd, wr, rd, R) ==
  \A i \in 1 .. Len(pd) : ~Gone(i, rd) => \/ Whole(v, pos[i], pd[i])
                                         \/ Coming(v, pos[i], pd[i], wr[pd[i].thread], R)

Reads(v, pd, rd) ==
  /\ rd.at = "reading" => /\ Len(pd) >= 1 /\ Whole(v, 0, pd[1]) /\ rd.n = pd[1].n
                          /\ rd.n > 0 => rd.thread = pd[1].thread
  /\ rd.at = "cleared" => Len(pd) >= 1 /\ rd.n = pd[1].n /\ ClearTo(v, rd.n)

Owned(pos, v, pd, wr, rd, R) ==
  \A t \in Threads : wr[t].at \in {"claimed", "filled"} =>
    \E i \in 1 .. Len(pd) : /\ pd[i].thread = t /\ ~Gone(i, rd)
                           /\ Coming(v, pos[i], pd[i], wr[t], R)

\* The messages in the view.
Placed(pos, v, pd, wr, rd, R) ==
  /\ Each(pos, v, pd, wr, rd, R)
  /\ Reads(v, pd, rd)
  /\ Owned(pos, v, pd, wr, rd, R)

\* A thread that asks for room knows a read position not later than the real
\* one, and one that is to claim found room before the position it read.
Asks(wr, R, W) ==
  \A t \in Threads :
    /\ wr[t].at \in {"asking", "claiming"} => Span(wr[t].r, W) >= Span(R, W)
    /\ wr[t].at = "claiming" => Span(wr[t].r, wr[t].w) <= Size - Message(wr[t].n)

\* What is not claimed is clear.
ClearFrom(v, held) == \A o \in held .. Size - 1 : v[o] = NotReady

Laid(v, pd, wr, rd, R, held) ==
  \E pos : Layout(pos, pd, held) /\ Placed(pos, v, pd, wr, rd, R)

Ring(d, R, W, wr, rd, pd) ==
  /\ RingType(d, R, W, wr, rd, pd)
  /\ Span(R, W) <= Size
  /\ ClearFrom(ViewOf(d, R % Size), Span(R, W))
  /\ Asks(wr, R, W)
  /\ Laid(ViewOf(d, R % Size), pd, wr, rd, R, Span(R, W))

QueueInv == Ring(data, readPos, writePos, writer, reader, pending)
-----------------------------------------------------------------------------
(* Distances between positions.                                            *)

LEMMA SpanIn ==
  ASSUME NEW R \in Positions, NEW W \in Positions
  PROVE  /\ Span(R, W) \in Positions
         /\ Span(R, W) = 0 <=> W = R
         /\ Behind(R, Span(R, W)) = W
<1>0. R \in Int /\ W \in Int /\ 0 <= R /\ R < Wrap /\ 0 <= W /\ W < Wrap
  BY Sizes DEF Positions
<1>1. Span(R, W) = IF W - R < 0 THEN W - R + Wrap ELSE W - R
  <2>1. W - R \in Int /\ -Wrap <= W - R /\ W - R < Wrap /\ W - R < 2 * Wrap
    BY <1>0, Sizes
  <2>2. (W - R) % Wrap = IF W - R < 0 THEN W - R + Wrap ELSE W - R
    BY <2>1, WrappedIs
  <2> QED
    BY <2>2 DEF Span
<1>2. PICK s : s = Span(R, W)
  OBVIOUS
<1>3. s = IF W - R < 0 THEN W - R + Wrap ELSE W - R
  BY <1>1, <1>2
<1>4. s \in 0 .. Wrap - 1 /\ (s = 0 <=> W = R)
  BY <1>0, <1>3, Sizes
<1>5. PICK x \in Int : x = R + s
  BY <1>0, <1>4, Sizes
<1>6. -Wrap <= x /\ x < 2 * Wrap
  BY <1>0, <1>4, <1>5, Sizes
<1>8. x % Wrap = IF x < 0 THEN x + Wrap ELSE IF x < Wrap THEN x ELSE x - Wrap
  BY <1>6, WrappedIs
<1>9. (IF x < 0 THEN x + Wrap ELSE IF x < Wrap THEN x ELSE x - Wrap) = W
  BY <1>0, <1>3, <1>4, <1>5, Sizes
<1>7. (R + s) % Wrap = W
  BY <1>5, <1>8, <1>9
<1> QED
  BY <1>2, <1>4, <1>7 DEF Behind, Positions

LEMMA BehindIn ==
  ASSUME NEW R \in Positions, NEW a \in 0 .. Wrap - 1
  PROVE  /\ Behind(R, a) \in Positions
         /\ Behind(R, a) = IF R + a < Wrap THEN R + a ELSE R + a - Wrap
<1>1. PICK x \in Int : x = R + a
  BY Sizes DEF Positions
<1>2. -Wrap <= x /\ x < 2 * Wrap /\ ~(x < 0)
  BY <1>1, Sizes DEF Positions
<1>3. x % Wrap = IF x < Wrap THEN x ELSE x - Wrap
  BY <1>2, WrappedIs
<1>4. Behind(R, a) = x % Wrap
  BY <1>1 DEF Behind
<1> QED
  BY <1>1, <1>2, <1>3, <1>4, Sizes DEF Positions

LEMMA SpanIs ==
  ASSUME NEW R \in Positions, NEW W \in Positions
  PROVE  Span(R, W) = IF W < R THEN W - R + Wrap ELSE W - R
<1>1. W - R \in Int /\ -Wrap <= W - R /\ W - R < Wrap /\ W - R < 2 * Wrap /\ (W - R < 0 <=> W < R)
  BY Sizes DEF Positions
<1>2. (W - R) % Wrap = IF W - R < 0 THEN W - R + Wrap ELSE W - R
  BY <1>1, WrappedIs
<1> QED
  BY <1>1, <1>2 DEF Span

\* What is claimed grows, unless it is all there is.
LEMMA SpanGrows ==
  ASSUME NEW R \in Positions, NEW W \in Positions, NEW m \in Nat, Span(R, W) + m < Wrap
  PROVE  Behind(W, m) \in Positions /\ Span(R, Behind(W, m)) = Span(R, W) + m
<1>1. PICK s : s = Span(R, W)
  OBVIOUS
<1>2. s = IF W < R THEN W - R + Wrap ELSE W - R
  BY <1>1, SpanIs
<1>3. m \in 0 .. Wrap - 1
  BY <1>1, <1>2, Sizes DEF Positions
<1>4. PICK V \in Positions : V = Behind(W, m)
  BY <1>3, BehindIn
<1>5. V = IF W + m < Wrap THEN W + m ELSE W + m - Wrap
  BY <1>3, <1>4, BehindIn
<1>6. Span(R, V) = IF V < R THEN V - R + Wrap ELSE V - R
  BY SpanIs
<1>7. s + m < Wrap
  BY <1>1
<1>8. (IF V < R THEN V - R + Wrap ELSE V - R) = s + m
  BY <1>2, <1>5, <1>7, Sizes DEF Positions
<1> QED
  BY <1>1, <1>4, <1>6, <1>8

\* What is claimed shrinks as the read position goes on.
LEMMA SpanShrinks ==
  ASSUME NEW R \in Positions, NEW W \in Positions, NEW m \in Nat, m <= Span(R, W)
  PROVE  Behind(R, m) \in Positions /\ Span(Behind(R, m), W) = Span(R, W) - m
<1>1. PICK s : s = Span(R, W)
  OBVIOUS
<1>2. s = IF W < R THEN W - R + Wrap ELSE W - R
  BY <1>1, SpanIs
<1>7. m <= s
  BY <1>1
<1>3. m \in 0 .. Wrap - 1
  BY <1>2, <1>7, Sizes DEF Positions
<1>4. PICK V \in Positions : V = Behind(R, m)
  BY <1>3, BehindIn
<1>5. V = IF R + m < Wrap THEN R + m ELSE R + m - Wrap
  BY <1>3, <1>4, BehindIn
<1>6. Span(V, W) = IF W < V THEN W - V + Wrap ELSE W - V
  BY SpanIs
<1>8. (IF W < V THEN W - V + Wrap ELSE W - V) = s - m
  BY <1>2, <1>5, <1>7, Sizes DEF Positions
<1> QED
  BY <1>1, <1>4, <1>6, <1>8

\* The same position, seen from a later one.
LEMMA BehindShifts ==
  ASSUME NEW R \in Positions, NEW m \in Nat, NEW a \in 0 .. Wrap - 1, m <= a
  PROVE  Behind(Behind(R, m), a - m) = Behind(R, a)
<1>1. m \in 0 .. Wrap - 1 /\ a - m \in 0 .. Wrap - 1
  BY Sizes
<1>2. PICK V \in Positions : V = Behind(R, m)
  BY <1>1, BehindIn
<1>3. V = IF R + m < Wrap THEN R + m ELSE R + m - Wrap
  BY <1>1, <1>2, BehindIn
<1>4. Behind(V, a - m) = IF V + (a - m) < Wrap THEN V + (a - m) ELSE V + (a - m) - Wrap
  BY <1>1, BehindIn
<1>5. Behind(R, a) = IF R + a < Wrap THEN R + a ELSE R + a - Wrap
  BY BehindIn
<1>6. (IF V + (a - m) < Wrap THEN V + (a - m) ELSE V + (a - m) - Wrap)
        = (IF R + a < Wrap THEN R + a ELSE R + a - Wrap)
  BY <1>1, <1>3, Sizes DEF Positions
<1> QED
  BY <1>2, <1>4, <1>5, <1>6

\* Two cells of the ring have positions of their own.
LEMMA BehindApart ==
  ASSUME NEW R \in Positions, NEW a \in 0 .. Wrap - 1, NEW b \in 0 .. Wrap - 1,
         Behind(R, a) = Behind(R, b)
  PROVE  a = b
<1>1. PICK p : p = Behind(R, a)
  OBVIOUS
<1>2. p = IF R + a < Wrap THEN R + a ELSE R + a - Wrap
  BY <1>1, BehindIn
<1>3. p = IF R + b < Wrap THEN R + b ELSE R + b - Wrap
  BY <1>1, BehindIn
<1> QED
  BY <1>2, <1>3, Sizes DEF Positions

\* The view after the read position has gone m cells on.
LEMMA ShiftedView ==
  ASSUME NEW d \in [0 .. Size - 1 -> Nat], NEW R \in Positions, NEW m \in 0 .. Size,
         NEW o \in 0 .. Size - 1
  PROVE  ViewOf(d, Behind(R, m) % Size)[o] =
           ViewOf(d, R % Size)[IF o + m < Size THEN o + m ELSE o + m - Size]
<1>1. PICK s \in 0 .. Size - 1 : s = R % Size
  <2>1. R \in Nat /\ 0 \in 0 .. Size
    BY Sizes DEF Positions
  <2> QED
    BY <2>1, SlotIs
<1>2. Behind(R, m) % Size = Slot(s, m)
  BY <1>1, SlotOfWrapped DEF Behind, Positions
<1>3. PICK u : u = IF o + m < Size THEN o + m ELSE o + m - Size
  OBVIOUS
<1>4. u \in 0 .. Size - 1
  BY <1>3, Sizes
<1>5. Slot(Slot(s, m), o) = Slot(s, u)
  BY <1>3, Sizes DEF Slot
<1>6. ViewOf(d, Slot(s, m))[o] = d[Slot(Slot(s, m), o)]
  BY DEF ViewOf
<1>7. ViewOf(d, s)[u] = d[Slot(s, u)]
  BY <1>4 DEF ViewOf
<1> QED
  BY <1>1, <1>2, <1>3, <1>5, <1>6, <1>7
-----------------------------------------------------------------------------
(* The messages of a layout.                                               *)

LEMMA SentAre ==
  ASSUME NEW pd \in Seq(Sent), NEW i \in 1 .. Len(pd)
  PROVE  pd[i].thread \in Threads /\ pd[i].n \in Payloads /\ pd[i].n \in Nat
<1>1. pd[i] \in Sent
  BY ElementOfSeq
<1> QED
  BY <1>1, Sizes DEF Sent

\* Every message lies before the end, and the first at the read position.
LEMMA LiesIn ==
  ASSUME NEW pd \in Seq(Sent), NEW pos, NEW held \in 0 .. Size, Layout(pos, pd, held),
         NEW i \in 1 .. Len(pd)
  PROVE  pos[i] \in Nat /\ pos[i] + pd[i].n + 2 <= held
<1>1. Len(pd) \in Nat
  BY LenProperties
<1>2. i \in 1 .. Len(pd) + 1 /\ Len(pd) + 1 \in 1 .. Len(pd) + 1 /\ i < Len(pd) + 1
  BY <1>1
<1>3. pos[i] \in Nat
  BY <1>2 DEF Layout
<1>4. pos[i] + Message(pd[i].n) <= pos[Len(pd) + 1] /\ pos[Len(pd) + 1] = held
  BY <1>2, Zenon DEF Layout
<1>5. pd[i].n \in Nat
  BY SentAre
<1> QED
  BY <1>3, <1>4, <1>5 DEF Message

\* Two messages share no cell.
LEMMA LieApart ==
  ASSUME NEW pd \in Seq(Sent), NEW pos, NEW held \in 0 .. Size, Layout(pos, pd, held),
         NEW i \in 1 .. Len(pd), NEW j \in 1 .. Len(pd), i # j
  PROVE  pos[i] + pd[i].n + 2 <= pos[j] \/ pos[j] + pd[j].n + 2 <= pos[i]
<1>1. Len(pd) \in Nat
  BY LenProperties
<1>2. i \in 1 .. Len(pd) + 1 /\ j \in 1 .. Len(pd) + 1
  BY <1>1
<1>3. pd[i].n \in Nat /\ pd[j].n \in Nat /\ pos[i] \in Nat /\ pos[j] \in Nat
  BY SentAre, LiesIn
<1>4. CASE i < j
  <2>1. pos[i] + Message(pd[i].n) <= pos[j]
    BY <1>2, <1>4, Zenon DEF Layout
  <2> QED
    BY <1>3, <2>1 DEF Message
<1>5. CASE j < i
  <2>1. pos[j] + Message(pd[j].n) <= pos[i]
    BY <1>2, <1>5, Zenon DEF Layout
  <2> QED
    BY <1>3, <2>1 DEF Message
<1> QED
  BY <1>1, <1>4, <1>5

\* The two views agree on the cells of the message.
Agree(u, v, a, n) == \A o \in a .. a + n + 1 : u[o] = v[o]

LEMMA SameBody ==
  ASSUME NEW u, NEW v, NEW a \in Nat, NEW m, m.n \in Nat, Agree(u, v, a, m.n)
  PROVE  u[a] = v[a] /\ (Body(v, a, m) => Body(u, a, m))
<1>1. a \in a .. a + m.n + 1 /\ a + 1 \in a .. a + m.n + 1
  BY Sizes
<1>2. u[a] = v[a] /\ u[a + 1] = v[a + 1]
  BY <1>1 DEF Agree
<1>3. ASSUME NEW k \in a + 2 .. a + m.n + 1 PROVE u[k] = v[k]
  <2>1. k \in a .. a + m.n + 1
    BY Sizes
  <2> QED
    BY <2>1 DEF Agree
<1> QED
  BY <1>2, <1>3, Zenon DEF Body

LEMMA SameMessage ==
  ASSUME NEW u, NEW v, NEW a \in Nat, NEW m, m.n \in Nat, Agree(u, v, a, m.n)
  PROVE  /\ Whole(v, a, m) => Whole(u, a, m)
         /\ \A x, R : Coming(v, a, m, x, R) => Coming(u, a, m, x, R)
<1>1. u[a] = v[a] /\ (Body(v, a, m) => Body(u, a, m))
  BY SameBody
<1> QED
  BY <1>1, Zenon DEF Whole, Coming

LEMMA WholeOrComing ==
  ASSUME NEW v, NEW a, NEW m, NEW x, NEW R
  PROVE  ~(Whole(v, a, m) /\ Coming(v, a, m, x, R))
BY DEF Whole, Coming, Ready, NotReady

\* A thread writes one message at a time.
LEMMA OneComing ==
  ASSUME NEW pd \in Seq(Sent), NEW pos, NEW held \in 0 .. Size, Layout(pos, pd, held),
         NEW i \in 1 .. Len(pd), NEW j \in 1 .. Len(pd), NEW R \in Positions, NEW v, NEW x,
         Coming(v, pos[i], pd[i], x, R), Coming(v, pos[j], pd[j], x, R)
  PROVE  i = j
<1>1. pos[i] \in 0 .. Wrap - 1 /\ pos[j] \in 0 .. Wrap - 1
  <2>1. ASSUME NEW k \in 1 .. Len(pd) PROVE pos[k] \in 0 .. Wrap - 1
    <3>1. pos[k] \in Nat /\ pos[k] + pd[k].n + 2 <= held /\ pd[k].n \in Nat
      BY LiesIn, SentAre
    <3> QED
      BY <3>1, Sizes
  <2> QED
    BY <2>1
<1>2. Behind(R, pos[i]) = Behind(R, pos[j])
  BY DEF Coming
<1>3. pos[i] = pos[j]
  BY <1>1, <1>2, BehindApart
<1>4. SUFFICES ASSUME i # j PROVE FALSE
  OBVIOUS
<1>5. pos[i] + pd[i].n + 2 <= pos[j] \/ pos[j] + pd[j].n + 2 <= pos[i]
  BY <1>4, LieApart
<1>6. pd[i].n \in Nat /\ pd[j].n \in Nat
  BY SentAre
<1> QED
  BY <1>1, <1>3, <1>5, <1>6
-----------------------------------------------------------------------------
(* What the steps do to the messages.                                      *)

\* The thread t takes a step outside of any message.
Besides(wr, wr1, t) ==
  /\ wr[t].at \notin {"claimed", "filled"} /\ wr1[t].at \notin {"claimed", "filled"}
  /\ \A s \in Threads \ {t} : wr1[s] = wr[s]

LEMMA StepsBesides ==
  ASSUME NEW pos, NEW v, NEW pd \in Seq(Sent), NEW wr, NEW wr1, NEW rd, NEW R,
         NEW t \in Threads, Besides(wr, wr1, t), Placed(pos, v, pd, wr, rd, R)
  PROVE  Placed(pos, v, pd, wr1, rd, R)
<1>1. Each(pos, v, pd, wr1, rd, R)
  <2>1. SUFFICES ASSUME NEW i \in 1 .. Len(pd), ~Gone(i, rd)
                 PROVE  \/ Whole(v, pos[i], pd[i])
                        \/ Coming(v, pos[i], pd[i], wr1[pd[i].thread], R)
    BY Zenon DEF Each
  <2>2. PICK s \in Threads : s = pd[i].thread
    BY SentAre
  <2>3. Whole(v, pos[i], pd[i]) \/ Coming(v, pos[i], pd[i], wr[s], R)
    BY <2>1, <2>2, Zenon DEF Placed, Each
  <2>4. ASSUME Coming(v, pos[i], pd[i], wr[s], R) PROVE wr1[s] = wr[s]
    BY <2>4 DEF Coming, Besides
  <2> QED
    BY <2>2, <2>3, <2>4, Zenon
<1>2. Owned(pos, v, pd, wr1, rd, R)
  <2>1. SUFFICES ASSUME NEW s \in Threads, wr1[s].at \in {"claimed", "filled"}
                 PROVE  \E i \in 1 .. Len(pd) : /\ pd[i].thread = s /\ ~Gone(i, rd)
                                                /\ Coming(v, pos[i], pd[i], wr1[s], R)
    BY Zenon DEF Owned
  <2>2. wr1[s] = wr[s]
    BY <2>1, Zenon DEF Besides
  <2> QED
    BY <2>1, <2>2, Zenon DEF Placed, Owned
<1> QED
  BY <1>1, <1>2, Zenon DEF Placed

\* The message i, which was coming, is written: by a thread that has more to
\* do, or that is through.
Wrote(v, u, a, m, wr, wr1, R) ==
  /\ \A o \in 0 .. Size - 1 : o \notin a .. a + m.n + 1 => u[o] = v[o]
  /\ \A s \in Threads \ {m.thread} : wr1[s] = wr[s]
  /\ Coming(v, a, m, wr[m.thread], R)
  /\ \/ Coming(u, a, m, wr1[m.thread], R)
     \/ Whole(u, a, m) /\ wr1[m.thread].at \notin {"claimed", "filled"}

LEMMA OthersAgree ==
  ASSUME NEW pd \in Seq(Sent), NEW pos, NEW held \in 0 .. Size, Layout(pos, pd, held),
         NEW i \in 1 .. Len(pd), NEW j \in 1 .. Len(pd), i # j, NEW v, NEW u,
         \A o \in 0 .. Size - 1 : o \notin pos[i] .. pos[i] + pd[i].n + 1 => u[o] = v[o]
  PROVE  Agree(u, v, pos[j], pd[j].n)
<1>1. pos[i] + pd[i].n + 2 <= pos[j] \/ pos[j] + pd[j].n + 2 <= pos[i]
  BY LieApart
<1>2. /\ pos[i] \in Nat /\ pos[i] + pd[i].n + 2 <= held
      /\ pos[j] \in Nat /\ pos[j] + pd[j].n + 2 <= held
  BY LiesIn
<1>3. pd[i].n \in Nat /\ pd[j].n \in Nat
  BY SentAre
<1>4. PICK a \in Nat, x \in Nat : a = pos[i] /\ x = pd[i].n
  BY <1>2, <1>3
<1>5. PICK b \in Nat, y \in Nat : b = pos[j] /\ y = pd[j].n
  BY <1>2, <1>3
<1>6. a + x + 2 <= b \/ b + y + 2 <= a
  BY <1>1, <1>4, <1>5
<1>7. b + y + 2 <= Size
  BY <1>2, <1>5, Sizes
<1>8. SUFFICES ASSUME NEW o \in b .. b + y + 1 PROVE u[o] = v[o]
  BY <1>5 DEF Agree
<1>9. o \in 0 .. Size - 1 /\ o \notin a .. a + x + 1
  BY <1>6, <1>7, Sizes
<1> QED
  BY <1>4, <1>9

LEMMA WritesOne ==
  ASSUME NEW pd \in Seq(Sent), NEW pos, NEW held \in 0 .. Size, Layout(pos, pd, held),
         NEW R \in Positions, NEW v, NEW u, NEW wr, NEW wr1, NEW rd,
         Placed(pos, v, pd, wr, rd, R),
         NEW i \in 1 .. Len(pd), ~Gone(i, rd), Wrote(v, u, pos[i], pd[i], wr, wr1, R)
  PROVE  Placed(pos, u, pd, wr1, rd, R)
<1>1. \A o \in 0 .. Size - 1 : o \notin pos[i] .. pos[i] + pd[i].n + 1 => u[o] = v[o]
  BY Zenon DEF Wrote
<1>2. ASSUME NEW j \in 1 .. Len(pd), i # j PROVE Agree(u, v, pos[j], pd[j].n)
  BY <1>1, <1>2, OthersAgree
<1>3. ASSUME NEW j \in 1 .. Len(pd), i # j
      PROVE  /\ Whole(v, pos[j], pd[j]) => Whole(u, pos[j], pd[j])
             /\ \A x : Coming(v, pos[j], pd[j], x, R) => Coming(u, pos[j], pd[j], x, R)
  <2>1. Agree(u, v, pos[j], pd[j].n)
    BY <1>2, <1>3
  <2>2. pos[j] \in Nat /\ pd[j].n \in Nat
    BY LiesIn, SentAre
  <2> QED
    BY <2>1, <2>2, SameMessage
<1>4. PICK t \in Threads : t = pd[i].thread
  BY SentAre
<1>5. Coming(v, pos[i], pd[i], wr[t], R)
  BY <1>4 DEF Wrote
<1>6. ASSUME NEW j \in 1 .. Len(pd), i # j, NEW s \in Threads, Coming(v, pos[j], pd[j], wr[s], R)
      PROVE  wr1[s] = wr[s]
  <2>1. s # t
    BY <1>5, <1>6, OneComing
  <2> QED
    BY <1>4, <2>1 DEF Wrote
<1>7. Each(pos, u, pd, wr1, rd, R)
  <2>1. SUFFICES ASSUME NEW j \in 1 .. Len(pd), ~Gone(j, rd)
                 PROVE  \/ Whole(u, pos[j], pd[j])
                        \/ Coming(u, pos[j], pd[j], wr1[pd[j].thread], R)
    BY Zenon DEF Each
  <2>2. CASE i = j
    BY <2>2 DEF Wrote
  <2>3. CASE i # j
    <3>1. PICK s \in Threads : s = pd[j].thread
      BY SentAre
    <3>2. Whole(v, pos[j], pd[j]) \/ Coming(v, pos[j], pd[j], wr[s], R)
      BY <2>1, <3>1, Zenon DEF Placed, Each
    <3> QED
      BY <1>3, <1>6, <2>3, <3>1, <3>2, Zenon
  <2> QED
    BY <2>2, <2>3
<1>8. Reads(u, pd, rd)
  <2>1. CASE rd.at = "reading"
    <3>1. Len(pd) >= 1 /\ Whole(v, 0, pd[1]) /\ rd.n = pd[1].n
          /\ (rd.n > 0 => rd.thread = pd[1].thread)
      BY <2>1 DEF Placed, Reads
    <3>2. Len(pd) \in Nat /\ 1 \in 1 .. Len(pd) /\ pos[1] = 0
      BY <3>1, LenProperties DEF Layout
    <3>3. i # 1
      BY <1>5, <3>1, <3>2, WholeOrComing
    <3>4. Whole(u, 0, pd[1])
      BY <1>3, <3>1, <3>2, <3>3
    <3> QED
      BY <2>1, <3>1, <3>4 DEF Reads
  <2>2. CASE rd.at = "cleared"
    <3>1. Len(pd) >= 1 /\ rd.n = pd[1].n /\ ClearTo(v, rd.n)
      BY <2>2 DEF Placed, Reads
    <3>2. Len(pd) \in Nat /\ 1 \in 1 .. Len(pd) /\ pos[1] = 0
      BY <3>1, LenProperties DEF Layout
    <3>3. i # 1
      BY <2>2 DEF Gone
    <3>4. Agree(u, v, 0, rd.n)
      BY <1>2, <3>1, <3>2, <3>3
    <3>5. rd.n \in Nat
      BY <3>1, <3>2, SentAre
    <3>6. \A o \in 0 .. rd.n + 1 : u[o] = v[o]
      BY <3>4, <3>5 DEF Agree
    <3>7. ClearTo(u, rd.n)
      BY <3>1, <3>6, Zenon DEF ClearTo
    <3> QED
      BY <2>2, <3>1, <3>7 DEF Reads
  <2> QED
    BY <2>1, <2>2 DEF Reads
<1>9. Owned(pos, u, pd, wr1, rd, R)
  <2>1. SUFFICES ASSUME NEW s \in Threads, wr1[s].at \in {"claimed", "filled"}
                 PROVE  \E j \in 1 .. Len(pd) : /\ pd[j].thread = s /\ ~Gone(j, rd)
                                                /\ Coming(u, pos[j], pd[j], wr1[s], R)
    BY Zenon DEF Owned
  <2>2. CASE s = t
    <3>1. Coming(u, pos[i], pd[i], wr1[s], R)
      BY <1>4, <2>1, <2>2, Zenon DEF Wrote
    <3> QED
      BY <1>4, <2>2, <3>1, Zenon
  <2>3. CASE s # t
    <3>1. wr1[s] = wr[s]
      BY <1>4, <2>3, Zenon DEF Wrote
    <3>2. PICK j \in 1 .. Len(pd) : /\ pd[j].thread = s /\ ~Gone(j, rd)
                                   /\ Coming(v, pos[j], pd[j], wr[s], R)
      BY <2>1, <3>1, Zenon DEF Placed, Owned
    <3>3. i # j
      BY <1>4, <2>3, <3>2
    <3>4. Coming(u, pos[j], pd[j], wr1[s], R)
      BY <1>3, <3>1, <3>2, <3>3, Zenon
    <3> QED
      BY <3>2, <3>4, Zenon
  <2> QED
    BY <2>2, <2>3
<1> QED
  BY <1>7, <1>8, <1>9, Zenon DEF Placed

\* The message t claims is the last, and is coming.
LEMMA ClaimsOne ==
  ASSUME NEW pd \in Seq(Sent), NEW held \in 0 .. Size, NEW R \in Positions, NEW v, NEW rd,
         NEW wr, NEW wr1, NEW t \in Threads, Laid(v, pd, wr, rd, R, held),
         NEW m \in Sent, m.thread = t, held + m.n + 2 <= Size, ClearFrom(v, held),
         wr[t].at \notin {"claimed", "filled"}, \A s \in Threads \ {t} : wr1[s] = wr[s],
         wr1[t].at = "claimed" /\ wr1[t].n = m.n /\ wr1[t].w = Behind(R, held)
  PROVE  Laid(v, Append(pd, m), wr1, rd, R, held + m.n + 2)
<1>1. PICK pos : Layout(pos, pd, held) /\ Placed(pos, v, pd, wr, rd, R)
  BY Zenon DEF Laid
<1>2. PICK L \in Nat : L = Len(pd)
  BY LenProperties
<1>3. m.n \in Nat
  BY Sizes DEF Sent
<1>4. PICK pe : pe = Append(pd, m)
  OBVIOUS
<1>5. pe \in Seq(Sent) /\ Len(pe) = L + 1 /\ pe[L + 1] = m /\ \A i \in 1 .. L : pe[i] = pd[i]
  BY <1>2, <1>4, AppendProperties
<1>6. PICK at : at = [i \in 1 .. L + 2 |-> IF i = L + 2 THEN held + m.n + 2 ELSE pos[i]]
  OBVIOUS
<1>7. at[L + 2] = held + m.n + 2 /\ at[L + 1] = held /\ \A i \in 1 .. L + 1 : at[i] = pos[i]
  BY <1>1, <1>2, <1>6 DEF Layout
<1>8. Layout(at, pe, held + m.n + 2)
  <2>0. \A i \in 1 .. L + 1 : pos[i] \in Nat
    BY <1>1, <1>2 DEF Layout
  <2>1. \A i \in 1 .. L + 2 : at[i] \in Nat
    BY <1>3, <1>6, <2>0
  <2>2. at \in [1 .. L + 2 -> Nat]
    BY <1>6, <2>1
  <2>3. at[1] = 0
    BY <1>1, <1>2, <1>7 DEF Layout
  <2>4. ASSUME NEW i \in 1 .. L + 2, NEW j \in 1 .. L + 2, i < j
        PROVE  at[i] + Message(pe[i].n) <= at[j]
    <3>1. CASE j <= L + 1
      <4>1. i \in 1 .. L /\ i \in 1 .. L + 1 /\ j \in 1 .. L + 1
        BY <1>2, <2>4, <3>1
      <4>2. pos[i] + Message(pd[i].n) <= pos[j]
        BY <1>1, <1>2, <2>4, <4>1 DEF Layout
      <4> QED
        BY <1>5, <1>7, <4>1, <4>2
    <3>2. CASE j = L + 2 /\ i \in 1 .. L
      <4>1. pos[i] \in Nat /\ pos[i] + pd[i].n + 2 <= held /\ pd[i].n \in Nat
        BY <1>1, <1>2, <3>2, LiesIn, SentAre
      <4>2. at[i] = pos[i] /\ pe[i] = pd[i]
        BY <1>2, <1>5, <1>7, <3>2
      <4>3. at[i] + (pe[i].n + 2) <= held
        BY <4>1, <4>2
      <4>4. at[j] = held + m.n + 2
        BY <1>7, <3>2
      <4>5. at[i] + (pe[i].n + 2) \in Int
        BY <4>1, <4>2
      <4> QED
        BY <1>3, <4>3, <4>4, <4>5 DEF Message
    <3>3. CASE j = L + 2 /\ i = L + 1
      BY <1>3, <1>5, <1>7, <3>3 DEF Message
    <3> QED
      BY <1>2, <2>4, <3>1, <3>2, <3>3
  <2>5. Len(pe) + 1 = L + 2 /\ Len(pe) = L + 1
    BY <1>2, <1>5
  <2>6. ASSUME NEW i \in 1 .. L + 1 PROVE at[i + 1] = at[i] + Message(pe[i].n)
    <3>1. CASE i = L + 1
      <4>1. at[L + 2] = at[L + 1] + Message(pe[L + 1].n)
        BY <1>3, <1>5, <1>7 DEF Message
      <4>2. i + 1 = L + 2
        BY <3>1
      <4> QED
        BY <3>1, <4>1, <4>2, Zenon
    <3>2. CASE i \in 1 .. L
      <4>1. pos[i + 1] = pos[i] + Message(pd[i].n)
        BY <1>1, <1>2, <3>2 DEF Layout
      <4>2. pe[i] = pd[i] /\ at[i] = pos[i] /\ at[i + 1] = pos[i + 1]
        BY <1>5, <1>7, <3>2
      <4> QED
        BY <4>1, <4>2
    <3> QED
      BY <3>1, <3>2
  <2> QED
    BY <1>7, <2>2, <2>3, <2>4, <2>5, <2>6 DEF Layout
<1>9. ASSUME NEW s \in Threads, wr[s].at \in {"claimed", "filled"} PROVE wr1[s] = wr[s]
  BY <1>9
<1>10. ASSUME NEW i \in 1 .. Len(pe)
       PROVE  i = L + 1 \/ i \in 1 .. Len(pd)
  BY <1>2, <1>5
<1>11. ~Gone(L + 1, rd)
  <2>1. rd.at = "cleared" => L >= 1
    BY <1>1, <1>2 DEF Placed, Reads
  <2> QED
    BY <1>2, <2>1 DEF Gone
<1>12. Coming(v, at[L + 1], pe[L + 1], wr1[t], R)
  <2>1. v[held] = NotReady
    BY <1>3, Sizes DEF ClearFrom
  <2> QED
    BY <1>5, <1>7, <2>1 DEF Coming
<1>13. Each(at, v, pe, wr1, rd, R)
  <2>1. SUFFICES ASSUME NEW i \in 1 .. Len(pe), ~Gone(i, rd)
                 PROVE  \/ Whole(v, at[i], pe[i])
                        \/ Coming(v, at[i], pe[i], wr1[pe[i].thread], R)
    BY Zenon DEF Each
  <2>2. CASE i = L + 1
    BY <1>5, <1>12, <2>2
  <2>3. CASE i \in 1 .. Len(pd)
    <3>1. pe[i] = pd[i] /\ at[i] = pos[i]
      BY <1>2, <1>5, <1>7, <2>3
    <3>2. PICK s \in Threads : s = pd[i].thread
      BY <2>3, SentAre
    <3>3. Whole(v, pos[i], pd[i]) \/ Coming(v, pos[i], pd[i], wr[s], R)
      BY <1>1, <2>1, <2>3, <3>2, Zenon DEF Placed, Each
    <3>4. Coming(v, pos[i], pd[i], wr[s], R) => wr1[s] = wr[s]
      BY <1>9 DEF Coming
    <3> QED
      BY <3>1, <3>2, <3>3, <3>4, Zenon
  <2> QED
    BY <1>10, <2>2, <2>3
<1>14. Reads(v, pe, rd)
  <2>1. Len(pd) >= 1 => Len(pe) >= 1 /\ pe[1] = pd[1]
    BY <1>2, <1>5
  <2> QED
    BY <1>1, <2>1 DEF Placed, Reads
<1>15. Owned(at, v, pe, wr1, rd, R)
  <2>1. SUFFICES ASSUME NEW s \in Threads, wr1[s].at \in {"claimed", "filled"}
                 PROVE  \E i \in 1 .. Len(pe) : /\ pe[i].thread = s /\ ~Gone(i, rd)
                                                /\ Coming(v, at[i], pe[i], wr1[s], R)
    BY Zenon DEF Owned
  <2>2. CASE s = t
    <3>1. L + 1 \in 1 .. Len(pe)
      BY <1>2, <1>5
    <3> QED
      BY <1>5, <1>11, <1>12, <2>2, <3>1
  <2>3. CASE s # t
    <3>1. wr1[s] = wr[s]
      BY <2>3
    <3>2. PICK i \in 1 .. Len(pd) : /\ pd[i].thread = s /\ ~Gone(i, rd)
                                   /\ Coming(v, pos[i], pd[i], wr[s], R)
      BY <1>1, <2>1, <3>1, Zenon DEF Placed, Owned
    <3>3. i \in 1 .. Len(pe) /\ pe[i] = pd[i] /\ at[i] = pos[i]
      BY <1>2, <1>5, <1>7, <3>2
    <3> QED
      BY <3>1, <3>2, <3>3, Zenon
  <2> QED
    BY <2>2, <2>3
<1> QED
  BY <1>4, <1>8, <1>13, <1>14, <1>15, Zenon DEF Placed, Laid

\* A message that is ready at the read position is the first, whole.
LEMMA FirstIsWhole ==
  ASSUME NEW pd \in Seq(Sent), NEW held \in 0 .. Size, NEW R, NEW v, NEW rd, NEW wr, NEW pos,
         Layout(pos, pd, held), Placed(pos, v, pd, wr, rd, R),
         held # 0, rd.at = "idle", v[0] # NotReady
  PROVE  Len(pd) >= 1 /\ Whole(v, 0, pd[1]) /\ pd[1].n \in Nat
<1>1. Len(pd) \in Nat /\ pos[1] = 0 /\ pos[Len(pd) + 1] = held
  BY LenProperties DEF Layout
<1>2. Len(pd) # 0
  <2>1. SUFFICES ASSUME Len(pd) = 0 PROVE FALSE
    OBVIOUS
  <2>2. Len(pd) + 1 = 1
    BY <2>1
  <2> QED
    BY <1>1, <2>2
<1>3. 1 \in 1 .. Len(pd) /\ ~Gone(1, rd) /\ Len(pd) >= 1
  BY <1>1, <1>2 DEF Gone
<1>4. Whole(v, 0, pd[1]) \/ Coming(v, 0, pd[1], wr[pd[1].thread], R)
  BY <1>1, <1>3, Zenon DEF Placed, Each
<1>5. ~Coming(v, 0, pd[1], wr[pd[1].thread], R)
  BY DEF Coming
<1> QED
  BY <1>3, <1>4, <1>5, SentAre

\* A payload of one value.
LEMMA OneValue ==
  ASSUME NEW S, NEW x, S = {x}
  PROVE  (CHOOSE t \in S : S = {t}) = x
OBVIOUS

IsPayload(S, v, n) == S = { v[k] : k \in 2 .. n + 1 }

LEMMA PeeksOne ==
  ASSUME NEW pd \in Seq(Sent), NEW held \in 0 .. Size, NEW R, NEW v, NEW rd, NEW rd1, NEW wr,
         Laid(v, pd, wr, rd, R, held), held # 0, rd.at = "idle", v[0] # NotReady,
         NEW n, NEW S, n = v[1], IsPayload(S, v, n),
         rd1.at = "reading", rd1.n = n,
         rd1.thread = Content(S)
  PROVE  Laid(v, pd, wr, rd1, R, held) /\ n \in Nat
<1>1. PICK pos : Layout(pos, pd, held) /\ Placed(pos, v, pd, wr, rd, R)
  BY Zenon DEF Laid
<1>2. Len(pd) >= 1 /\ Whole(v, 0, pd[1]) /\ pd[1].n \in Nat
  BY <1>1, FirstIsWhole
<1>3. n = pd[1].n
  BY <1>2 DEF Whole, Body
<1>4. n > 0 => rd1.thread = pd[1].thread
  <2>1. SUFFICES ASSUME n > 0 PROVE rd1.thread = pd[1].thread
    OBVIOUS
  <2>2. 2 \in 2 .. n + 1
    BY <1>2, <1>3, <2>1
  <2>3. \A k \in 2 .. n + 1 : v[k] = pd[1].thread
    BY <1>2, <1>3 DEF Whole, Body
  <2>4. S = {pd[1].thread}
    BY <2>2, <2>3 DEF IsPayload
  <2>5. (CHOOSE t \in S : S = {t}) = pd[1].thread
    BY <2>4, OneValue
  <2>6. S # {}
    BY <2>4
  <2> QED
    BY <2>5, <2>6, Zenon DEF Content
<1>5. Reads(v, pd, rd1)
  BY <1>2, <1>3, <1>4 DEF Reads
<1>6. \A i : Gone(i, rd) <=> Gone(i, rd1)
  BY DEF Gone
<1>7. Each(pos, v, pd, wr, rd1, R)
  BY <1>1, <1>6, Zenon DEF Placed, Each
<1>8. Owned(pos, v, pd, wr, rd1, R)
  BY <1>1, <1>6, Zenon DEF Placed, Owned
<1> QED
  BY <1>1, <1>2, <1>3, <1>5, <1>7, <1>8 DEF Placed, Laid

LEMMA ClearsOne ==
  ASSUME NEW pd \in Seq(Sent), NEW held \in 0 .. Size, NEW R, NEW v, NEW u, NEW rd, NEW rd1, NEW wr,
         Laid(v, pd, wr, rd, R, held), rd.at = "reading", rd1.at = "cleared", rd1.n = rd.n,
         \A o \in 0 .. Size - 1 : u[o] = IF o < rd.n + 2 THEN NotReady ELSE v[o]
  PROVE  Laid(u, pd, wr, rd1, R, held)
<1>1. PICK pos : Layout(pos, pd, held) /\ Placed(pos, v, pd, wr, rd, R)
  BY Zenon DEF Laid
<1>2. Len(pd) \in Nat /\ Len(pd) >= 1 /\ 1 \in 1 .. Len(pd) /\ rd.n = pd[1].n
      /\ Whole(v, 0, pd[1]) /\ pos[1] = 0
  BY <1>1, LenProperties DEF Placed, Reads, Layout
<1>3. rd.n \in Nat /\ rd.n + 2 <= held
  <2>1. pos[1] + pd[1].n + 2 <= held /\ pd[1].n \in Nat
    BY <1>1, <1>2, LiesIn, SentAre
  <2> QED
    BY <1>2, <2>1
<1>4. ASSUME NEW o \in 0 .. Size - 1, o \notin pos[1] .. pos[1] + pd[1].n + 1 PROVE u[o] = v[o]
  <2>1. o \notin 0 .. rd.n + 1
    BY <1>2, <1>3, <1>4
  <2>2. ~(o < rd.n + 2)
    BY <1>3, <2>1
  <2> QED
    BY <2>2
<1>5. ASSUME NEW j \in 1 .. Len(pd), 1 # j
      PROVE  /\ Whole(v, pos[j], pd[j]) => Whole(u, pos[j], pd[j])
             /\ \A x : Coming(v, pos[j], pd[j], x, R) => Coming(u, pos[j], pd[j], x, R)
  <2>1. Agree(u, v, pos[j], pd[j].n)
    BY <1>1, <1>2, <1>4, <1>5, OthersAgree
  <2>2. pos[j] \in Nat /\ pd[j].n \in Nat
    BY <1>1, LiesIn, SentAre
  <2> QED
    BY <2>1, <2>2, SameMessage
<1>6. \A j : (~Gone(j, rd1) <=> j # 1) /\ ~Gone(j, rd)
  BY DEF Gone
<1>7. Each(pos, u, pd, wr, rd1, R)
  BY <1>1, <1>5, <1>6, Zenon DEF Placed, Each
<1>8. Owned(pos, u, pd, wr, rd1, R)
  <2>1. SUFFICES ASSUME NEW s \in Threads, wr[s].at \in {"claimed", "filled"}
                 PROVE  \E j \in 1 .. Len(pd) : /\ pd[j].thread = s /\ ~Gone(j, rd1)
                                                /\ Coming(u, pos[j], pd[j], wr[s], R)
    BY Zenon DEF Owned
  <2>2. PICK j \in 1 .. Len(pd) : /\ pd[j].thread = s /\ ~Gone(j, rd)
                                 /\ Coming(v, pos[j], pd[j], wr[s], R)
    BY <1>1, <2>1, Zenon DEF Placed, Owned
  <2>3. j # 1
    BY <1>2, <2>2, WholeOrComing
  <2> QED
    BY <1>5, <1>6, <2>2, <2>3, Zenon
<1>9. Reads(u, pd, rd1)
  <2>1. ASSUME NEW o \in 0 .. rd.n + 1 PROVE u[o] = NotReady
    <3>1. o \in 0 .. Size - 1 /\ o < rd.n + 2
      BY <1>3, <2>1, Sizes
    <3> QED
      BY <3>1
  <2>2. ClearTo(u, rd1.n)
    BY <2>1 DEF ClearTo
  <2> QED
    BY <1>2, <2>2 DEF Reads
<1> QED
  BY <1>1, <1>7, <1>8, <1>9, Zenon DEF Placed, Laid

\* The view u is v from m cells on.
Shifts(u, v, m) ==
  \A o \in 0 .. Size - 1 : u[o] = v[IF o + m < Size THEN o + m ELSE o + m - Size]

LEMMA AdvancesOne ==
  ASSUME NEW pd \in Seq(Sent), NEW held \in 0 .. Size, NEW R \in Positions, NEW v, NEW u,
         NEW rd, NEW rd1, NEW wr,
         Laid(v, pd, wr, rd, R, held), ClearFrom(v, held), rd.at = "cleared", rd1.at = "idle",
         NEW m \in Nat, m = Message(rd.n), Shifts(u, v, m)
  PROVE  /\ m \in 2 .. held /\ Tail(pd) \in Seq(Sent)
         /\ Laid(u, Tail(pd), wr, rd1, Behind(R, m), held - m) /\ ClearFrom(u, held - m)
<1>1. PICK pos : Layout(pos, pd, held) /\ Placed(pos, v, pd, wr, rd, R)
  BY Zenon DEF Laid
<1>2. PICK L \in Nat : L = Len(pd)
  BY LenProperties
<1>3. L >= 1 /\ 1 \in 1 .. L /\ rd.n = pd[1].n /\ ClearTo(v, rd.n) /\ pos[1] = 0
  BY <1>1, <1>2 DEF Placed, Reads, Layout
<1>4. rd.n \in Nat /\ m \in 2 .. held
  <2>1. pos[1] + pd[1].n + 2 <= held /\ pd[1].n \in Nat
    BY <1>1, <1>2, <1>3, LiesIn, SentAre
  <2> QED
    BY <1>3, <2>1 DEF Message
<1>5. PICK pe : pe = Tail(pd)
  OBVIOUS
<1>6. pe \in Seq(Sent) /\ Len(pe) = L - 1 /\ \A i \in 1 .. L - 1 : pe[i] = pd[i + 1]
  <2>1. pd # << >>
    BY <1>2, <1>3, EmptySeq
  <2> QED
    BY <1>2, <1>5, <2>1, HeadTailProperties
<1>7. ASSUME NEW j \in 2 .. L + 1 PROVE pos[j] \in m .. held /\ pos[j] \in Nat
  <2>1. j \in 1 .. Len(pd) + 1 /\ 1 \in 1 .. Len(pd) + 1 /\ 1 < j
    BY <1>2
  <2>2. pos[1] + Message(pd[1].n) <= pos[j] /\ pos[j] \in Nat
    BY <1>1, <2>1, Zenon DEF Layout
  <2>3. pos[j] <= held
    <3>1. CASE j = L + 1
      BY <1>1, <1>2, <3>1 DEF Layout
    <3>2. CASE j \in 1 .. L
      <4>1. pos[j] + pd[j].n + 2 <= held /\ pd[j].n \in Nat
        BY <1>1, <1>2, <3>2, LiesIn, SentAre
      <4> QED
        BY <2>2, <4>1
    <3> QED
      BY <3>1, <3>2
  <2>4. m <= pos[j]
    BY <1>3, <2>2
  <2> QED
    BY <1>4, <2>2, <2>3, <2>4
<1>8. PICK at : at = [i \in 1 .. L |-> pos[i + 1] - m]
  OBVIOUS
<1>9. \A i \in 1 .. L : at[i] = pos[i + 1] - m /\ at[i] \in Nat
  <2>1. ASSUME NEW i \in 1 .. L PROVE pos[i + 1] - m \in Nat
    <3>1. pos[i + 1] \in m .. held
      BY <1>7
    <3> QED
      BY <1>4, <3>1
  <2> QED
    BY <1>8, <2>1
<1>10. Layout(at, pe, held - m)
  <2>1. at \in [1 .. L -> Nat]
    BY <1>8, <1>9
  <2>2. at[L] = held - m
    <3>1. pos[L + 1] = held
      BY <1>1, <1>2 DEF Layout
    <3>2. at[L] = pos[L + 1] - m
      BY <1>3, <1>9
    <3> QED
      BY <3>1, <3>2
  <2>3. ASSUME NEW i \in 1 .. L, NEW j \in 1 .. L, i < j
        PROVE  at[i] + Message(pe[i].n) <= at[j]
    <3>1. i + 1 \in 1 .. Len(pd) + 1 /\ j + 1 \in 1 .. Len(pd) + 1 /\ i + 1 < j + 1
          /\ i \in 1 .. L - 1 /\ i + 1 \in 1 .. Len(pd) /\ i + 1 \in 2 .. L + 1 /\ j + 1 \in 2 .. L + 1
      BY <1>2, <2>3
    <3>2. PICK k : k = i + 1
      OBVIOUS
    <3>3. PICK l : l = j + 1
      OBVIOUS
    <3>4. pos[k] + Message(pd[k].n) <= pos[l]
      BY <1>1, <3>1, <3>2, <3>3, Zenon DEF Layout
    <3>5. PICK a \in Nat, b \in Nat, n \in Nat : a = pos[k] /\ b = pos[l] /\ n = pd[k].n
      BY <1>7, <3>1, <3>2, <3>3, SentAre
    <3>6. at[i] = a - m /\ at[j] = b - m /\ pe[i].n = n
      BY <1>6, <1>9, <3>1, <3>2, <3>3, <3>5
    <3>7. a + (n + 2) <= b
      BY <3>4, <3>5 DEF Message
    <3>8. (a - m) + (n + 2) <= b - m
      BY <1>4, <3>7
    <3> QED
      BY <3>6, <3>8, Zenon DEF Message
  <2>4. at[1] = 0
    <3>1. pos[1 + 1] = 0 + (pd[1].n + 2)
      BY <1>1, <1>2, <1>3 DEF Layout, Message
    <3>2. pos[2] = m
      BY <1>3, <1>4, <3>1 DEF Message
    <3>3. at[1] = pos[1 + 1] - m
      BY <1>3, <1>9
    <3> QED
      BY <1>4, <3>2, <3>3
  <2>5. ASSUME NEW i \in 1 .. L - 1 PROVE at[i + 1] = at[i] + Message(pe[i].n)
    <3>1. i + 1 \in 1 .. Len(pd) /\ i \in 1 .. L /\ i + 1 \in 1 .. L
          /\ i + 1 \in 2 .. L + 1 /\ i + 2 \in 2 .. L + 1 /\ (i + 1) + 1 = i + 2
      BY <1>2
    <3>2. pos[i + 2] = pos[i + 1] + (pd[i + 1].n + 2)
      BY <1>1, <3>1 DEF Layout, Message
    <3>3. PICK a \in Nat, b \in Nat, n \in Nat : a = pos[i + 1] /\ b = pos[i + 2] /\ n = pd[i + 1].n
      BY <1>7, <3>1, SentAre
    <3>4. at[i] = a - m /\ at[i + 1] = b - m /\ pe[i].n = n /\ b = a + (n + 2)
      BY <1>6, <1>9, <3>1, <3>2, <3>3
    <3>5. b - m = (a - m) + (n + 2)
      BY <3>4
    <3> QED
      BY <3>4, <3>5, Zenon DEF Message
  <2> QED
    BY <1>2, <1>6, <2>1, <2>2, <2>3, <2>4, <2>5 DEF Layout
<1>11. ASSUME NEW i \in 1 .. L - 1
       PROVE  /\ i + 1 \in 1 .. Len(pd) /\ pe[i] = pd[i + 1] /\ ~Gone(i + 1, rd)
              /\ pos[i + 1] \in Nat /\ pd[i + 1].n \in Nat
              /\ \A o \in pos[i + 1] .. pos[i + 1] + pd[i + 1].n + 1 : u[o - m] = v[o]
              /\ at[i] = pos[i + 1] - m /\ m <= pos[i + 1] /\ pos[i + 1] \in 0 .. Wrap - 1
  <2>1. i + 1 \in 1 .. Len(pd) /\ pe[i] = pd[i + 1] /\ ~Gone(i + 1, rd) /\ i + 1 \in 2 .. L + 1
        /\ i \in 1 .. L
    BY <1>2, <1>6 DEF Gone
  <2>2. PICK a \in Nat, n \in Nat : a = pos[i + 1] /\ n = pd[i + 1].n
    BY <1>7, <2>1, SentAre
  <2>3. a + n + 2 <= held /\ m <= a
    BY <1>1, <1>4, <1>7, <2>1, <2>2, LiesIn
  <2>4. ASSUME NEW o \in a .. a + n + 1 PROVE u[o - m] = v[o]
    <3>1. o - m \in 0 .. Size - 1 /\ (o - m) + m < Size /\ (o - m) + m = o
      BY <1>4, <2>3, <2>4, Sizes
    <3> QED
      BY <3>1 DEF Shifts
  <2>5. a \in 0 .. Wrap - 1
    BY <2>3, Sizes
  <2> QED
    BY <1>9, <2>1, <2>2, <2>3, <2>4, <2>5
<1>12. ASSUME NEW i \in 1 .. L - 1
       PROVE  /\ Whole(v, pos[i + 1], pd[i + 1]) => Whole(u, at[i], pe[i])
              /\ \A x : Coming(v, pos[i + 1], pd[i + 1], x, R) => Coming(u, at[i], pe[i], x, Behind(R, m))
  <2>1. PICK a \in Nat, n \in Nat : a = pos[i + 1] /\ n = pd[i + 1].n
    BY <1>11
  <2>2. PICK b : b = a - m
    OBVIOUS
  <2>3. PICK p : p = pd[i + 1]
    OBVIOUS
  <2>11. m <= a
    BY <1>11, <2>1
  <2>12. b \in Nat /\ a = b + m
    BY <2>2, <2>11
  <2>4. p.n = n /\ pe[i] = p /\ at[i] = b
    BY <1>11, <2>1, <2>2, <2>3
  <2>5. \A o \in a .. a + n + 1 : u[o - m] = v[o]
    BY <1>11, <2>1
  <2>6. u[b] = v[a] /\ u[b + 1] = v[a + 1]
    <3>1. a \in a .. a + n + 1 /\ a + 1 \in a .. a + n + 1 /\ a - m = b /\ (a + 1) - m = b + 1
      BY <2>12
    <3> QED
      BY <2>5, <3>1
  <2>7. Body(v, a, p) => Body(u, b, p)
    <3>1. SUFFICES ASSUME Body(v, a, p), NEW k \in b + 2 .. b + n + 1 PROVE u[k] = p.thread
      BY <2>4, <2>6 DEF Body
    <3>4. k + m >= a + 2 /\ k + m <= a + n + 1 /\ (k + m) - m = k
      BY <2>12
    <3>2. k + m \in a .. a + n + 1 /\ k + m \in a + 2 .. a + n + 1 /\ (k + m) - m = k
      BY <3>4
    <3>3. v[k + m] = p.thread
      BY <2>4, <3>1, <3>2 DEF Body
    <3> QED
      BY <2>5, <3>2, <3>3
  <2>8. Behind(Behind(R, m), b) = Behind(R, a)
    BY <1>4, <1>11, <2>1, <2>2, BehindShifts
  <2>9. Whole(v, a, p) => Whole(u, b, p)
    BY <2>6, <2>7 DEF Whole
  <2>10. ASSUME NEW x, Coming(v, a, p, x, R) PROVE Coming(u, b, p, x, Behind(R, m))
    BY <2>6, <2>7, <2>8, <2>10 DEF Coming
  <2> QED
    BY <2>1, <2>3, <2>4, <2>9, <2>10, Zenon
<1>13. \A i : ~Gone(i, rd1)
  BY DEF Gone
<1>14. Each(at, u, pe, wr, rd1, Behind(R, m))
  <2>1. SUFFICES ASSUME NEW i \in 1 .. Len(pe), ~Gone(i, rd1)
                 PROVE  \/ Whole(u, at[i], pe[i])
                        \/ Coming(u, at[i], pe[i], wr[pe[i].thread], Behind(R, m))
    BY Zenon DEF Each
  <2>2. i \in 1 .. L - 1
    BY <1>6
  <2>3. i + 1 \in 1 .. Len(pd) /\ pe[i] = pd[i + 1] /\ ~Gone(i + 1, rd)
    BY <1>11, <2>2
  <2>4. \/ Whole(v, pos[i + 1], pd[i + 1])
        \/ Coming(v, pos[i + 1], pd[i + 1], wr[pd[i + 1].thread], R)
    BY <1>1, <2>3, Zenon DEF Placed, Each
  <2> QED
    BY <1>12, <2>2, <2>3, <2>4, Zenon
<1>15. Owned(at, u, pe, wr, rd1, Behind(R, m))
  <2>1. SUFFICES ASSUME NEW s \in Threads, wr[s].at \in {"claimed", "filled"}
                 PROVE  \E i \in 1 .. Len(pe) : /\ pe[i].thread = s /\ ~Gone(i, rd1)
                                                /\ Coming(u, at[i], pe[i], wr[s], Behind(R, m))
    BY Zenon DEF Owned
  <2>2. PICK j \in 1 .. Len(pd) : /\ pd[j].thread = s /\ ~Gone(j, rd)
                                 /\ Coming(v, pos[j], pd[j], wr[s], R)
    BY <1>1, <2>1, Zenon DEF Placed, Owned
  <2>3. j # 1
    BY <2>2 DEF Gone
  <2>4. PICK i \in 1 .. L - 1 : j = i + 1
    <3>1. j - 1 \in 1 .. L - 1 /\ j = (j - 1) + 1
      BY <1>2, <2>3
    <3> QED
      BY <3>1
  <2>5. i \in 1 .. Len(pe) /\ pe[i] = pd[j]
    BY <1>6, <2>4
  <2>6. Coming(v, pos[i + 1], pd[i + 1], wr[s], R)
    BY <2>2, <2>4, Zenon
  <2>7. Coming(u, at[i], pe[i], wr[s], Behind(R, m))
    BY <1>12, <2>6, Zenon
  <2> QED
    BY <1>13, <2>2, <2>5, <2>7, Zenon
<1>16. Reads(u, pe, rd1)
  BY DEF Reads
<1>17. ClearFrom(u, held - m)
  <2>1. SUFFICES ASSUME NEW o \in held - m .. Size - 1 PROVE u[o] = NotReady
    BY DEF ClearFrom
  <2>2. o \in 0 .. Size - 1
    BY <1>4, Sizes
  <2>3. CASE o + m < Size
    <3>1. o + m \in held .. Size - 1
      BY <1>4, <2>2, <2>3, Sizes
    <3>2. u[o] = v[o + m]
      BY <2>2, <2>3 DEF Shifts
    <3> QED
      BY <3>1, <3>2 DEF ClearFrom
  <2>4. CASE ~(o + m < Size)
    <3>3. o + m - Size \in 0 .. m - 1
      BY <2>2, <2>4, Sizes
    <3>1. o + m - Size \in 0 .. rd.n + 1
      BY <1>4, <3>3 DEF Message
    <3>2. u[o] = v[o + m - Size]
      BY <2>2, <2>4 DEF Shifts
    <3> QED
      BY <1>3, <3>1, <3>2 DEF ClearTo
  <2> QED
    BY <2>3, <2>4
<1>18. Laid(u, pe, wr, rd1, Behind(R, m), held - m)
  BY <1>10, <1>14, <1>15, <1>16, Zenon DEF Laid, Placed
<1> QED
  BY <1>4, <1>5, <1>6, <1>17, <1>18
-----------------------------------------------------------------------------
(* The steps keep the invariant.                                           *)

LEMMA ViewIn ==
  ASSUME NEW d \in [0 .. Size - 1 -> Nat], NEW R \in Positions, NEW o \in 0 .. Size - 1
  PROVE  /\ R % Size \in 0 .. Size - 1
         /\ ViewOf(d, R % Size)[o] = d[Slot(R % Size, o)]
         /\ ViewOf(d, R % Size)[o] \in Nat
<1>1. R \in Nat /\ 0 \in 0 .. Size
  BY Sizes DEF Positions
<1>2. PICK s \in 0 .. Size - 1 : s = R % Size
  BY <1>1, SlotIs
<1>3. Slot(s, o) \in 0 .. Size - 1
  BY SlotIn
<1>4. ViewOf(d, s)[o] = d[Slot(s, o)]
  BY DEF ViewOf
<1> QED
  BY <1>2, <1>3, <1>4

\* How a thread's record may be.
LEMMA WriterIs ==
  ASSUME NEW wr \in [Threads -> Writers], NEW t \in Threads
  PROVE  /\ wr[t] \in Writers
         /\ wr[t].at # "idle" => wr[t].n \in Payloads /\ wr[t].n \in Nat
                                 /\ wr[t].r \in Positions /\ wr[t].w \in Positions
<1>1. wr[t] \in Writers
  OBVIOUS
<1>2. CASE wr[t] = Idle
  BY <1>1, <1>2 DEF Idle
<1>3. CASE wr[t] # Idle
  BY <1>1, <1>3, Sizes DEF Writers
<1> QED
  BY <1>1, <1>2, <1>3

\* A thread t moves, and nothing else does.
Moves(wr, wr1, t, x) == wr1 = [wr EXCEPT ![t] = x]

LEMMA MovesOne ==
  ASSUME NEW wr \in [Threads -> Writers], NEW t \in Threads, NEW x \in Writers, NEW wr1,
         Moves(wr, wr1, t, x)
  PROVE  /\ wr1 \in [Threads -> Writers] /\ wr1[t] = x
         /\ \A s \in Threads \ {t} : wr1[s] = wr[s]
BY DEF Moves

\* Steps of a thread that claims nothing.
LEMMA RingBesides ==
  ASSUME NEW d, NEW R, NEW W, NEW wr, NEW wr1, NEW rd, NEW pd,
         Ring(d, R, W, wr, rd, pd), NEW t \in Threads, NEW x \in Writers, Moves(wr, wr1, t, x),
         Besides(wr, wr1, t),
         x.at \in {"asking", "claiming"} => Span(x.r, W) >= Span(R, W),
         x.at = "claiming" => Span(x.r, x.w) <= Size - Message(x.n)
  PROVE  Ring(d, R, W, wr1, rd, pd)
<1>1. RingType(d, R, W, wr, rd, pd) /\ wr \in [Threads -> Writers] /\ pd \in Seq(Sent)
  BY DEF Ring, RingType
<1>2. wr1 \in [Threads -> Writers] /\ wr1[t] = x /\ \A s \in Threads \ {t} : wr1[s] = wr[s]
  BY <1>1, MovesOne
<1>3. RingType(d, R, W, wr1, rd, pd)
  BY <1>1, <1>2, Zenon DEF RingType
<1>4. Asks(wr1, R, W)
  <2>1. SUFFICES ASSUME NEW s \in Threads
                 PROVE  /\ wr1[s].at \in {"asking", "claiming"} => Span(wr1[s].r, W) >= Span(R, W)
                        /\ wr1[s].at = "claiming"
                             => Span(wr1[s].r, wr1[s].w) <= Size - Message(wr1[s].n)
    BY Zenon DEF Asks
  <2>2. CASE s = t
    BY <1>2, <2>2
  <2>3. CASE s # t
    <3>1. wr1[s] = wr[s]
      BY <1>2, <2>3
    <3> QED
      BY <3>1, Zenon DEF Ring, Asks
  <2> QED
    BY <2>2, <2>3
<1>5. Laid(ViewOf(d, R % Size), pd, wr1, rd, R, Span(R, W))
  <2>1. PICK v, held : v = ViewOf(d, R % Size) /\ held = Span(R, W)
    OBVIOUS
  <2>2. PICK pos : Layout(pos, pd, held) /\ Placed(pos, v, pd, wr, rd, R)
    BY <2>1, Zenon DEF Ring, Laid
  <2>3. Placed(pos, v, pd, wr1, rd, R)
    BY <1>1, <2>2, StepsBesides
  <2> QED
    BY <2>1, <2>2, <2>3, Zenon DEF Laid
<1> QED
  BY <1>3, <1>4, <1>5, Zenon DEF Ring

LEMMA RingTypes ==
  ASSUME QueueInv
  PROVE  /\ data \in [0 .. Size - 1 -> Nat] /\ readPos \in Positions /\ writePos \in Positions
         /\ writer \in [Threads -> Writers] /\ pending \in Seq(Sent) /\ reader.n \in Nat
         /\ Span(readPos, writePos) \in 0 .. Size
<1>1. RingType(data, readPos, writePos, writer, reader, pending)
  BY DEF QueueInv, Ring
<1>2. readPos \in Positions /\ writePos \in Positions
  BY <1>1 DEF RingType
<1>3. Span(readPos, writePos) \in 0 .. Wrap - 1
  BY <1>2, SpanIn DEF Positions
<1>4. Span(readPos, writePos) <= Size
  BY Zenon DEF QueueInv, Ring
<1>5. Span(readPos, writePos) \in 0 .. Size
  BY <1>3, <1>4, Sizes
<1> QED
  BY <1>1, <1>5 DEF RingType

LEMMA AskStep ==
  ASSUME QueueInv, NEW t \in Threads, NEW n \in Payloads, Ask(t, n)
  PROVE  QueueInv'
<1>1. readPos \in Positions /\ writer \in [Threads -> Writers] /\ Span(readPos, writePos) \in Int
  BY RingTypes
<1>2. PICK x : x = [at |-> "asking", n |-> n, r |-> readPos, w |-> 0]
  OBVIOUS
<1>3. 0 \in Positions
  BY Sizes DEF Positions
<1>4. x \in Writers /\ x.at = "asking" /\ x.r = readPos
  BY <1>1, <1>2, <1>3 DEF Writers
<1>5. Moves(writer, writer', t, x) /\ writer[t].at = "idle"
  BY <1>2, Zenon DEF Ask, Moves
<1>6. Besides(writer, writer', t)
  BY <1>1, <1>4, <1>5, MovesOne DEF Besides
<1>7. Span(x.r, writePos) >= Span(readPos, writePos)
  BY <1>1, <1>4
<1>8. Ring(data, readPos, writePos, writer', reader, pending)
  BY <1>4, <1>5, <1>6, <1>7, RingBesides DEF QueueInv
<1> QED
  BY <1>8 DEF QueueInv, Ask

\* A thread that drops its message, or was never to write one.
LEMMA DropStep ==
  ASSUME QueueInv, NEW t \in Threads, writer[t].at \notin {"claimed", "filled"},
         writer' = [writer EXCEPT ![t] = Idle],
         UNCHANGED <<data, readPos, writePos, reader, pending>>
  PROVE  QueueInv'
<1>1. writer \in [Threads -> Writers]
  BY RingTypes
<1>2. Idle \in Writers /\ Idle.at = "idle"
  BY DEF Idle, Writers
<1>3. Moves(writer, writer', t, Idle)
  BY DEF Moves
<1>4. Besides(writer, writer', t)
  BY <1>1, <1>2, <1>3, MovesOne DEF Besides
<1>5. Ring(data, readPos, writePos, writer', reader, pending)
  BY <1>2, <1>3, <1>4, RingBesides DEF QueueInv
<1> QED
  BY <1>5 DEF QueueInv

\* What a thread that asks or claims knows of the room there is.
LEMMA AskerKnows ==
  ASSUME QueueInv, Prompt, NEW t \in Threads, writer[t].at \in {"asking", "claiming"}
  PROVE  /\ writer[t].n \in Payloads /\ writer[t].n \in Nat /\ writer[t].r \in Positions
         /\ Span(writer[t].r, writePos) \in 0 .. Wrap - 1
         /\ Span(writer[t].r, writePos) < Wrap \div 2
         /\ Span(readPos, writePos) <= Span(writer[t].r, writePos)
         /\ writer[t].at = "claiming"
              => Span(writer[t].r, writer[t].w) <= Size - Message(writer[t].n)
<1>1. writer \in [Threads -> Writers] /\ writePos \in Positions
      /\ Span(readPos, writePos) \in Int
  BY RingTypes
<1>2. writer[t].n \in Payloads /\ writer[t].n \in Nat /\ writer[t].r \in Positions
  BY <1>1, WriterIs
<1>3. Span(writer[t].r, writePos) \in 0 .. Wrap - 1
  BY <1>1, <1>2, SpanIn DEF Positions
<1>4. Span(writer[t].r, writePos) < Wrap \div 2
  BY Zenon DEF Prompt, Span
<1>5. Asks(writer, readPos, writePos)
  BY Zenon DEF QueueInv, Ring
<1>6. /\ Span(writer[t].r, writePos) >= Span(readPos, writePos)
      /\ writer[t].at = "claiming" => Span(writer[t].r, writer[t].w) <= Size - Message(writer[t].n)
  BY <1>5, Zenon DEF Asks
<1> QED
  BY <1>1, <1>2, <1>3, <1>4, <1>6

LEMMA LoadStep ==
  ASSUME QueueInv, Prompt, NEW t \in Threads, Load(t)
  PROVE  QueueInv'
<1>1. writer \in [Threads -> Writers] /\ writePos \in Positions /\ readPos \in Positions
  BY RingTypes
<1>2. CASE ~Fits(t)
  <2>1. writer' = [writer EXCEPT ![t] = Idle] /\ writer[t].at \notin {"claimed", "filled"}
        /\ UNCHANGED <<data, readPos, writePos, reader, pending>>
    BY <1>2 DEF Load
  <2> QED
    BY <2>1, DropStep
<1>3. CASE Fits(t)
  <2>1. writer[t].at = "asking"
    BY DEF Load
  <2>2. PICK y : y = writer[t]
    OBVIOUS
  <2>3. y.n \in Payloads /\ y.r \in Positions /\ y \in Writers /\ y # Idle /\ y.at = "asking"
    BY <1>1, <2>1, <2>2, WriterIs DEF Idle
  <2>4. PICK x : x = [y EXCEPT !.at = "claiming", !.w = writePos]
    OBVIOUS
  <2>5. x \in Writers /\ x.at = "claiming" /\ x.w = writePos /\ x.r = y.r /\ x.n = y.n
    BY <1>1, <2>3, <2>4 DEF Writers
  <2>6. writer' = [writer EXCEPT ![t] = x]
    BY <1>1, <1>3, <2>2, <2>4 DEF Load
  <2>7. Moves(writer, writer', t, x)
    BY <2>6 DEF Moves
  <2>8. Besides(writer, writer', t)
    BY <1>1, <2>1, <2>5, <2>7, MovesOne DEF Besides
  <2>9. Span(x.r, writePos) >= Span(readPos, writePos)
    BY <2>1, <2>2, <2>5, AskerKnows
  <2>10. Span(x.r, x.w) <= Size - Message(x.n)
    <3>1. Span(y.r, writePos) < Wrap \div 2
      BY <2>1, <2>2, AskerKnows
    <3>2. Signed(writePos - y.r) = Span(y.r, writePos)
      BY <3>1 DEF Signed, Span
    <3>3. Signed(writePos - y.r) <= Size - Message(y.n)
      BY <1>3, <2>2 DEF Fits
    <3> QED
      BY <2>5, <3>2, <3>3
  <2>11. Ring(data, readPos, writePos, writer', reader, pending)
    BY <2>5, <2>7, <2>8, <2>9, <2>10, RingBesides DEF QueueInv
  <2> QED
    BY <2>11 DEF QueueInv, Load
<1> QED
  BY <1>2, <1>3

LEMMA LostStep ==
  ASSUME QueueInv, Prompt, NEW t \in Threads, Claim(t), ~Unmoved(t)
  PROVE  QueueInv'
<1>1. readPos \in Positions /\ writer \in [Threads -> Writers] /\ Span(readPos, writePos) \in Int
  BY RingTypes
<1>2. writer[t].at = "claiming" /\ writer[t].n \in Payloads
  BY AskerKnows DEF Claim
<1>3. PICK y : y = writer[t]
  OBVIOUS
<1>4. PICK x : x = [at |-> "asking", n |-> y.n, r |-> readPos, w |-> 0]
  OBVIOUS
<1>5. 0 \in Positions
  BY Sizes DEF Positions
<1>6. x \in Writers /\ x.at = "asking" /\ x.r = readPos
  BY <1>1, <1>2, <1>3, <1>4, <1>5 DEF Writers
<1>7. writer' = [writer EXCEPT ![t] = x]
  BY <1>1, <1>3, <1>4 DEF Claim
<1>8. Moves(writer, writer', t, x)
  BY <1>7 DEF Moves
<1>9. Besides(writer, writer', t)
  BY <1>1, <1>2, <1>6, <1>8, MovesOne DEF Besides
<1>10. Span(x.r, writePos) >= Span(readPos, writePos)
  BY <1>1, <1>6
<1>11. Ring(data, readPos, writePos, writer', reader, pending)
  BY <1>6, <1>8, <1>9, <1>10, RingBesides DEF QueueInv
<1> QED
  BY <1>11 DEF QueueInv, Claim

\* The position moves on: what the others know of the room stays true.
LEMMA WonStep ==
  ASSUME QueueInv, Prompt, NEW t \in Threads, Claim(t), Unmoved(t)
  PROVE  QueueInv'
<1>1. PICK R, W, held : R = readPos /\ W = writePos /\ held = Span(readPos, writePos)
  OBVIOUS
<1>2. R \in Positions /\ W \in Positions /\ held \in 0 .. Size /\ writer \in [Threads -> Writers]
      /\ pending \in Seq(Sent)
  BY <1>1, RingTypes
<1>3. PICK y : y = writer[t]
  OBVIOUS
<1>4. y.at = "claiming" /\ y.n \in Payloads /\ y.n \in Nat /\ y.r \in Positions /\ y.w = W
  BY <1>1, <1>3, AskerKnows DEF Claim, Unmoved
<1>5. PICK n \in Nat : n = y.n
  BY <1>4
<1>6. held + n + 2 <= Size
  <2>1. held <= Span(y.r, W) /\ Span(y.r, W) \in 0 .. Wrap - 1
    BY <1>1, <1>3, <1>4, AskerKnows
  <2>2. Span(y.r, W) <= Size - (n + 2)
    BY <1>3, <1>4, <1>5, AskerKnows DEF Message
  <2> QED
    BY <1>2, <2>1, <2>2, Sizes
<1>7. PICK x : x = [y EXCEPT !.at = "claimed"]
  OBVIOUS
<1>8. x \in Writers /\ x.at = "claimed" /\ x.n = n /\ x.w = W /\ y \in Writers /\ y # Idle
  <2>1. y \in Writers /\ y # Idle
    BY <1>2, <1>3, <1>4, WriterIs DEF Idle
  <2> QED
    BY <1>4, <1>5, <1>7, <2>1 DEF Writers
<1>9. writer' = [writer EXCEPT ![t] = x]
  BY <1>2, <1>3, <1>7 DEF Claim
<1>10. writer' \in [Threads -> Writers] /\ writer'[t] = x
       /\ \A s \in Threads \ {t} : writer'[s] = writer[s]
  BY <1>2, <1>8, <1>9, MovesOne DEF Moves
<1>11. PICK V : V = Behind(W, n + 2)
  OBVIOUS
<1>12. writePos' = V
  BY <1>1, <1>3, <1>5, <1>11 DEF Claim, Message, Behind
<1>13. V \in Positions /\ Span(R, V) = held + n + 2
  <2>1. n + 2 \in Nat /\ held + (n + 2) < Wrap /\ held + (n + 2) = held + n + 2
    BY <1>2, <1>6, Sizes
  <2> QED
    BY <1>1, <1>2, <1>11, <2>1, SpanGrows
<1>14. PICK m : m = [thread |-> t, n |-> n]
  OBVIOUS
<1>15. m \in Sent /\ m.thread = t /\ m.n = n
  BY <1>4, <1>5, <1>14 DEF Sent
<1>16. pending' = Append(pending, m) /\ pending' \in Seq(Sent)
  <2>1. pending' = Append(pending, m)
    BY <1>3, <1>5, <1>14 DEF Claim
  <2>2. Append(pending, m) \in Seq(Sent)
    BY <1>2, <1>15, AppendProperties
  <2> QED
    BY <2>1, <2>2
<1>17. UNCHANGED <<data, readPos, reader>>
  BY DEF Claim
<1>18. RingType(data, R, V, writer', reader, pending')
  BY <1>1, <1>2, <1>10, <1>13, <1>16, Zenon DEF QueueInv, Ring, RingType
<1>19. PICK v : v = ViewOf(data, R % Size)
  OBVIOUS
<1>20. ClearFrom(v, held) /\ Laid(v, pending, writer, reader, R, held)
  BY <1>1, <1>19, Zenon DEF QueueInv, Ring
<1>21. ClearFrom(v, held + n + 2)
  <2>1. \A o \in held + n + 2 .. Size - 1 : o \in held .. Size - 1
    BY <1>2, Sizes
  <2> QED
    BY <1>20, <2>1, Zenon DEF ClearFrom
<1>22. Laid(v, pending', writer', reader, R, held + n + 2)
  <2>1. Behind(R, held) = W
    BY <1>1, <1>2, SpanIn
  <2>2. writer[t].at \notin {"claimed", "filled"}
    BY <1>3, <1>4
  <2>3. writer'[t].at = "claimed" /\ writer'[t].n = m.n /\ writer'[t].w = Behind(R, held)
    BY <1>8, <1>10, <1>15, <2>1
  <2>4. held + m.n + 2 <= Size
    BY <1>6, <1>15
  <2>5. Laid(v, Append(pending, m), writer', reader, R, held + m.n + 2)
    BY <1>2, <1>10, <1>15, <1>20, <2>2, <2>3, <2>4, ClaimsOne
  <2> QED
    BY <1>15, <1>16, <2>5
<1>23. Asks(writer', R, V)
  <2>1. SUFFICES ASSUME NEW s \in Threads
                 PROVE  /\ writer'[s].at \in {"asking", "claiming"}
                             => Span(writer'[s].r, V) >= Span(R, V)
                        /\ writer'[s].at = "claiming"
                             => Span(writer'[s].r, writer'[s].w) <= Size - Message(writer'[s].n)
    BY Zenon DEF Asks
  <2>2. CASE s = t
    BY <1>8, <1>10, <2>2
  <2>3. CASE s # t /\ writer[s].at \in {"asking", "claiming"}
    <3>1. writer'[s] = writer[s]
      BY <1>10, <2>3
    <3>2. PICK r \in Positions : r = writer[s].r
      BY <2>3, AskerKnows
    <3>3. Span(r, W) \in 0 .. Wrap - 1 /\ Span(r, W) < Wrap \div 2 /\ held <= Span(r, W)
      BY <1>1, <2>3, <3>2, AskerKnows
    <3>4. n + 2 \in Nat /\ Span(r, W) + (n + 2) < Wrap
      <4>1. PICK h \in Int : h = Wrap \div 2
        BY Sizes
      <4>2. 2 * h <= Wrap
        BY <4>1, Sizes
      <4>3. Span(r, W) < h
        BY <3>3, <4>1
      <4> QED
        BY <1>2, <1>6, <3>3, <4>2, <4>3, Sizes
    <3>5. Span(r, V) = Span(r, W) + (n + 2)
      BY <1>2, <1>11, <3>4, SpanGrows
    <3>6. Span(r, V) >= Span(R, V)
      BY <1>2, <1>13, <3>3, <3>5
    <3>7. writer[s].at = "claiming" => Span(writer[s].r, writer[s].w) <= Size - Message(writer[s].n)
      BY <2>3, AskerKnows
    <3> QED
      BY <3>1, <3>2, <3>6, <3>7
  <2>4. CASE s # t /\ writer[s].at \notin {"asking", "claiming"}
    <3>1. writer'[s] = writer[s]
      BY <1>10, <2>4
    <3> QED
      BY <2>4, <3>1
  <2> QED
    BY <2>2, <2>3, <2>4
<1>24. Ring(data, R, V, writer', reader, pending')
  BY <1>6, <1>13, <1>18, <1>19, <1>21, <1>22, <1>23 DEF Ring
<1> QED
  BY <1>1, <1>12, <1>17, <1>24 DEF QueueInv

\* The message i a thread t is about to write, in the view v.
Writes(t, i, pos, v, held) ==
  /\ i \in 1 .. Len(pending) /\ pending[i].thread = t /\ ~Gone(i, reader)
  /\ Layout(pos, pending, held) /\ Placed(pos, v, pending, writer, reader, readPos)
  /\ Coming(v, pos[i], pending[i], writer[t], readPos)

LEMMA WriterHasAMessage ==
  ASSUME QueueInv, NEW t \in Threads, writer[t].at \in {"claimed", "filled"},
         NEW v, v = ViewOf(data, readPos % Size), NEW held, held = Span(readPos, writePos)
  PROVE  \E pos, i : Writes(t, i, pos, v, held)
<1>1. PICK pos : Layout(pos, pending, held) /\ Placed(pos, v, pending, writer, reader, readPos)
  BY Zenon DEF QueueInv, Ring, Laid
<1>2. PICK i \in 1 .. Len(pending) :
        pending[i].thread = t /\ ~Gone(i, reader) /\ Coming(v, pos[i], pending[i], writer[t], readPos)
  BY <1>1, Zenon DEF Placed, Owned
<1> QED
  BY <1>1, <1>2, Zenon DEF Writes

LEMMA MessageLies ==
  ASSUME QueueInv, NEW t \in Threads, NEW i, NEW pos, NEW v,
         Writes(t, i, pos, v, Span(readPos, writePos))
  PROVE  /\ pos[i] \in Nat /\ pending[i].n \in Nat
         /\ pos[i] + pending[i].n + 2 <= Span(readPos, writePos)
         /\ writer[t].n = pending[i].n
         /\ LiesAt(writer[t].w, readPos % Size, pos[i], pending[i].n)
<1>1. readPos \in Positions /\ pending \in Seq(Sent) /\ Span(readPos, writePos) \in 0 .. Size
  BY RingTypes
<1>2. i \in 1 .. Len(pending) /\ Layout(pos, pending, Span(readPos, writePos))
      /\ writer[t].w = Behind(readPos, pos[i]) /\ writer[t].n = pending[i].n
  BY DEF Writes, Coming
<1>3. /\ pos[i] \in Nat /\ pending[i].n \in Nat
      /\ pos[i] + pending[i].n + 2 <= Span(readPos, writePos)
  BY <1>1, <1>2, LiesIn, SentAre
<1>4. ASSUME NEW k \in 0 .. pending[i].n + 1
      PROVE  Cell(writer[t].w, k) = Slot(readPos % Size, pos[i] + k)
  <2>1. k \in Nat /\ pos[i] + k < Size /\ pos[i] \in 0 .. Size - 1
    BY <1>1, <1>3, Sizes
  <2> QED
    BY <1>1, <1>2, <2>1, CellIs DEF Behind, Positions
<1> QED
  BY <1>2, <1>3, <1>4 DEF LiesAt

\* A thread writes its message, or a part of it.
LEMMA RingWritten ==
  ASSUME QueueInv, NEW t \in Threads, NEW i, NEW pos, NEW v, NEW e, NEW x \in Writers, NEW u,
         v = ViewOf(data, readPos % Size), u = ViewOf(e, readPos % Size),
         Writes(t, i, pos, v, Span(readPos, writePos)),
         e \in [0 .. Size - 1 -> Nat], Moves(writer, writer', t, x), x.at \in {"idle", "filled"},
         Wrote(v, u, pos[i], pending[i], writer, writer', readPos)
  PROVE  Ring(e, readPos, writePos, writer', reader, pending)
<1>1. PICK R, W, held : R = readPos /\ W = writePos /\ held = Span(readPos, writePos)
  OBVIOUS
<1>2. R \in Positions /\ W \in Positions /\ held \in 0 .. Size /\ writer \in [Threads -> Writers]
      /\ pending \in Seq(Sent) /\ held <= Size
  BY <1>1, RingTypes, Sizes
<1>3. writer' \in [Threads -> Writers] /\ writer'[t] = x
      /\ \A s \in Threads \ {t} : writer'[s] = writer[s]
  BY <1>2, MovesOne
<1>4. RingType(e, R, W, writer', reader, pending)
  BY <1>1, <1>3, Zenon DEF QueueInv, Ring, RingType
<1>5. ClearFrom(v, held) /\ Asks(writer, R, W)
  BY <1>1, Zenon DEF QueueInv, Ring
<1>6. ClearFrom(u, held)
  <2>1. SUFFICES ASSUME NEW o \in held .. Size - 1 PROVE u[o] = NotReady
    BY DEF ClearFrom
  <2>2. pos[i] \in Nat /\ pending[i].n \in Nat /\ pos[i] + pending[i].n + 2 <= held
    BY <1>1, MessageLies
  <2>3. o \in 0 .. Size - 1 /\ o \notin pos[i] .. pos[i] + pending[i].n + 1
    BY <1>2, <2>1, <2>2, Sizes
  <2>4. u[o] = v[o]
    BY <2>3, Zenon DEF Wrote
  <2> QED
    BY <1>5, <2>4, Zenon DEF ClearFrom
<1>7. Asks(writer', R, W)
  <2>1. SUFFICES ASSUME NEW s \in Threads
                 PROVE  /\ writer'[s].at \in {"asking", "claiming"}
                             => Span(writer'[s].r, W) >= Span(R, W)
                        /\ writer'[s].at = "claiming"
                             => Span(writer'[s].r, writer'[s].w) <= Size - Message(writer'[s].n)
    BY Zenon DEF Asks
  <2>2. CASE s = t
    BY <1>3, <2>2
  <2>3. CASE s # t
    <3>1. writer'[s] = writer[s]
      BY <1>3, <2>3
    <3> QED
      BY <1>5, <3>1, Zenon DEF Asks
  <2> QED
    BY <2>2, <2>3
<1>8. Placed(pos, u, pending, writer', reader, R)
  <2>1. Layout(pos, pending, held) /\ Placed(pos, v, pending, writer, reader, R)
        /\ i \in 1 .. Len(pending) /\ ~Gone(i, reader)
    BY <1>1, Zenon DEF Writes
  <2> QED
    BY <1>1, <1>2, <2>1, WritesOne
<1>9. Laid(u, pending, writer', reader, R, held)
  BY <1>1, <1>8, Zenon DEF Writes, Laid
<1> QED
  BY <1>1, <1>2, <1>4, <1>6, <1>7, <1>9, Zenon DEF Ring

LEMMA FillStep ==
  ASSUME QueueInv, NEW t \in Threads, Fill(t)
  PROVE  QueueInv'
<1>1. PICK v, held : v = ViewOf(data, readPos % Size) /\ held = Span(readPos, writePos)
  OBVIOUS
<1>2. data \in [0 .. Size - 1 -> Nat] /\ readPos \in Positions /\ held \in 0 .. Size
      /\ writer \in [Threads -> Writers] /\ pending \in Seq(Sent)
  BY <1>1, RingTypes
<1>3. writer[t].at = "claimed"
  BY DEF Fill
<1>4. PICK pos, i : Writes(t, i, pos, v, held)
  BY <1>1, <1>3, WriterHasAMessage
<1>5. PICK p, w : p = pending[i] /\ w = writer[t].w
  OBVIOUS
<1>6. PICK a, n : a = pos[i] /\ n = p.n
  OBVIOUS
<1>7. a \in Nat /\ n \in Nat /\ a + n + 2 <= held /\ writer[t].n = n
      /\ LiesAt(w, readPos % Size, a, n)
  BY <1>1, <1>4, <1>5, <1>6, MessageLies
<1>8. PICK e : Fills(e, data, w, n, n, t)
  BY DEF Fills
<1>9. data' = e
  BY <1>5, <1>7, <1>8 DEF Fill, Fills
<1>10. e \in [0 .. Size - 1 -> Nat]
  <2>1. t \in Nat
    BY MessageQueueAssumption
  <2> QED
    BY <1>2, <1>7, <1>8, <2>1 DEF Fills
<1>11. PICK x : x = [writer[t] EXCEPT !.at = "filled"]
  OBVIOUS
<1>12. x \in Writers /\ x.at = "filled" /\ x.n = n /\ x.w = w
  <2>1. PICK y : y = writer[t]
    OBVIOUS
  <2>2. y \in Writers /\ y # Idle
    BY <1>2, <1>3, <2>1, WriterIs DEF Idle
  <2> QED
    BY <1>5, <1>7, <1>11, <2>1, <2>2 DEF Writers
<1>13. Moves(writer, writer', t, x)
  BY <1>2, <1>11 DEF Fill, Moves
<1>14. writer'[t] = x /\ \A s \in Threads \ {t} : writer'[s] = writer[s]
  BY <1>2, <1>12, <1>13, MovesOne
<1>15. PICK u : u = ViewOf(e, readPos % Size)
  OBVIOUS
<1>16. ASSUME NEW o \in 0 .. Size - 1
       PROVE  u[o] = IF o = a + 1 THEN n ELSE IF o \in a + 2 .. a + n + 1 THEN t ELSE v[o]
  <2>1. PICK s : s = readPos % Size
    OBVIOUS
  <2>2. s \in 0 .. Size - 1 /\ v[o] = data[Slot(s, o)] /\ u[o] = e[Slot(s, o)]
    BY <1>1, <1>2, <1>10, <1>15, <2>1, ViewIn
  <2>3. a + n + 2 <= Size
    BY <1>2, <1>7, Sizes
  <2>4. a \in Nat /\ n \in Nat /\ LiesAt(w, s, a, n)
    BY <1>7, <2>1
  <2>5. data \in [0 .. Size - 1 -> Nat]
    BY <1>2
  <2>6. FilledAt(e, data, s, a, n, n, t, o)
    BY <1>8, <2>2, <2>3, <2>4, <2>5, FilledView
  <2> QED
    BY <2>2, <2>6, Zenon DEF FilledAt
<1>17. Coming(v, a, p, writer[t], readPos) /\ p.thread = t
  BY <1>4, <1>5, <1>6, Zenon DEF Writes
<1>18. Wrote(v, u, a, p, writer, writer', readPos)
  <2>1. ASSUME NEW o \in 0 .. Size - 1, o \notin a .. a + n + 1 PROVE u[o] = v[o]
    <3>1. o # a + 1 /\ o \notin a + 2 .. a + n + 1
      BY <1>7, <2>1
    <3> QED
      BY <1>16, <3>1
  <2>2. u[a] = v[a]
    <3>1. a \in 0 .. Size - 1 /\ a # a + 1 /\ a \notin a + 2 .. a + n + 1
      BY <1>2, <1>7, Sizes
    <3> QED
      BY <1>16, <3>1
  <2>3. Body(u, a, p)
    <3>1. u[a + 1] = n
      <4>1. a + 1 \in 0 .. Size - 1
        BY <1>2, <1>7, Sizes
      <4> QED
        BY <1>16, <4>1
    <3>2. ASSUME NEW k \in a + 2 .. a + n + 1 PROVE u[k] = t
      <4>1. k \in 0 .. Size - 1 /\ k # a + 1
        BY <1>2, <1>7, Sizes
      <4> QED
        BY <1>16, <4>1
    <3> QED
      BY <1>6, <1>17, <3>1, <3>2 DEF Body
  <2>4. Coming(u, a, p, x, readPos)
    <3>1. v[a] = NotReady /\ writer[t].w = Behind(readPos, a) /\ writer[t].n = p.n
      BY <1>17 DEF Coming
    <3> QED
      BY <1>5, <1>6, <1>12, <2>2, <2>3, <3>1 DEF Coming
  <2> QED
    BY <1>6, <1>14, <1>17, <2>1, <2>4 DEF Wrote
<1>19. Ring(e, readPos, writePos, writer', reader, pending)
  BY <1>1, <1>4, <1>5, <1>6, <1>10, <1>12, <1>13, <1>15, <1>18, RingWritten
<1> QED
  BY <1>9, <1>19 DEF QueueInv, Fill

LEMMA CommitStep ==
  ASSUME QueueInv, NEW t \in Threads, CommitMessage(t)
  PROVE  QueueInv'
<1>1. PICK v, held, s : v = ViewOf(data, readPos % Size) /\ held = Span(readPos, writePos)
                        /\ s = readPos % Size
  OBVIOUS
<1>2. data \in [0 .. Size - 1 -> Nat] /\ readPos \in Positions /\ held \in 0 .. Size
      /\ writer \in [Threads -> Writers] /\ pending \in Seq(Sent)
  BY <1>1, RingTypes
<1>3. writer[t].at = "filled"
  BY DEF CommitMessage
<1>4. PICK pos, i : Writes(t, i, pos, v, held)
  BY <1>1, <1>3, WriterHasAMessage
<1>5. PICK p, w : p = pending[i] /\ w = writer[t].w
  OBVIOUS
<1>6. PICK a, n : a = pos[i] /\ n = p.n
  OBVIOUS
<1>7. a \in Nat /\ n \in Nat /\ a + n + 2 <= held /\ LiesAt(w, s, a, n)
  BY <1>1, <1>4, <1>5, <1>6, MessageLies
<1>8. a \in 0 .. Size - 1 /\ s \in 0 .. Size - 1
  <2>1. a \in 0 .. Size - 1
    BY <1>2, <1>7, Sizes
  <2> QED
    BY <1>1, <1>2, <2>1, ViewIn
<1>9. Cell(w, 0) = Slot(s, a) /\ Slot(s, a) \in 0 .. Size - 1
  <2>1. 0 \in 0 .. n + 1 /\ a + 0 = a
    BY <1>7
  <2> QED
    BY <1>7, <1>8, <2>1, SlotIn DEF LiesAt
<1>10. PICK e : e = [data EXCEPT ![Slot(s, a)] = Ready]
  OBVIOUS
<1>11. data' = e /\ e \in [0 .. Size - 1 -> Nat]
  BY <1>2, <1>5, <1>9, <1>10 DEF CommitMessage, Ready
<1>12. Moves(writer, writer', t, Idle) /\ Idle \in Writers /\ Idle.at = "idle"
  BY DEF CommitMessage, Moves, Writers, Idle
<1>13. writer'[t] = Idle /\ \A r \in Threads \ {t} : writer'[r] = writer[r]
  BY <1>2, <1>12, MovesOne
<1>14. PICK u : u = ViewOf(e, s)
  OBVIOUS
<1>15. ASSUME NEW o \in 0 .. Size - 1 PROVE u[o] = IF o = a THEN Ready ELSE v[o]
  <2>1. v[o] = data[Slot(s, o)] /\ u[o] = e[Slot(s, o)]
    BY <1>1, <1>2, <1>11, <1>14, ViewIn
  <2>2. Slot(s, o) \in 0 .. Size - 1 /\ (Slot(s, o) = Slot(s, a) <=> o = a)
    BY <1>8, SlotIn, SlotsApart
  <2>3. e[Slot(s, o)] = IF Slot(s, o) = Slot(s, a) THEN Ready ELSE data[Slot(s, o)]
    BY <1>2, <1>10, <2>2
  <2> QED
    BY <2>1, <2>2, <2>3, Zenon
<1>16. Coming(v, a, p, writer[t], readPos) /\ p.thread = t
  BY <1>4, <1>5, <1>6, Zenon DEF Writes
<1>17. Wrote(v, u, a, p, writer, writer', readPos)
  <2>1. ASSUME NEW o \in 0 .. Size - 1, o \notin a .. a + n + 1 PROVE u[o] = v[o]
    <3>1. o # a
      BY <1>7, <2>1
    <3> QED
      BY <1>15, <3>1
  <2>2. u[a] = Ready
    BY <1>8, <1>15
  <2>3. Body(u, a, p)
    <3>1. Body(v, a, p)
      BY <1>3, <1>16 DEF Coming
    <3>2. u[a + 1] = v[a + 1]
      <4>1. a + 1 \in 0 .. Size - 1 /\ a + 1 # a
        BY <1>2, <1>7, Sizes
      <4> QED
        BY <1>15, <4>1
    <3>3. ASSUME NEW k \in a + 2 .. a + n + 1 PROVE u[k] = v[k]
      <4>1. k \in 0 .. Size - 1 /\ k # a
        BY <1>2, <1>7, Sizes
      <4> QED
        BY <1>15, <4>1
    <3> QED
      BY <1>6, <3>1, <3>2, <3>3 DEF Body
  <2>4. Whole(u, a, p) /\ writer'[t].at \notin {"claimed", "filled"}
    BY <1>12, <1>13, <2>2, <2>3 DEF Whole
  <2> QED
    BY <1>6, <1>13, <1>16, <2>1, <2>4 DEF Wrote
<1>18. Ring(e, readPos, writePos, writer', reader, pending)
  BY <1>1, <1>4, <1>5, <1>6, <1>11, <1>12, <1>14, <1>17, RingWritten
<1> QED
  BY <1>11, <1>18 DEF QueueInv, CommitMessage

\* The cells at the read position.
LEMMA CellsOfTheFirst ==
  ASSUME QueueInv, NEW k \in 0 .. Size - 1
  PROVE  data[Cell(readPos, k)] = ViewOf(data, readPos % Size)[k]
<1>1. data \in [0 .. Size - 1 -> Nat] /\ readPos \in Positions
  BY RingTypes
<1> QED
  BY <1>1, CellFromRead, ViewIn DEF Positions

\* What the reader finds at the read position, when it has not begun to read.
LEMMA TheFirstMessage ==
  ASSUME QueueInv, NEW v, v = ViewOf(data, readPos % Size), NEW held, held = Span(readPos, writePos),
         reader.at = "idle", writePos # readPos, data[Cell(readPos, 0)] # NotReady
  PROVE  /\ Laid(v, pending, writer, reader, readPos, held) /\ held # 0 /\ v[0] # NotReady
         /\ v[1] \in Nat /\ v[1] + 2 <= held
<1>1. readPos \in Positions /\ writePos \in Positions /\ pending \in Seq(Sent) /\ held \in 0 .. Size
  BY RingTypes
<1>2. held # 0
  BY <1>1, SpanIn
<1>3. v[0] # NotReady
  <2>1. 0 \in 0 .. Size - 1
    BY Sizes
  <2> QED
    BY <2>1, CellsOfTheFirst
<1>4. PICK pos : Layout(pos, pending, held) /\ Placed(pos, v, pending, writer, reader, readPos)
  BY Zenon DEF QueueInv, Ring, Laid
<1>5. Len(pending) >= 1 /\ Whole(v, 0, pending[1]) /\ pending[1].n \in Nat
  BY <1>1, <1>2, <1>3, <1>4, FirstIsWhole
<1>6. Len(pending) \in Nat /\ 1 \in 1 .. Len(pending) /\ pos[1] = 0
  BY <1>4, <1>5, LenProperties DEF Layout
<1>7. pos[1] + pending[1].n + 2 <= held
  BY <1>1, <1>4, <1>6, LiesIn
<1>8. v[1] = pending[1].n
  BY <1>5 DEF Whole, Body
<1> QED
  BY <1>2, <1>3, <1>4, <1>5, <1>6, <1>7, <1>8 DEF Laid

LEMMA PeekStep ==
  ASSUME QueueInv, PeekNextMessage
  PROVE  QueueInv'
<1>1. PICK v, held : v = ViewOf(data, readPos % Size) /\ held = Span(readPos, writePos)
  OBVIOUS
<1>2. reader.at = "idle" /\ writePos # readPos /\ data[Cell(readPos, 0)] # NotReady
      /\ UNCHANGED <<data, readPos, writePos, writer, pending>>
  BY DEF PeekNextMessage
<1>3. pending \in Seq(Sent) /\ held \in 0 .. Size
  BY <1>1, RingTypes
<1>4. /\ Laid(v, pending, writer, reader, readPos, held) /\ held # 0 /\ v[0] # NotReady
      /\ v[1] \in Nat /\ v[1] + 2 <= held
  BY <1>1, <1>2, TheFirstMessage
<1>5. PICK n : n = v[1]
  OBVIOUS
<1>6. data[Cell(readPos, 1)] = n
  <2>1. 1 \in 0 .. Size - 1
    BY <1>3, <1>4, Sizes
  <2> QED
    BY <1>1, <1>5, <2>1, CellsOfTheFirst
<1>7. PICK S : IsPayload(S, v, n)
  BY DEF IsPayload
<1>8. { data[Cell(readPos, k)] : k \in 2 .. n + 1 } = S
  <2>1. ASSUME NEW k \in 2 .. n + 1 PROVE data[Cell(readPos, k)] = v[k]
    <3>1. k \in 0 .. Size - 1
      BY <1>3, <1>4, <1>5, Sizes
    <3> QED
      BY <1>1, <3>1, CellsOfTheFirst
  <2> QED
    BY <1>7, <2>1, Zenon DEF IsPayload
<1>9. reader' = [at |-> "reading", n |-> n, thread |-> Content(S)]
  BY <1>6, <1>8 DEF PeekNextMessage
<1>10. reader'.at = "reading" /\ reader'.n = n
       /\ reader'.thread = Content(S)
  BY <1>9
<1>11. Laid(v, pending, writer, reader', readPos, held) /\ n \in Nat
  BY <1>2, <1>3, <1>4, <1>5, <1>7, <1>10, PeeksOne
<1>12. RingType(data, readPos, writePos, writer, reader', pending)
  BY <1>10, <1>11 DEF QueueInv, Ring, RingType
<1>13. Ring(data, readPos, writePos, writer, reader', pending)
  BY <1>1, <1>11, <1>12, Zenon DEF QueueInv, Ring
<1> QED
  BY <1>2, <1>13 DEF QueueInv

LEMMA ClearStep ==
  ASSUME QueueInv, ClearMessage
  PROVE  QueueInv'
<1>1. PICK v, held, s : v = ViewOf(data, readPos % Size) /\ held = Span(readPos, writePos)
                        /\ s = readPos % Size
  OBVIOUS
<1>2. data \in [0 .. Size - 1 -> Nat] /\ readPos \in Positions /\ held \in 0 .. Size
      /\ pending \in Seq(Sent) /\ reader.n \in Nat
  BY <1>1, RingTypes
<1>3. reader.at = "reading" /\ UNCHANGED <<readPos, writePos, writer, pending>>
  BY DEF ClearMessage
<1>4. Laid(v, pending, writer, reader, readPos, held) /\ ClearFrom(v, held)
  BY <1>1, Zenon DEF QueueInv, Ring
<1>5. PICK m \in Nat : m = Message(reader.n)
  BY <1>2 DEF Message
<1>6. m = reader.n + 2 /\ m \in 1 .. Size
  <2>1. PICK pos : Layout(pos, pending, held) /\ Placed(pos, v, pending, writer, reader, readPos)
    BY <1>4, Zenon DEF Laid
  <2>2. Len(pending) \in Nat /\ 1 \in 1 .. Len(pending) /\ reader.n = pending[1].n /\ pos[1] = 0
    BY <1>2, <1>3, <2>1, LenProperties DEF Placed, Reads, Layout
  <2>3. pos[1] + pending[1].n + 2 <= held
    BY <1>2, <2>1, <2>2, LiesIn
  <2> QED
    BY <1>2, <1>5, <2>2, <2>3, Sizes DEF Message
<1>7. PICK e : Clears(e, data, readPos, m)
  BY DEF Clears
<1>8. data' = e
  BY <1>5, <1>7, Zenon DEF ClearMessage, Cleared, Clears
<1>9. e \in [0 .. Size - 1 -> Nat]
  BY <1>2, <1>7 DEF Clears, NotReady
<1>10. PICK r1 : r1 = [reader EXCEPT !.at = "cleared"]
  OBVIOUS
<1>11. reader' = r1 /\ r1.n = reader.n /\ r1.at = "cleared"
  <2>1. reader' = r1
    BY <1>10 DEF ClearMessage
  <2>2. r1.n = reader.n
    BY <1>10
  <2>3. r1.at = "cleared"
    BY <1>10
  <2> QED
    BY <2>1, <2>2, <2>3
<1>12. PICK u : u = ViewOf(e, s)
  OBVIOUS
<1>13. ASSUME NEW o \in 0 .. Size - 1 PROVE u[o] = IF o < reader.n + 2 THEN NotReady ELSE v[o]
  <2>1. v[o] = data[Slot(s, o)] /\ u[o] = e[Slot(s, o)]
    BY <1>1, <1>2, <1>9, <1>12, ViewIn
  <2>2. ClearedAt(e, data, s, m, o)
    BY <1>1, <1>2, <1>6, <1>7, ClearedView DEF Positions
  <2> QED
    BY <1>6, <2>1, <2>2, Zenon DEF ClearedAt
<1>14. Laid(u, pending, writer, r1, readPos, held)
  BY <1>2, <1>3, <1>4, <1>11, <1>13, ClearsOne
<1>15. ClearFrom(u, held)
  <2>1. SUFFICES ASSUME NEW o \in held .. Size - 1 PROVE u[o] = NotReady
    BY DEF ClearFrom
  <2>2. o \in 0 .. Size - 1
    BY <1>2
  <2>3. v[o] = NotReady
    BY <1>4 DEF ClearFrom
  <2> QED
    BY <1>13, <2>2, <2>3
<1>16. RingType(e, readPos, writePos, writer, r1, pending)
  BY <1>9, <1>11 DEF QueueInv, Ring, RingType
<1>17. Ring(e, readPos, writePos, writer, r1, pending)
  BY <1>1, <1>12, <1>14, <1>15, <1>16, Zenon DEF QueueInv, Ring
<1> QED
  BY <1>3, <1>8, <1>11, <1>17 DEF QueueInv

LEMMA AdvanceStep ==
  ASSUME QueueInv, Advance
  PROVE  QueueInv'
<1>1. PICK v, held, R, W : v = ViewOf(data, readPos % Size) /\ held = Span(readPos, writePos)
                           /\ R = readPos /\ W = writePos
  OBVIOUS
<1>2. data \in [0 .. Size - 1 -> Nat] /\ R \in Positions /\ W \in Positions /\ held \in 0 .. Size
      /\ pending \in Seq(Sent) /\ reader.n \in Nat /\ writer \in [Threads -> Writers]
  BY <1>1, RingTypes
<1>3. reader.at = "cleared" /\ UNCHANGED <<data, writePos, writer>>
  BY DEF Advance
<1>4. Laid(v, pending, writer, reader, R, held) /\ ClearFrom(v, held) /\ Asks(writer, R, W)
  BY <1>1, Zenon DEF QueueInv, Ring
<1>5. PICK m \in Nat : m = Message(reader.n)
  BY <1>2 DEF Message
<1>6. PICK Q : Q = Behind(R, m)
  OBVIOUS
<1>7. readPos' = Q /\ pending' = Tail(pending) /\ reader' = Asleep
  BY <1>1, <1>5, <1>6 DEF Advance, Behind
<1>8. reader'.at = "idle" /\ reader'.n = 0
  BY <1>7 DEF Asleep
<1>9. PICK u : u = ViewOf(data, Q % Size)
  OBVIOUS
<1>10. m <= Size
  <2>1. PICK pos : Layout(pos, pending, held) /\ Placed(pos, v, pending, writer, reader, R)
    BY <1>4, Zenon DEF Laid
  <2>2. Len(pending) \in Nat /\ 1 \in 1 .. Len(pending) /\ reader.n = pending[1].n /\ pos[1] = 0
    BY <1>2, <1>3, <2>1, LenProperties DEF Placed, Reads, Layout
  <2>3. pos[1] + pending[1].n + 2 <= held
    BY <1>2, <2>1, <2>2, LiesIn
  <2> QED
    BY <1>2, <1>5, <2>2, <2>3, Sizes DEF Message
<1>11. Shifts(u, v, m)
  <2>1. m \in 0 .. Size
    BY <1>10, Sizes
  <2> QED
    BY <1>1, <1>2, <1>6, <1>9, <2>1, ShiftedView, Zenon DEF Shifts
<1>12. /\ m \in 2 .. held /\ Tail(pending) \in Seq(Sent)
       /\ Laid(u, Tail(pending), writer, reader', Q, held - m) /\ ClearFrom(u, held - m)
  BY <1>2, <1>3, <1>4, <1>5, <1>6, <1>8, <1>11, AdvancesOne
<1>13. Q \in Positions /\ Span(Q, W) = held - m
  <2>1. m <= held
    BY <1>2, <1>12
  <2> QED
    BY <1>1, <1>2, <1>6, <2>1, SpanShrinks
<1>14. held - m <= held /\ held - m <= Size /\ held \in Int /\ held - m \in Int
  BY <1>2, <1>12, Sizes
<1>15. Asks(writer, Q, W)
  <2>1. SUFFICES ASSUME NEW s \in Threads
                 PROVE  /\ writer[s].at \in {"asking", "claiming"}
                             => Span(writer[s].r, W) >= Span(Q, W)
                        /\ writer[s].at = "claiming"
                             => Span(writer[s].r, writer[s].w) <= Size - Message(writer[s].n)
    BY Zenon DEF Asks
  <2>2. writer[s].at \in {"asking", "claiming"} => Span(writer[s].r, W) >= Span(R, W)
    BY <1>4, Zenon DEF Asks
  <2>3. writer[s].at \in {"asking", "claiming"} => Span(writer[s].r, W) \in Int
    <3>1. writer[s].at \in {"asking", "claiming"} => writer[s].r \in Positions
      BY <1>2, WriterIs
    <3>2. writer[s].at \in {"asking", "claiming"} => Span(writer[s].r, W) \in Positions
      BY <1>2, <3>1, SpanIn
    <3> QED
      BY <3>2, Sizes DEF Positions
  <2>4. writer[s].at = "claiming" => Span(writer[s].r, writer[s].w) <= Size - Message(writer[s].n)
    BY <1>4, Zenon DEF Asks
  <2> QED
    BY <1>1, <1>13, <1>14, <2>2, <2>3, <2>4
<1>16. RingType(data, Q, W, writer, reader', Tail(pending))
  BY <1>2, <1>8, <1>12, <1>13 DEF RingType
<1>17. Ring(data, Q, W, writer, reader', Tail(pending))
  BY <1>9, <1>12, <1>13, <1>14, <1>15, <1>16 DEF Ring
<1> QED
  BY <1>1, <1>3, <1>7, <1>17 DEF QueueInv
-----------------------------------------------------------------------------
(* The theorems.                                                           *)

LEMMA InitHolds == Init => QueueInv
<1> SUFFICES ASSUME Init PROVE QueueInv
  OBVIOUS
<1>1. data = [c \in 0 .. Size - 1 |-> 0] /\ readPos = 0 /\ writePos = 0 /\ pending = << >>
      /\ writer = [t \in Threads |-> Idle] /\ reader.at = "idle" /\ reader.n = 0
  BY DEF Init, NotReady, Asleep
<1>2. 0 \in Positions
  BY Sizes DEF Positions
<1>3. Span(0, 0) = 0
  BY <1>2, SpanIn
<1>4. RingType(data, 0, 0, writer, reader, pending)
  <2>1. data \in [0 .. Size - 1 -> Nat]
    BY <1>1
  <2>2. writer \in [Threads -> Writers]
    BY <1>1 DEF Writers
  <2>3. pending \in Seq(Sent)
    BY <1>1, EmptySeq
  <2> QED
    BY <1>1, <1>2, <2>1, <2>2, <2>3 DEF RingType
<1>5. PICK v : v = ViewOf(data, 0 % Size)
  OBVIOUS
<1>6. ClearFrom(v, 0)
  <2>1. ASSUME NEW o \in 0 .. Size - 1 PROVE v[o] = NotReady
    <3>1. 0 % Size \in 0 .. Size - 1 /\ v[o] = data[Slot(0 % Size, o)]
      BY <1>2, <1>4, <1>5, ViewIn DEF RingType
    <3>2. Slot(0 % Size, o) \in 0 .. Size - 1
      BY <3>1, SlotIn
    <3> QED
      BY <1>1, <3>1, <3>2 DEF NotReady
  <2> QED
    BY <2>1 DEF ClearFrom
<1>7. Asks(writer, 0, 0)
  BY <1>1 DEF Asks, Idle
<1>8. Laid(v, pending, writer, reader, 0, 0)
  <2>1. PICK pos : pos = [i \in 1 .. 1 |-> 0]
    OBVIOUS
  <2>2. Len(pending) = 0
    BY <1>1, EmptySeq
  <2>3. Layout(pos, pending, 0)
    BY <2>1, <2>2 DEF Layout
  <2>4. Placed(pos, v, pending, writer, reader, 0)
    BY <1>1, <2>2 DEF Placed, Each, Reads, Owned, Idle
  <2> QED
    BY <2>3, <2>4 DEF Laid
<1>9. Ring(data, 0, 0, writer, reader, pending)
  BY <1>3, <1>4, <1>5, <1>6, <1>7, <1>8, Sizes DEF Ring
<1> QED
  BY <1>1, <1>9 DEF QueueInv

LEMMA NextKeeps == QueueInv /\ Prompt /\ [Next]_vars => QueueInv'
<1> SUFFICES ASSUME QueueInv, Prompt, [Next]_vars PROVE QueueInv'
  OBVIOUS
<1>1. ASSUME NEW t \in Threads, Write(t) PROVE QueueInv'
  <2>1. CASE \E n \in Payloads : Ask(t, n)
    BY <2>1, AskStep
  <2>2. CASE Load(t)
    BY <2>2, LoadStep
  <2>3. CASE Claim(t)
    BY <2>3, LostStep, WonStep
  <2>4. CASE Fill(t)
    BY <2>4, FillStep
  <2>5. CASE CommitMessage(t)
    BY <2>5, CommitStep
  <2> QED
    BY <1>1, <2>1, <2>2, <2>3, <2>4, <2>5 DEF Write
<1>2. CASE PeekNextMessage
  BY <1>2, PeekStep
<1>3. CASE ClearMessage
  BY <1>3, ClearStep
<1>4. CASE Advance
  BY <1>4, AdvanceStep
<1>5. CASE UNCHANGED vars
  BY <1>5 DEF vars, QueueInv
<1> QED
  BY <1>1, <1>2, <1>3, <1>4, <1>5 DEF Next, Read

\* In every behaviour in which no thread is held up for half of all positions,
\* the memory is laid out as the messages claimed and not yet given back.
THEOREM QueueIsLaidOut == Spec /\ []Prompt => []QueueInv
<1>1. Init => QueueInv
  BY InitHolds
<1>2. QueueInv /\ Prompt /\ [Next]_vars => QueueInv'
  BY NextKeeps
<1> QED
  BY <1>1, <1>2, PTL DEF Spec

\* What the reader reads is the oldest message, whole.
LEMMA ReadingIsWhole == QueueInv => MessagesAreWhole
<1> SUFFICES ASSUME QueueInv, reader.at = "reading"
             PROVE  /\ pending # << >> /\ Head(pending).n = reader.n
                    /\ reader.n > 0 => Head(pending).thread = reader.thread
  BY DEF MessagesAreWhole
<1>1. pending \in Seq(Sent)
  BY RingTypes
<1>2. Reads(ViewOf(data, readPos % Size), pending, reader)
  BY Zenon DEF QueueInv, Ring, Laid, Placed
<1>3. Len(pending) >= 1 /\ reader.n = pending[1].n
      /\ (reader.n > 0 => reader.thread = pending[1].thread)
  BY <1>2 DEF Reads
<1>4. pending # << >> /\ Head(pending) = pending[1]
  BY <1>1, <1>3, EmptySeq, HeadTailProperties
<1> QED
  BY <1>3, <1>4

\* What no message holds is clear.
LEMMA UnclaimedIsClear == QueueInv => FreeCellsAreClear
<1> SUFFICES ASSUME QueueInv PROVE FreeCellsAreClear
  OBVIOUS
<1>1. PICK v, held : v = ViewOf(data, readPos % Size) /\ held = Span(readPos, writePos)
  OBVIOUS
<1>2. data \in [0 .. Size - 1 -> Nat] /\ readPos \in Positions /\ held \in 0 .. Size
  BY <1>1, RingTypes
<1>3. Signed(writePos - readPos) = held
  <2>1. PICK h \in Int : h = Wrap \div 2
    BY Sizes
  <2>2. held < h
    BY <1>2, <2>1, Sizes
  <2> QED
    BY <1>1, <2>1, <2>2 DEF Signed, Span
<1>4. ASSUME NEW c \in 0 .. Size - 1, c \notin Used PROVE data[c] = NotReady
  <2>1. PICK s \in 0 .. Size - 1 : s = readPos % Size
    <3>1. readPos \in Nat /\ 0 \in 0 .. Size
      BY <1>2, Sizes DEF Positions
    <3> QED
      BY <3>1, SlotIs
  <2>2. PICK o \in 0 .. Size - 1 : Slot(s, o) = c
    BY SlotsAll
  <2>3. (readPos + o) % Size = c
    <3>1. readPos \in Nat /\ o \in 0 .. Size
      BY <1>2, Sizes DEF Positions
    <3> QED
      BY <2>1, <2>2, <3>1, SlotIs
  <2>4. ~(o < held)
    <3>1. SUFFICES ASSUME o < held PROVE FALSE
      OBVIOUS
    <3>2. o \in 0 .. held - 1
      BY <1>2, <3>1
    <3> QED
      BY <1>3, <1>4, <2>3, <3>2 DEF Used
  <2>5. v[o] = NotReady
    <3>1. ClearFrom(v, held)
      BY <1>1, Zenon DEF QueueInv, Ring
    <3>2. o \in held .. Size - 1
      BY <1>2, <2>4
    <3> QED
      BY <3>1, <3>2 DEF ClearFrom
  <2> QED
    BY <1>1, <1>2, <2>1, <2>2, <2>5, ViewIn
<1>5. DOMAIN data = 0 .. Size - 1
  BY <1>2
<1> QED
  BY <1>2, <1>3, <1>4, <1>5 DEF FreeCellsAreClear

\* The reader reads every message whole and in the order the queue has them,
\* and memory given back is clear, whatever the sizes of the ring and of the
\* messages and however many threads write.
THEOREM QueueIsSound == Spec /\ []Prompt => []QueueKeepsMessages
<1>1. QueueInv => QueueKeepsMessages
  BY ReadingIsWhole, UnclaimedIsClear DEF QueueKeepsMessages
<1> QED
  BY <1>1, QueueIsLaidOut, PTL
=============================================================================
