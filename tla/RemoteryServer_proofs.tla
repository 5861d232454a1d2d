------------------------ MODULE RemoteryServer_proofs ------------------------
(***************************************************************************)
(* A proof that the server of Remotery dispatches whole messages, each of  *)
(* one frame, and reads only where a viewer is connected, for any number   *)
(* and lengths of frames, whenever viewers send, stop in the middle, leave *)
(* and come, and whatever answers fail.  What the viewer has sent and will *)
(* send of a frame it began is one row of bytes and heads, in which each   *)
(* item decides what may follow it; and what the server has read decides   *)
(* what comes first.                                                       *)
(***************************************************************************)
EXTENDS RemoteryServer, SequenceTheorems, TLAPS

Goodbyes == {"bad", "goodbye"}
Items ==
  [kind : {"head"}, n : Nat] \cup [kind : Goodbyes]
  \cup [kind : {"byte"}, frame : Nat, place : Nat, n : Nat]

-----------------------------------------------------------------------------
(* The row.                                                                *)

\* A frame begins with x, or ends with it.
Starts(x) == x.kind # "byte"
Ends(x) == \/ x.kind \in Goodbyes
           \/ x.kind = "head" /\ x.n = 0
           \/ x.kind = "byte" /\ x.place = x.n

\* What comes after an item: its frame's next byte, or the start of a frame.
Continues(x, y) ==
  IF Ends(x) THEN Starts(y)
  ELSE IF x.kind = "head" THEN \E f \in Nat : y = Byte(f, 1, x.n)
  ELSE y = Byte(x.frame, x.place + 1, x.n)

InARow(s) == \A i \in 1..(Len(s) - 1) : Continues(s[i], s[i + 1])

\* The row of what was sent or is owed.
Row == inbox \o owed

\* What is due after a part of a frame of length l, of which r bytes are left:
\* the start of a frame, or the next byte of one of some frames.
Due(x, r, l, some) ==
  IF r = 0 THEN Starts(x) ELSE \E f \in some : x = Byte(f, l - r + 1, l)

\* The frames the server may be in: in the middle of a message, the message's.
Current == IF at = "rest" THEN {message[1].frame} ELSE Nat

-----------------------------------------------------------------------------
(* The inductive invariant.                                                *)

Sent ==
  /\ inbox \in Seq(Items) /\ owed \in Seq(Items) /\ frames \in Nat
  /\ viewer \in {"away", "waiting", "open", "closed", "reset"}
  /\ InARow(Row)
  /\ viewer # "open" => owed = << >>
  /\ viewer \in {"away", "waiting"} => inbox = << >>
  /\ viewer = "open" /\ Row # << >> => Ends(Row[Len(Row)])

Connected ==
  /\ client \in BOOLEAN
  /\ at \in {"first", "rest"} => client
  /\ at = "closing" => ~client

Reading ==
  /\ length \in Nat /\ remaining \in Nat
  /\ client => /\ remaining <= length
               /\ Row # << >> => Due(Row[1], remaining, length, Current)
               /\ viewer = "open" /\ Row = << >> => remaining = 0
               /\ at # "rest" /\ remaining \notin {0, length} => length >= MaxLength

Reads ==
  at = "rest" =>
    /\ message \in Seq(Items) /\ message # << >> /\ message[1].frame \in Nat
    /\ Len(message) = length - remaining
    /\ \A k \in DOMAIN message : message[k] = Byte(message[1].frame, k, length)

ServerInv == Sent /\ Connected /\ Reading /\ Reads

-----------------------------------------------------------------------------
(* Facts about rows, which are sequences of items.                         *)

LEMMA TailOfRow ==
  ASSUME NEW s \in Seq(Items), NEW t \in Seq(Items), s # << >>
  PROVE  /\ Tail(s) \in Seq(Items) /\ Tail(s) \o t = Tail(s \o t)
         /\ s \o t \in Seq(Items) /\ s \o t # << >> /\ (s \o t)[1] = Head(s)
<1>1. /\ Len(s) \in Nat /\ Len(t) \in Nat /\ Len(s) # 0
  BY LenProperties, EmptySeq
<1>2. PICK m \in Nat, n \in Nat : m = Len(s) /\ n = Len(t) /\ m # 0
  BY <1>1
<1>3. /\ Tail(s) \in Seq(Items) /\ Len(Tail(s)) = m - 1
      /\ \A i \in 1..(m - 1) : Tail(s)[i] = s[i + 1]
  BY <1>2, HeadTailProperties
<1>4. PICK q \in Seq(Items) : q = s \o t
  BY ConcatProperties
<1>5. /\ Len(q) = m + n
      /\ \A i \in 1..(m + n) : q[i] = IF i <= m THEN s[i] ELSE t[i - m]
  BY <1>2, <1>4, ConcatProperties
<1>6. q # << >>
  BY <1>2, <1>5, EmptySeq
<1>7. /\ Tail(q) \in Seq(Items) /\ Len(Tail(q)) = m + n - 1
      /\ \A i \in 1..(m + n - 1) : Tail(q)[i] = q[i + 1]
  BY <1>2, <1>5, <1>6, HeadTailProperties
<1>8. PICK u \in Seq(Items) : u = Tail(s) \o t
  BY <1>3, ConcatProperties
<1>9. /\ Len(u) = m - 1 + n
      /\ \A i \in 1..(m - 1 + n) : u[i] = IF i <= m - 1 THEN Tail(s)[i] ELSE t[i - (m - 1)]
  BY <1>2, <1>3, <1>8, ConcatProperties
<1>10. ASSUME NEW i \in 1..(m + n - 1) PROVE u[i] = Tail(q)[i]
  <2>1. i \in Nat /\ i + 1 \in 1..(m + n) /\ i \in 1..(m - 1 + n)
    BY <1>2
  <2>2. Tail(q)[i] = IF i + 1 <= m THEN s[i + 1] ELSE t[i + 1 - m]
    BY <1>5, <1>7, <2>1
  <2>3. CASE i <= m - 1
    <3>1. i + 1 <= m /\ i \in 1..(m - 1)
      BY <1>2, <2>1, <2>3
    <3>2. u[i] = Tail(s)[i]
      BY <1>9, <2>1, <2>3
    <3>3. u[i] = s[i + 1]
      BY <1>3, <3>1, <3>2
    <3> QED
      BY <2>2, <3>1, <3>3
  <2>4. CASE ~(i <= m - 1)
    <3>1. i - (m - 1) = i + 1 - m /\ ~(i + 1 <= m)
      BY <1>2, <2>1, <2>4
    <3>2. u[i] = t[i - (m - 1)]
      BY <1>9, <2>1, <2>4
    <3> QED
      BY <2>2, <3>1, <3>2
  <2> QED
    BY <2>3, <2>4
<1>11. u = Tail(q)
  BY <1>2, <1>7, <1>9, <1>10, SeqEqual
<1>12. q[1] = s[1]
  BY <1>2, <1>5
<1> QED
  BY <1>3, <1>4, <1>6, <1>8, <1>11, <1>12

\* What is left of a row without its first item.
LEMMA RestOfRow ==
  ASSUME NEW q \in Seq(Items), q # << >>, InARow(q), NEW r, r = Tail(q)
  PROVE  /\ r \in Seq(Items) /\ InARow(r)
         /\ r # << >> => Continues(q[1], r[1]) /\ r[Len(r)] = q[Len(q)]
         /\ r = << >> => q[Len(q)] = q[1]
<1>1. PICK m \in Nat : m = Len(q) /\ m # 0
  BY LenProperties, EmptySeq
<1>2. /\ r \in Seq(Items) /\ Len(r) = m - 1
      /\ \A i \in 1..(m - 1) : r[i] = q[i + 1]
  BY <1>1, HeadTailProperties
<1>3. \A i \in 1..(m - 1) : Continues(q[i], q[i + 1])
  BY <1>1 DEF InARow
<1>4. InARow(r)
  <2>1. ASSUME NEW i \in 1..(m - 1 - 1) PROVE Continues(r[i], r[i + 1])
    <3>1. i \in 1..(m - 1) /\ i + 1 \in 1..(m - 1)
      BY <1>1
    <3> QED
      BY <1>2, <1>3, <3>1
  <2> QED
    BY <1>2, <2>1 DEF InARow
<1>5. CASE r # << >>
  <2>1. m - 1 # 0
    BY <1>2, <1>5, EmptySeq
  <2>2. 1 \in 1..(m - 1) /\ m - 1 \in 1..(m - 1) /\ 1 + 1 = 2 /\ m - 1 + 1 = m
    BY <1>1, <2>1
  <2>3. r[1] = q[1 + 1] /\ r[m - 1] = q[m]
    BY <1>2, <2>2
  <2> QED
    BY <1>1, <1>2, <1>3, <1>4, <1>5, <2>2, <2>3
<1>6. CASE r = << >>
  <2>1. Len(r) = 0
    BY <1>6, EmptySeq
  <2>2. m = 1
    BY <1>1, <1>2, <2>1
  <2> QED
    BY <1>1, <1>2, <1>4, <1>6, <2>2
<1> QED
  BY <1>5, <1>6

\* A row that begins a frame may come after one that ends one.
EndsAFrame(p) == p # << >> => Ends(p[Len(p)])
BeginsFrame(q) == q # << >> /\ Starts(q[1])
Joins(p, q, r) ==
  /\ r \in Seq(Items) /\ InARow(r) /\ r # << >> /\ r[Len(r)] = q[Len(q)]
  /\ r[1] = IF p = << >> THEN q[1] ELSE p[1]

LEMMA RowAfterRow ==
  ASSUME NEW p \in Seq(Items), NEW q \in Seq(Items), InARow(p), InARow(q),
         EndsAFrame(p), BeginsFrame(q)
  PROVE  Joins(p, q, p \o q)
<1>0. PICK r : r = p \o q
  OBVIOUS
<1>1. PICK m \in Nat : m = Len(p) /\ (m = 0 <=> p = << >>)
  BY LenProperties, EmptySeq
<1>2. PICK n \in Nat : n = Len(q) /\ n # 0
  BY LenProperties, EmptySeq DEF BeginsFrame
<1>3. /\ r \in Seq(Items) /\ Len(r) = m + n
      /\ \A i \in 1..(m + n) : r[i] = IF i <= m THEN p[i] ELSE q[i - m]
  BY <1>0, <1>1, <1>2, ConcatProperties
<1>4. ASSUME NEW i \in 1..(m + n - 1) PROVE Continues(r[i], r[i + 1])
  <2>1. /\ i \in Nat /\ i \in 1..(m + n) /\ i + 1 \in 1..(m + n)
        /\ i < m => i \in 1..(m - 1)
        /\ i > m => i - m \in 1..(n - 1) /\ i + 1 - m = i - m + 1
    BY <1>1, <1>2
  <2>2. CASE i < m
    <3>1. r[i] = p[i] /\ r[i + 1] = p[i + 1]
      BY <1>1, <1>3, <2>1, <2>2
    <3> QED
      BY <1>1, <2>1, <2>2, <3>1 DEF InARow
  <2>3. CASE i = m
    <3>1. r[i] = p[m] /\ r[i + 1] = q[1]
      BY <1>1, <1>3, <2>1, <2>3
    <3>2. p # << >>
      BY <1>1, <2>3
    <3> QED
      BY <1>1, <3>1, <3>2 DEF Continues, EndsAFrame, BeginsFrame
  <2>4. CASE i > m
    <3>1. r[i] = q[i - m] /\ r[i + 1] = q[i - m + 1]
      <4>1. ~(i <= m) /\ ~(i + 1 <= m)
        BY <1>1, <2>1, <2>4
      <4> QED
        BY <1>3, <2>1, <2>4, <4>1
    <3> QED
      BY <1>2, <2>1, <2>4, <3>1 DEF InARow
  <2>5. i < m \/ i = m \/ i > m
    OBVIOUS
  <2> QED
    BY <2>2, <2>3, <2>4, <2>5
<1>5. InARow(r)
  BY <1>3, <1>4 DEF InARow
<1>6. r # << >>
  BY <1>1, <1>2, <1>3, EmptySeq
<1>7. r[m + n] = q[n]
  <2>1. m + n \in 1..(m + n) /\ ~(m + n <= m) /\ m + n - m = n
    BY <1>1, <1>2
  <2> QED
    BY <1>3, <2>1
<1>8. r[1] = IF p = << >> THEN q[1] ELSE p[1]
  <2>1. 1 \in 1..(m + n) /\ (1 <= m <=> p # << >>) /\ (m = 0 => 1 - m = 1)
    BY <1>1, <1>2
  <2> QED
    BY <1>1, <1>3, <2>1
<1> QED
  BY <1>0, <1>2, <1>3, <1>5, <1>6, <1>7, <1>8 DEF Joins

\* The beginning of a row is one.
LEMMA BeginningOfRow ==
  ASSUME NEW s \in Seq(Items), NEW t \in Seq(Items), InARow(s \o t)
  PROVE  InARow(s) /\ (s # << >> => s \o t # << >> /\ (s \o t)[1] = s[1])
<1>1. PICK m \in Nat : m = Len(s) /\ (m = 0 <=> s = << >>)
  BY LenProperties, EmptySeq
<1>2. PICK n \in Nat : n = Len(t)
  BY LenProperties
<1>3. PICK q \in Seq(Items) : q = s \o t
  BY ConcatProperties
<1>4. /\ Len(q) = m + n
      /\ \A i \in 1..(m + n) : q[i] = IF i <= m THEN s[i] ELSE t[i - m]
  BY <1>1, <1>2, <1>3, ConcatProperties
<1>5. ASSUME NEW i \in 1..(m - 1) PROVE Continues(s[i], s[i + 1])
  <2>1. i \in 1..(m + n - 1) /\ i \in 1..(m + n) /\ i + 1 \in 1..(m + n) /\ i <= m /\ i + 1 <= m
    BY <1>1, <1>2
  <2>2. q[i] = s[i] /\ q[i + 1] = s[i + 1]
    BY <1>4, <2>1
  <2>3. InARow(q)
    BY <1>3
  <2>4. i \in 1..(Len(q) - 1)
    BY <1>4, <2>1
  <2>5. Continues(q[i], q[i + 1])
    BY <2>3, <2>4 DEF InARow
  <2> QED
    BY <2>2, <2>5
<1>6. ASSUME s # << >> PROVE q # << >> /\ q[1] = s[1]
  <2>1. 1 \in 1..(m + n) /\ 1 <= m /\ m + n # 0
    BY <1>1, <1>2, <1>6
  <2> QED
    BY <1>4, <2>1, EmptySeq
<1> QED
  BY <1>1, <1>3, <1>5, <1>6 DEF InARow

\* A row of nothing, and of one item.
LEMMA ShortRows ==
  /\ InARow(<< >>)
  /\ \A x \in Items : <<x>> \in Seq(Items) /\ InARow(<<x>>) /\ <<x>> # << >>
                    /\ Len(<<x>>) = 1 /\ <<x>>[1] = x
BY DEF InARow

\* A frame is a row that begins and ends one.
LEMMA FrameIsARow ==
  ASSUME NEW f \in Nat, NEW n \in Nat, NEW q, q = Frame(f, n)
  PROVE  /\ q \in Seq(Items) /\ Len(q) = n + 1 /\ q # << >> /\ InARow(q)
         /\ Starts(q[1]) /\ Ends(q[n + 1])
<1>1. PICK b : b = [k \in 1..n |-> Byte(f, k, n)]
  OBVIOUS
<1>2. /\ b \in Seq(Items) /\ Len(b) = n
      /\ \A k \in 1..n : b[k] = Byte(f, k, n)
  <2>1. \A k \in 1..n : Byte(f, k, n) \in Items
    BY DEF Byte, Items
  <2>2. b \in [1..n -> Items]
    BY <1>1, <2>1
  <2>3. b \in Seq(Items)
    BY <2>2, SeqDef
  <2>4. Len(b) = n
    BY <2>2, <2>3, LenProperties
  <2> QED
    BY <1>1, <2>3, <2>4
<1>3. PICK h \in Items : h = Head1(n) /\ h.kind = "head" /\ h.n = n
  <2>1. PICK h : h = [kind |-> "head", n |-> n]
    OBVIOUS
  <2>2. h \in [kind : {"head"}, n : Nat] /\ h.kind = "head" /\ h.n = n
    BY <2>1
  <2>3. h \in Items
    BY <2>2 DEF Items
  <2> QED
    BY <2>1, <2>2, <2>3 DEF Head1
<1>4. <<h>> \in Seq(Items) /\ Len(<<h>>) = 1 /\ <<h>>[1] = h
  BY ShortRows
<1>5. q = <<h>> \o b
  BY <1>1, <1>3 DEF Frame
<1>6. /\ q \in Seq(Items) /\ Len(q) = 1 + n
      /\ \A i \in 1..(1 + n) : q[i] = IF i <= 1 THEN h ELSE b[i - 1]
  <2>1. PICK s \in Seq(Items) : s = <<h>> /\ Len(s) = 1 /\ s[1] = h
    BY <1>4
  <2>2. /\ q \in Seq(Items) /\ Len(q) = 1 + n
        /\ \A i \in 1..(1 + n) : q[i] = IF i <= 1 THEN s[i] ELSE b[i - 1]
    BY <1>2, <1>5, <2>1, ConcatProperties
  <2>3. \A i \in 1..(1 + n) : i <= 1 => i = 1
    OBVIOUS
  <2> QED
    BY <2>1, <2>2, <2>3
<1>7. q[1] = h /\ \A k \in 1..n : q[k + 1] = Byte(f, k, n)
  <2>1. q[1] = h
    BY <1>6
  <2>2. ASSUME NEW k \in 1..n PROVE q[k + 1] = Byte(f, k, n)
    <3>1. k + 1 \in 1..(1 + n) /\ ~(k + 1 <= 1) /\ k + 1 - 1 = k
      OBVIOUS
    <3> QED
      BY <1>2, <1>6, <3>1
  <2> QED
    BY <2>1, <2>2
<1>8. InARow(q)
  <2>1. ASSUME NEW i \in 1..n PROVE Continues(q[i], q[i + 1])
    <3>1. CASE i = 1
      <4>1. q[i + 1] = Byte(f, 1, h.n) /\ ~Ends(h)
        BY <1>3, <1>7, <2>1, <3>1 DEF Ends, Goodbyes
      <4> QED
        BY <1>3, <1>7, <3>1, <4>1 DEF Continues
    <3>2. CASE i # 1
      <4>1. PICK k \in 1..n : i = k + 1 /\ k # n
        <5>1. i - 1 \in 1..n /\ i = i - 1 + 1 /\ i - 1 # n
          BY <3>2
        <5> QED
          BY <5>1
      <4>2. PICK x : x = Byte(f, k, n)
        OBVIOUS
      <4>3. x.kind = "byte" /\ x.frame = f /\ x.place = k /\ x.n = n
        BY <4>2 DEF Byte
      <4>4. q[i] = x /\ q[i + 1] = Byte(f, k + 1, n)
        <5>1. k + 1 \in 1..n
          BY <4>1
        <5> QED
          BY <1>7, <4>1, <4>2, <5>1
      <4>5. ~Ends(x)
        BY <4>1, <4>3 DEF Ends, Goodbyes
      <4> QED
        BY <4>3, <4>4, <4>5 DEF Continues
    <3> QED
      BY <3>1, <3>2
  <2>2. 1 + n - 1 = n
    OBVIOUS
  <2> QED
    BY <1>6, <2>1, <2>2 DEF InARow
<1>9. Starts(q[1])
  BY <1>3, <1>7 DEF Starts
<1>10. Ends(q[n + 1])
  <2>1. CASE n = 0
    BY <1>3, <1>7, <2>1 DEF Ends
  <2>2. CASE n # 0
    <3>1. q[n + 1] = Byte(f, n, n)
      BY <1>7, <2>2
    <3> QED
      BY <3>1 DEF Ends, Byte
  <2> QED
    BY <2>1, <2>2
<1>11. q # << >>
  BY <1>6, EmptySeq
<1> QED
  BY <1>6, <1>8, <1>9, <1>10, <1>11

\* What is due after a head, and after a byte that was.
LEMMA AfterHead ==
  ASSUME NEW x \in Items, x.kind = "head"
  PROVE  /\ x.n \in Nat /\ (Ends(x) <=> x.n = 0)
         /\ \A y : Continues(x, y) => Due(y, x.n, x.n, Nat)
<1>1. x.n \in Nat
  BY DEF Items, Goodbyes
<1>2. Ends(x) <=> x.n = 0
  BY DEF Ends, Goodbyes
<1>3. ASSUME NEW y, Continues(x, y) PROVE Due(y, x.n, x.n, Nat)
  <2>1. x.n - x.n + 1 = 1
    BY <1>1
  <2> QED
    BY <1>2, <1>3, <2>1 DEF Continues, Due
<1> QED
  BY <1>1, <1>2, <1>3

LEMMA AfterByte ==
  ASSUME NEW l \in Nat, NEW r \in Nat, r # 0, r <= l, NEW f, NEW x, x = Byte(f, l - r + 1, l)
  PROVE  /\ Ends(x) <=> r = 1
         /\ \A y : Continues(x, y) => Due(y, r - 1, l, {f})
<1>1. x.kind = "byte" /\ x.frame = f /\ x.place = l - r + 1 /\ x.n = l
  BY DEF Byte
<1>2. Ends(x) <=> r = 1
  <2>1. Ends(x) <=> l - r + 1 = l
    BY <1>1 DEF Ends, Goodbyes
  <2> QED
    BY <2>1
<1>3. ASSUME NEW y, Continues(x, y) PROVE Due(y, r - 1, l, {f})
  <2>1. CASE r = 1
    BY <1>2, <1>3, <2>1 DEF Continues, Due
  <2>2. CASE r # 1
    <3>1. l - r + 1 + 1 = l - (r - 1) + 1 /\ r - 1 # 0
      BY <2>2
    <3>2. y = Byte(f, l - r + 1 + 1, l)
      BY <1>1, <1>2, <1>3, <2>2 DEF Continues
    <3>3. y = Byte(f, l - (r - 1) + 1, l)
      BY <3>1, <3>2
    <3> QED
      BY <3>1, <3>3 DEF Due
  <2> QED
    BY <2>1, <2>2
<1> QED
  BY <1>2, <1>3

-----------------------------------------------------------------------------
(* Steps, by what they do to the row.                                      *)

\* The server reads an item.
LEMMA ReadOne ==
  ASSUME Sent, inbox # << >>, inbox' = Tail(inbox), UNCHANGED <<owed, frames, viewer>>
  PROVE  /\ Sent' /\ Head(inbox) \in Items /\ Row # << >> /\ Row[1] = Head(inbox)
         /\ Row' # << >> => Continues(Head(inbox), Row'[1])
         /\ viewer = "open" /\ Row' = << >> => Ends(Head(inbox))
<1>1. inbox \in Seq(Items) /\ owed \in Seq(Items) /\ InARow(Row)
  BY DEF Sent
<1>2. PICK q \in Seq(Items) : q = Row /\ q # << >> /\ q[1] = Head(inbox) /\ InARow(q)
  BY <1>1, TailOfRow DEF Row
<1>3. Row' = Tail(q) /\ inbox' \in Seq(Items)
  BY <1>1, <1>2, TailOfRow DEF Row
<1>4. PICK r : r = Tail(q)
  OBVIOUS
<1>5. /\ r \in Seq(Items) /\ InARow(r)
      /\ r # << >> => Continues(q[1], r[1]) /\ r[Len(r)] = q[Len(q)]
      /\ r = << >> => q[Len(q)] = q[1]
  BY <1>2, <1>4, RestOfRow
<1>6. Head(inbox) \in Items
  BY <1>1, HeadTailProperties
<1>7. viewer = "open" => Ends(q[Len(q)])
  BY <1>2 DEF Sent
<1>8. Sent'
  <2>1. viewer \notin {"away", "waiting"}
    BY DEF Sent
  <2>2. Row' = r
    BY <1>3, <1>4
  <2>3. viewer' = "open" /\ Row' # << >> => Ends(Row'[Len(Row')])
    BY <1>5, <1>7, <2>2
  <2> QED
    BY <1>3, <1>5, <2>1, <2>2, <2>3 DEF Sent
<1> QED
  BY <1>2, <1>3, <1>4, <1>5, <1>6, <1>7, <1>8

\* The row stays as it is.
LEMMA NothingRead ==
  ASSUME Sent, UNCHANGED <<inbox, owed, frames>>,
         viewer' \in {"away", "waiting", "open", "closed", "reset"},
         viewer' # viewer => /\ owed = << >>
                             /\ viewer' \in {"away", "waiting", "open"} => inbox = << >>
  PROVE  Sent' /\ Row' = Row
<1>1. Row' = Row
  BY DEF Row
<1>2. CASE viewer' = viewer
  BY <1>1, <1>2 DEF Sent
<1>3. CASE viewer' # viewer
  <2>1. viewer' = "open" => Row = << >>
    <3>1. << >> \o << >> = << >>
      BY EmptySeq, ConcatEmptySeq
    <3> QED
      BY <1>3, <3>1 DEF Row
  <2> QED
    BY <1>1, <1>3, <2>1 DEF Sent
<1> QED
  BY <1>1, <1>2, <1>3

\* The server waits, or has left a message behind.
LEMMA BetweenMessages ==
  ASSUME ServerInv, Sent', Row' = Row, UNCHANGED <<remaining, length>>,
         at = "rest" => remaining = 0, at' # "rest",
         client' \in BOOLEAN, client' => client, viewer' = "open" => viewer = "open",
         at' = "first" => client', at' = "closing" => ~client'
  PROVE  ServerInv'
<1>1. client' /\ Row' # << >> => Due(Row'[1], remaining', length', Current')
  <2> SUFFICES ASSUME client', Row' # << >> PROVE Due(Row'[1], remaining', length', Current')
    OBVIOUS
  <2>1. Due(Row[1], remaining, length, Current)
    BY DEF ServerInv, Reading
  <2>2. CASE remaining = 0
    BY <2>1, <2>2 DEF Due
  <2>3. CASE remaining # 0
    <3>1. Current = Nat /\ Current' = Nat
      BY <2>3 DEF Current
    <3> QED
      BY <2>1, <3>1
  <2> QED
    BY <2>2, <2>3
<1>2. client' /\ remaining \notin {0, length} => length >= MaxLength
  BY DEF ServerInv, Reading
<1>3. Reading'
  BY <1>1, <1>2 DEF ServerInv, Reading
<1>4. Connected' /\ Reads'
  BY DEF ServerInv, Connected, Reads
<1> QED
  BY <1>3, <1>4 DEF ServerInv

\* The viewer sends or leaves.
LEMMA ByTheViewer ==
  ASSUME ServerInv, Sent', UNCHANGED <<client, remaining, length, message, at>>,
         client /\ Row' # << >> => Due(Row'[1], remaining, length, Current),
         client /\ viewer' = "open" /\ Row' = << >> => remaining = 0
  PROVE  ServerInv'
<1>1. Current' = Current
  BY DEF Current
<1>2. Reading' /\ Connected' /\ Reads'
  BY <1>1 DEF ServerInv, Reading, Connected, Reads
<1> QED
  BY <1>2 DEF ServerInv

\* The server has no viewer any more.
LEMMA Disconnected ==
  ASSUME Sent', client' = FALSE, at' \notin {"first", "rest"}, length' \in Nat, remaining' \in Nat
  PROVE  ServerInv'
BY DEF ServerInv, Reading, Connected, Reads

-----------------------------------------------------------------------------
(* The steps of the viewers.                                               *)

\* When a viewer has sent all it began, it may begin a frame.
LEMMA BeginsAFrame ==
  ASSUME ServerInv, viewer = "open", owed = << >>, NEW q \in Seq(Items), InARow(q),
         q # << >>, Starts(q[1]), Ends(q[Len(q)]), frames' \in Nat, viewer' = viewer,
         inbox' \in Seq(Items), owed' \in Seq(Items), Row' = inbox \o q,
         UNCHANGED <<client, remaining, length, message, at>>
  PROVE  ServerInv'
<1>1. inbox \in Seq(Items) /\ Row = inbox
  BY ConcatEmptySeq DEF ServerInv, Sent, Row
<1>2. InARow(inbox) /\ (inbox # << >> => Ends(inbox[Len(inbox)]))
  BY <1>1 DEF ServerInv, Sent
<1>3. PICK r : r = inbox \o q
  OBVIOUS
<1>4. /\ r \in Seq(Items) /\ InARow(r) /\ r # << >> /\ r[Len(r)] = q[Len(q)]
      /\ r[1] = IF inbox = << >> THEN q[1] ELSE inbox[1]
  <2>1. PICK p \in Seq(Items) : p = inbox /\ InARow(p) /\ EndsAFrame(p)
    BY <1>1, <1>2 DEF EndsAFrame
  <2>2. BeginsFrame(q)
    BY DEF BeginsFrame
  <2>3. Joins(p, q, p \o q)
    BY <2>1, <2>2, RowAfterRow
  <2> QED
    BY <1>3, <2>1, <2>3 DEF Joins
<1>5. Sent'
  BY <1>3, <1>4 DEF Sent
<1>6. client => Due(r[1], remaining, length, Current)
  <2>1. CASE inbox = << >>
    BY <1>1, <1>4, <2>1 DEF ServerInv, Reading, Due
  <2>2. CASE inbox # << >>
    BY <1>1, <1>4, <2>2 DEF ServerInv, Reading
  <2> QED
    BY <2>1, <2>2
<1> QED
  BY <1>3, <1>4, <1>5, <1>6, ByTheViewer

LEMMA SendKeeps ==
  ASSUME NEW n \in Lengths, NEW k \in 0..n, ServerInv, Send(n, k)
  PROVE  ServerInv'
<1>1. n \in Nat /\ k \in Nat /\ k <= n
  BY RemoteryServerAssumption
<1>2. /\ viewer = "open" /\ owed = << >> /\ frames' = frames + 1 /\ viewer' = viewer
      /\ UNCHANGED <<client, remaining, length, message, at>>
  BY DEF Send
<1>3. frames + 1 \in Nat /\ inbox \in Seq(Items)
  BY DEF ServerInv, Sent
<1>4. PICK q \in Seq(Items) : /\ q = Frame(frames + 1, n) /\ Len(q) = n + 1 /\ q # << >>
                              /\ InARow(q) /\ Starts(q[1]) /\ Ends(q[n + 1])
  <2>1. PICK f \in Nat : f = frames + 1
    BY <1>3
  <2>2. PICK q : q = Frame(f, n)
    OBVIOUS
  <2>3. /\ q \in Seq(Items) /\ Len(q) = n + 1 /\ q # << >> /\ InARow(q)
        /\ Starts(q[1]) /\ Ends(q[n + 1])
    BY <1>1, <2>2, FrameIsARow
  <2> QED
    BY <2>1, <2>2, <2>3
<1>5. PICK a \in Seq(Items), b \in Seq(Items) :
        a = SubSeq(q, 1, k + 1) /\ b = SubSeq(q, k + 2, n + 1) /\ a \o b = q
  <2>1. /\ 1 \in 1..(Len(q) + 1) /\ k + 1 \in (1 - 1)..Len(q) /\ Len(q) \in (k + 1)..Len(q)
        /\ k + 1 + 1 = k + 2
    BY <1>1, <1>4
  <2>2. SubSeq(q, 1, k + 1) \o SubSeq(q, k + 2, n + 1) = SubSeq(q, 1, n + 1)
    BY <1>4, <2>1, ConcatAdjacentSubSeq
  <2>3. SubSeq(q, 1, n + 1) = q
    BY <1>4, SubSeqFull
  <2>4. \A i \in 1..(n + 1) : q[i] \in Items
    BY <1>4, ElementOfSeq
  <2>5. SubSeq(q, 1, k + 1) \in Seq(Items)
    <3>1. \A i \in 1..(k + 1) : q[i] \in Items
      BY <1>1, <2>4
    <3> QED
      BY <1>1, <3>1, SubSeqProperties
  <2>6. SubSeq(q, k + 2, n + 1) \in Seq(Items)
    <3>1. \A i \in (k + 2)..(n + 1) : q[i] \in Items
      BY <1>1, <2>4
    <3> QED
      BY <1>1, <3>1, SubSeqProperties
  <2> QED
    BY <2>2, <2>3, <2>5, <2>6
<1>6. inbox' = inbox \o a /\ owed' = b
  BY <1>4, <1>5 DEF Send
<1>7. inbox' \in Seq(Items)
  BY <1>3, <1>6, ConcatProperties
<1>8. Row' = inbox \o q
  <2>1. PICK p \in Seq(Items) : p = inbox
    BY <1>3
  <2>2. (p \o a) \o b = p \o (a \o b)
    BY ConcatAssociative
  <2> QED
    BY <1>5, <1>6, <2>1, <2>2 DEF Row
<1> QED
  BY <1>2, <1>3, <1>4, <1>6, <1>7, <1>8, BeginsAFrame

LEMMA SendHeadKeeps ==
  ASSUME NEW kind \in Goodbyes, ServerInv, SendHead(kind)
  PROVE  ServerInv'
<1>1. PICK x : x = [kind |-> kind]
  OBVIOUS
<1>2. x \in Items /\ x.kind \in Goodbyes
  BY <1>1 DEF Items
<1>3. Starts(x) /\ Ends(x)
  BY <1>2 DEF Starts, Ends, Goodbyes
<1>4. PICK q \in Seq(Items) : q = <<x>> /\ InARow(q) /\ q # << >> /\ Len(q) = 1 /\ q[1] = x
  BY <1>2, ShortRows
<1>5. /\ viewer = "open" /\ owed = << >> /\ frames' = frames + 1 /\ viewer' = viewer
      /\ inbox' = Append(inbox, x) /\ owed' = owed
      /\ UNCHANGED <<client, remaining, length, message, at>>
  BY <1>1 DEF SendHead
<1>6. frames + 1 \in Nat /\ inbox \in Seq(Items) /\ owed' \in Seq(Items)
  BY <1>5 DEF ServerInv, Sent
<1>7. inbox' \in Seq(Items) /\ inbox' = inbox \o q
  BY <1>2, <1>4, <1>5, <1>6, AppendProperties, AppendIsConcat
<1>8. Row' = inbox \o q
  BY <1>5, <1>7, ConcatEmptySeq DEF Row
<1> QED
  BY <1>3, <1>4, <1>5, <1>6, <1>7, <1>8, BeginsAFrame

LEMMA SendRestKeeps ==
  ASSUME ServerInv, SendRest
  PROVE  ServerInv'
<1>1. /\ viewer = "open" /\ viewer' = viewer /\ inbox' = Row /\ owed' = << >> /\ frames' = frames
      /\ UNCHANGED <<client, remaining, length, message, at>>
  BY DEF SendRest, Row
<1>2. Row \in Seq(Items)
  BY ConcatProperties DEF ServerInv, Sent, Row
<1>3. Row' = Row
  BY <1>1, <1>2, ConcatEmptySeq DEF Row
<1>4. Sent'
  BY <1>1, <1>2, <1>3, EmptySeq DEF ServerInv, Sent
<1> QED
  BY <1>1, <1>3, <1>4, ByTheViewer DEF ServerInv, Reading

LEMMA LeaveKeeps ==
  ASSUME ServerInv, Leave
  PROVE  ServerInv'
<1>1. /\ viewer = "open" /\ viewer' = "closed" /\ owed' = << >> /\ inbox' = inbox /\ frames' = frames
      /\ UNCHANGED <<client, remaining, length, message, at>>
  BY DEF Leave
<1>2. inbox \in Seq(Items) /\ owed \in Seq(Items) /\ InARow(inbox \o owed)
  BY DEF ServerInv, Sent, Row
<1>3. Row' = inbox
  BY <1>1, <1>2, ConcatEmptySeq DEF Row
<1>4. InARow(inbox) /\ (inbox # << >> => Row # << >> /\ Row[1] = inbox[1])
  BY <1>2, BeginningOfRow DEF Row
<1>5. Sent'
  BY <1>1, <1>2, <1>3, <1>4, EmptySeq DEF ServerInv, Sent
<1>6. client /\ Row' # << >> => Due(Row'[1], remaining, length, Current)
  BY <1>3, <1>4 DEF ServerInv, Reading
<1> QED
  BY <1>1, <1>5, <1>6, ByTheViewer

-----------------------------------------------------------------------------
(* The steps of the server.                                                *)

LEMMA CloseKeeps ==
  ASSUME ServerInv, Close
  PROVE  ServerInv'
<1>1. /\ at = "closing" /\ client = FALSE
      /\ UNCHANGED <<frames, owed, client, remaining, length, message>>
  BY DEF Close, ServerInv, Connected
<1>2. length \in Nat /\ remaining \in Nat /\ Sent
  BY DEF ServerInv, Reading
<1>3. CASE inbox # << >>
  <2>1. inbox' = Tail(inbox) /\ UNCHANGED <<viewer, at>>
    BY <1>3 DEF Close
  <2>2. Sent'
    BY <1>1, <1>2, <1>3, <2>1, ReadOne
  <2> QED
    BY <1>1, <1>2, <2>1, <2>2, Disconnected
<1>4. CASE inbox = << >>
  <2>1. inbox' = inbox /\ viewer' = "away" /\ at' = "ping" /\ viewer \in {"closed", "reset"}
    BY <1>4 DEF Close, Ended
  <2>2. owed = << >>
    BY <1>2, <2>1 DEF Sent
  <2>3. Sent'
    BY <1>1, <1>2, <1>4, <2>1, <2>2, NothingRead
  <2> QED
    BY <1>1, <1>2, <2>1, <2>3, Disconnected
<1> QED
  BY <1>3, <1>4

LEMMA AcceptConnectionKeeps ==
  ASSUME ServerInv, AcceptConnection
  PROVE  ServerInv'
<1>1. /\ at = "update" /\ client = FALSE /\ at' = "ping"
      /\ UNCHANGED <<inbox, frames, owed, length, message>>
  BY DEF AcceptConnection, ServerInv, Connected
<1>2. length \in Nat /\ remaining \in Nat /\ Sent
  BY DEF ServerInv, Reading
<1>3. CASE viewer' = viewer /\ client' = client /\ remaining' = remaining
  <2>1. Sent'
    BY <1>1, <1>2, <1>3, NothingRead DEF Sent
  <2> QED
    BY <1>1, <1>2, <1>3, <2>1, Disconnected
<1>4. ASSUME viewer = "waiting", viewer' \in {"open", "away"}
      PROVE  Sent' /\ Row' = << >>
  <2>1. inbox = << >> /\ owed = << >>
    BY <1>2, <1>4 DEF Sent
  <2>2. Row = << >>
    <3>1. << >> \o << >> = << >>
      BY EmptySeq, ConcatEmptySeq
    <3> QED
      BY <2>1, <3>1 DEF Row
  <2> QED
    BY <1>1, <1>2, <1>4, <2>1, <2>2, NothingRead
<1>5. CASE viewer = "waiting" /\ viewer' = "open" /\ client' = TRUE /\ remaining' = 0
  <2>1. Sent' /\ Row' = << >>
    BY <1>4, <1>5
  <2>2. Reading'
    BY <1>1, <1>2, <1>5, <2>1 DEF Reading
  <2>3. Connected' /\ Reads'
    BY <1>1, <1>5 DEF Connected, Reads
  <2> QED
    BY <2>1, <2>2, <2>3 DEF ServerInv
<1>6. CASE viewer = "waiting" /\ viewer' = "away" /\ client' = client /\ remaining' = remaining
  <2>1. Sent'
    BY <1>4, <1>6
  <2> QED
    BY <1>1, <1>2, <1>6, <2>1, Disconnected
<1> QED
  BY <1>3, <1>5, <1>6 DEF AcceptConnection

LEMMA ReceiveFrameHeaderKeeps ==
  ASSUME ServerInv, ReceiveFrameHeader
  PROVE  ServerInv'
<1>1. /\ at = "first" /\ remaining = 0 /\ inbox # << >> /\ inbox' = Tail(inbox) /\ client
      /\ UNCHANGED <<owed, frames, viewer>>
  BY DEF ReceiveFrameHeader, ServerInv, Connected
<1>2. length \in Nat /\ Sent
  BY DEF ServerInv, Reading
<1>3. PICK x : x = Head(inbox)
  OBVIOUS
<1>4. /\ Sent' /\ x \in Items
      /\ Row' # << >> => Continues(x, Row'[1])
      /\ viewer = "open" /\ Row' = << >> => Ends(x)
  BY <1>1, <1>2, <1>3, ReadOne
<1>5. CASE x.kind = "head"
  <2>1. /\ remaining' = x.n /\ length' = x.n /\ at' = "first" /\ client' = client
    BY <1>1, <1>3, <1>5 DEF ReceiveFrameHeader
  <2>2. x.n \in Nat /\ (Ends(x) <=> x.n = 0)
    BY <1>4, <1>5, AfterHead
  <2>3. Row' # << >> => Due(Row'[1], x.n, x.n, Nat)
    BY <1>4, <1>5, AfterHead
  <2>4. Current' = Nat
    BY <2>1 DEF Current
  <2>5. Reading'
    BY <1>1, <1>4, <2>1, <2>2, <2>3, <2>4 DEF Reading
  <2>6. Connected' /\ Reads'
    BY <1>1, <2>1 DEF ServerInv, Connected, Reads
  <2> QED
    BY <1>4, <2>5, <2>6 DEF ServerInv
<1>6. CASE x.kind # "head"
  <2>1. client' = FALSE /\ at' = "closing" /\ UNCHANGED <<remaining, length>>
    BY <1>3, <1>6 DEF ReceiveFrameHeader, Disconnect
  <2> QED
    BY <1>1, <1>2, <1>4, <2>1, Disconnected
<1> QED
  BY <1>5, <1>6

\* A byte of a frame is read: it is the next one, and so is what comes after.
LEMMA ByteRead ==
  ASSUME ServerInv, client, remaining # 0, inbox # << >>, inbox' = Tail(inbox),
         UNCHANGED <<owed, frames, viewer>>
  PROVE  /\ Sent' /\ Head(inbox) \in Items
         /\ remaining - 1 \in Nat /\ remaining - 1 <= length
         /\ \E f \in Current :
              /\ Head(inbox) = Byte(f, length - remaining + 1, length)
              /\ Row' # << >> => Due(Row'[1], remaining - 1, length, {f})
         /\ viewer = "open" /\ Row' = << >> => remaining - 1 = 0
<1>1. length \in Nat /\ remaining \in Nat /\ remaining <= length /\ Sent
  BY DEF ServerInv, Reading
<1>2. PICK x : x = Head(inbox)
  OBVIOUS
<1>3. /\ Sent' /\ x \in Items /\ Row # << >> /\ Row[1] = x
      /\ Row' # << >> => Continues(x, Row'[1])
      /\ viewer = "open" /\ Row' = << >> => Ends(x)
  BY <1>1, <1>2, ReadOne
<1>4. Due(x, remaining, length, Current)
  BY <1>3 DEF ServerInv, Reading
<1>5. PICK f \in Current : x = Byte(f, length - remaining + 1, length)
  BY <1>4 DEF Due
<1>6. /\ Ends(x) <=> remaining = 1
      /\ \A y : Continues(x, y) => Due(y, remaining - 1, length, {f})
  BY <1>1, <1>5, AfterByte
<1>7. remaining - 1 \in Nat /\ remaining - 1 <= length
  BY <1>1
<1>8. viewer = "open" /\ Row' = << >> => remaining - 1 = 0
  BY <1>1, <1>3, <1>6
<1> QED
  BY <1>2, <1>3, <1>5, <1>6, <1>7, <1>8

LEMMA ReceiveFirstKeeps ==
  ASSUME ServerInv, ReceiveFirst
  PROVE  ServerInv'
<1>1. /\ at = "first" /\ remaining # 0 /\ inbox # << >> /\ inbox' = Tail(inbox) /\ client
      /\ message' = <<Head(inbox)>> /\ remaining' = remaining - 1
      /\ UNCHANGED <<owed, frames, viewer, client, length>>
  BY DEF ReceiveFirst, ServerInv, Connected
<1>2. length \in Nat /\ remaining \in Nat
  BY DEF ServerInv, Reading
<1>3. Current = Nat
  BY <1>1 DEF Current
<1>4. /\ Sent' /\ Head(inbox) \in Items
      /\ remaining - 1 \in Nat /\ remaining - 1 <= length
      /\ viewer = "open" /\ Row' = << >> => remaining - 1 = 0
  BY <1>1, ByteRead
<1>5. PICK f \in Nat : /\ Head(inbox) = Byte(f, length - remaining + 1, length)
                       /\ Row' # << >> => Due(Row'[1], remaining - 1, length, {f})
  BY <1>1, <1>3, ByteRead
<1>6. PICK x \in Items : x = Head(inbox) /\ message' = <<x>>
  BY <1>1, <1>4
<1>7. x.frame = f
  BY <1>5, <1>6 DEF Byte
<1>8. PICK m \in Seq(Items) : m = message' /\ Len(m) = 1 /\ m[1] = x /\ m # << >> /\ DOMAIN m = 1..1
  <2>1. PICK m : m = <<x>>
    OBVIOUS
  <2>2. m \in Seq(Items) /\ Len(m) = 1 /\ m[1] = x /\ m # << >>
    BY <1>6, <2>1, ShortRows
  <2>3. DOMAIN m = 1..1
    BY <2>2, LenProperties
  <2> QED
    BY <1>6, <2>1, <2>2, <2>3
<1>9. CASE length >= MaxLength
  <2>1. at' = "first"
    BY <1>9 DEF ReceiveFirst
  <2>2. Current' = Nat
    BY <2>1 DEF Current
  <2>3. Row' # << >> => Due(Row'[1], remaining - 1, length, Nat)
    BY <1>5 DEF Due
  <2>4. Reading'
    BY <1>1, <1>2, <1>4, <1>9, <2>1, <2>2, <2>3 DEF Reading
  <2>5. Connected' /\ Reads'
    BY <1>1, <2>1 DEF ServerInv, Connected, Reads
  <2> QED
    BY <1>4, <2>4, <2>5 DEF ServerInv
<1>10. CASE ~(length >= MaxLength)
  <2>1. at' = "rest"
    BY <1>10 DEF ReceiveFirst
  <2>2. remaining = length
    BY <1>1, <1>10 DEF ServerInv, Reading
  <2>3. Current' = {f}
    BY <1>7, <1>8, <2>1 DEF Current
  <2>4. Reading'
    BY <1>1, <1>2, <1>4, <1>5, <2>1, <2>3 DEF Reading
  <2>5. x = Byte(f, 1, length)
    <3>1. length - remaining + 1 = 1
      BY <1>2, <2>2
    <3> QED
      BY <1>5, <1>6, <3>1
  <2>6. \A k \in DOMAIN m : m[k] = Byte(f, k, length)
    <3>1. \A k \in 1..1 : k = 1
      OBVIOUS
    <3> QED
      BY <1>8, <2>5, <3>1
  <2>7. Len(m) = length - (remaining - 1)
    BY <1>2, <1>8, <2>2
  <2>8. Reads'
    BY <1>1, <1>7, <1>8, <2>6, <2>7 DEF Reads
  <2>9. Connected'
    BY <1>1, <2>1 DEF ServerInv, Connected
  <2> QED
    BY <1>4, <2>4, <2>8, <2>9 DEF ServerInv
<1> QED
  BY <1>9, <1>10

LEMMA ReceiveRestKeeps ==
  ASSUME ServerInv, ReceiveRest
  PROVE  ServerInv'
<1>1. /\ at = "rest" /\ Len(message) < length /\ client
      /\ UNCHANGED <<owed, frames, viewer, length>>
  BY DEF ReceiveRest, Whole, Disconnect, ServerInv, Connected
<1>2. length \in Nat /\ remaining \in Nat /\ remaining <= length /\ Sent
  BY <1>1 DEF ServerInv, Reading
<1>3. PICK m \in Seq(Items) : /\ m = message /\ m # << >> /\ m[1].frame \in Nat
                              /\ Len(m) = length - remaining
                              /\ \A k \in DOMAIN m : m[k] = Byte(m[1].frame, k, length)
  BY <1>1 DEF ServerInv, Reads
<1>4. PICK f \in Nat : f = m[1].frame
  BY <1>3
<1>5. ASSUME inbox # << >>, inbox' = Tail(inbox), message' = Append(message, Head(inbox)),
             remaining' = remaining - 1, UNCHANGED <<client, length, at>>
      PROVE  ServerInv'
  <2>1. remaining # 0
    BY <1>1, <1>2, <1>3
  <2>2. Current = {f}
    BY <1>1, <1>3, <1>4 DEF Current
  <2>3. /\ Sent' /\ Head(inbox) \in Items
        /\ remaining - 1 \in Nat /\ remaining - 1 <= length
        /\ viewer = "open" /\ Row' = << >> => remaining - 1 = 0
    BY <1>1, <1>5, <2>1, ByteRead
  <2>4. /\ Head(inbox) = Byte(f, length - remaining + 1, length)
        /\ Row' # << >> => Due(Row'[1], remaining - 1, length, {f})
    BY <1>1, <1>5, <2>1, <2>2, ByteRead
  <2>5. PICK x \in Items : x = Head(inbox)
    BY <2>3
  <2>6. PICK l \in Nat : l = Len(m) /\ l # 0 /\ DOMAIN m = 1..l
    BY <1>3, LenProperties, EmptySeq
  <2>7. PICK n \in Seq(Items) : n = Append(m, x)
    BY AppendProperties
  <2>8. /\ n # << >> /\ Len(n) = l + 1 /\ DOMAIN n = 1..(l + 1) /\ n[l + 1] = x
        /\ \A k \in 1..l : n[k] = m[k]
    <3>1. /\ Append(m, x) # << >> /\ Len(Append(m, x)) = l + 1
          /\ \A k \in 1..l : Append(m, x)[k] = m[k]
          /\ Append(m, x)[l + 1] = x
      BY <2>6, AppendProperties
    <3> QED
      BY <2>7, <3>1, LenProperties
  <2>9. x = Byte(f, l + 1, length)
    BY <1>2, <1>3, <2>4, <2>5, <2>6
  <2>10. \A k \in DOMAIN n : n[k] = Byte(f, k, length)
    <3>1. ASSUME NEW k \in 1..(l + 1) PROVE k \in 1..l \/ k = l + 1
      BY <2>6
    <3> QED
      BY <1>3, <1>4, <2>6, <2>8, <2>9, <3>1
  <2>11. n[1].frame = f
    <3>1. 1 \in 1..l
      BY <2>6
    <3> QED
      BY <1>4, <2>8, <3>1
  <2>12. message' = n
    BY <1>3, <1>5, <2>5, <2>7
  <2>13. Current' = {f}
    BY <1>1, <1>5, <2>11, <2>12 DEF Current
  <2>14. Reading'
    BY <1>1, <1>2, <1>5, <2>3, <2>4, <2>13 DEF Reading
  <2>15. Len(n) = length - (remaining - 1)
    BY <1>2, <1>3, <2>6, <2>8
  <2>16. Reads'
    BY <1>1, <1>5, <2>8, <2>10, <2>11, <2>12, <2>15 DEF Reads
  <2>17. Connected'
    BY <1>1, <1>5 DEF ServerInv, Connected
  <2> QED
    BY <2>3, <2>14, <2>16, <2>17 DEF ServerInv
<1>6. CASE Disconnect /\ inbox' = inbox
  <2>1. client' = FALSE /\ at' = "closing" /\ UNCHANGED <<remaining, length>>
    BY <1>6 DEF Disconnect
  <2>2. Sent'
    BY <1>1, <1>2, <1>6, NothingRead DEF Sent
  <2> QED
    BY <1>2, <2>1, <2>2, Disconnected
<1> QED
  BY <1>1, <1>5, <1>6 DEF ReceiveRest

\* An answer or a ping, sent between messages.
LEMMA SendOnKeeps ==
  ASSUME ServerInv, NEW next \in {"first", "sleep"}, SendOn(next), UNCHANGED <<inbox, owed, frames>>,
         at = "rest" => remaining = 0, next = "first" => client
  PROVE  ServerInv'
<1>1. length \in Nat /\ remaining \in Nat /\ Sent /\ client \in BOOLEAN
  BY DEF ServerInv, Reading, Connected
<1>2. viewer \in {"away", "waiting", "open", "closed", "reset"}
  BY <1>1 DEF Sent
<1>3. CASE Disconnect /\ viewer' = viewer
  <2>1. client' = FALSE /\ at' = "closing" /\ UNCHANGED <<remaining, length>>
    BY <1>3 DEF Disconnect
  <2>2. Sent'
    BY <1>1, <1>2, <1>3, NothingRead
  <2> QED
    BY <1>1, <2>1, <2>2, Disconnected
<1>4. CASE /\ viewer' = IF client /\ viewer = "closed" THEN "reset" ELSE viewer
           /\ at' = next /\ UNCHANGED <<client, shut, remaining, length, message>>
  <2>1. viewer' # viewer => viewer = "closed" /\ viewer' = "reset"
    BY <1>4
  <2>2. viewer' \in {"away", "waiting", "open", "closed", "reset"}
    BY <1>2, <1>4
  <2>3. viewer = "closed" => owed = << >>
    BY <1>1 DEF Sent
  <2>4. Sent' /\ Row' = Row
    BY <1>1, <2>1, <2>2, <2>3, NothingRead
  <2>5. viewer' = "open" => viewer = "open"
    BY <2>1
  <2> QED
    BY <1>1, <1>4, <2>4, <2>5, BetweenMessages
<1> QED
  BY <1>3, <1>4 DEF SendOn

LEMMA DispatchKeeps ==
  ASSUME ServerInv, Dispatch
  PROVE  ServerInv'
<1>1. /\ at = "rest" /\ Len(message) = length /\ client /\ UNCHANGED <<inbox, owed, frames>>
  BY DEF Dispatch, Whole, ServerInv, Connected
<1>2. length \in Nat /\ remaining \in Nat /\ Len(message) = length - remaining /\ Sent
  BY <1>1 DEF ServerInv, Reading, Reads
<1>3. remaining = 0
  BY <1>1, <1>2
<1>4. CASE SendOn("first")
  BY <1>1, <1>3, <1>4, SendOnKeeps
<1>5. CASE at' = "first" /\ UNCHANGED <<viewer, client, shut, remaining, length, message>>
  <2>1. Sent' /\ Row' = Row
    BY <1>1, <1>2, <1>5, NothingRead DEF Sent
  <2> QED
    BY <1>1, <1>3, <1>5, <2>1, BetweenMessages DEF ServerInv, Connected
<1> QED
  BY <1>4, <1>5 DEF Dispatch

LEMMA PingKeeps ==
  ASSUME ServerInv, Ping
  PROVE  ServerInv'
<1>1. at = "ping" /\ UNCHANGED <<inbox, owed, frames>>
  BY DEF Ping
<1>2. CASE due
  BY <1>1, <1>2, SendOnKeeps DEF Ping
<1>3. CASE ~due
  <2>1. at' = "sleep" /\ UNCHANGED <<viewer, client, remaining, length>>
    BY <1>3 DEF Ping
  <2>2. Sent' /\ Row' = Row
    BY <1>1, <2>1, NothingRead DEF ServerInv, Sent
  <2> QED
    BY <1>1, <2>1, <2>2, BetweenMessages DEF ServerInv, Connected
<1> QED
  BY <1>2, <1>3

\* Steps that leave the row, the connection and what is read alone.
LEMMA OtherSteps ==
  ASSUME ServerInv, UNCHANGED <<inbox, owed, frames, remaining, length, client>>,
         \/ viewer' = viewer /\ at' = at /\ message' = message
         \/ viewer' = viewer /\ at # "rest" /\ at' \notin {"rest", "first", "closing"}
         \/ viewer' = viewer /\ at # "rest" /\ at' = "first" /\ client
         \/ viewer = "away" /\ viewer' = "waiting" /\ at' = at /\ message' = message
  PROVE  ServerInv'
<1>1. Sent
  BY DEF ServerInv
<1>2. viewer \in {"away", "waiting", "open", "closed", "reset"}
  BY <1>1 DEF Sent
<1>3. viewer' # viewer => viewer = "away" /\ viewer' = "waiting"
  OBVIOUS
<1>4. viewer = "away" => owed = << >> /\ inbox = << >>
  BY <1>1 DEF Sent
<1>5. Sent' /\ Row' = Row
  BY <1>1, <1>2, <1>3, <1>4, NothingRead
<1>6. viewer' = "open" => viewer = "open"
  BY <1>3
<1>7. CASE at' = at /\ message' = message
  BY <1>5, <1>6, <1>7, ByTheViewer DEF ServerInv, Reading
<1>8. CASE at # "rest" /\ at' \notin {"rest", "first", "closing"}
  BY <1>5, <1>6, <1>8, BetweenMessages DEF ServerInv, Connected
<1>9. CASE at # "rest" /\ at' = "first" /\ client
  BY <1>5, <1>6, <1>9, BetweenMessages DEF ServerInv, Connected
<1> QED
  BY <1>7, <1>8, <1>9

-----------------------------------------------------------------------------
(* The theorems.                                                           *)

LEMMA ServerStep ==
  ServerInv /\ [Next]_vars => ServerInv'
<1> SUFFICES ASSUME ServerInv, [Next]_vars PROVE ServerInv'
  OBVIOUS
<1>1. CASE CreateListenSocket
  BY <1>1, OtherSteps DEF CreateListenSocket, net
<1>2. CASE AcceptConnection
  BY <1>2, AcceptConnectionKeeps
<1>3. CASE StartReceiving
  BY <1>3, OtherSteps DEF StartReceiving, net
<1>4. CASE Close
  BY <1>4, CloseKeeps
<1>5. CASE ReceiveFrameHeader
  BY <1>5, ReceiveFrameHeaderKeeps
<1>6. CASE ReceiveFirst
  BY <1>6, ReceiveFirstKeeps
<1>7. CASE ReceiveNothing
  <2>1. at = "first" /\ UNCHANGED <<inbox, owed, frames, viewer>>
    BY <1>7 DEF ReceiveNothing, net
  <2>2. CASE Disconnect
    <3>1. Sent'
      BY <2>1, NothingRead DEF ServerInv, Sent
    <3> QED
      BY <2>2, <3>1, Disconnected DEF Disconnect, ServerInv, Reading
  <2>3. CASE at' = "ping" /\ UNCHANGED <<client, shut, remaining, length, message>>
    BY <2>1, <2>3, OtherSteps
  <2> QED
    BY <1>7, <2>2, <2>3 DEF ReceiveNothing
<1>8. CASE ReceiveRest
  BY <1>8, ReceiveRestKeeps
<1>9. CASE Dispatch
  BY <1>9, DispatchKeeps
<1>10. CASE Ping
  BY <1>10, PingKeeps
<1>11. CASE Sleep
  BY <1>11, OtherSteps DEF Sleep, net
<1>12. CASE Connect
  BY <1>12, OtherSteps DEF Connect
<1>13. CASE Leave
  BY <1>13, LeaveKeeps
<1>14. CASE SendRest
  BY <1>14, SendRestKeeps
<1>15. ASSUME NEW n \in Lengths, NEW k \in 0..n, Send(n, k) PROVE ServerInv'
  BY <1>15, SendKeeps
<1>16. ASSUME NEW kind \in Goodbyes, SendHead(kind) PROVE ServerInv'
  BY <1>16, SendHeadKeeps
<1>17. CASE TakePort \/ FreePort \/ Tick \/ RequestExit
  BY <1>17, OtherSteps DEF TakePort, FreePort, Tick, RequestExit, net
<1>18. CASE UNCHANGED vars
  BY <1>18, OtherSteps DEF vars, net
<1>19. CASE Thread
  BY <1>1, <1>2, <1>3, <1>4, <1>5, <1>6, <1>7, <1>8, <1>9, <1>10, <1>11, <1>19 DEF Thread
<1>20. CASE Viewers
  BY <1>12, <1>13, <1>14, <1>15, <1>16, <1>20 DEF Viewers, SeesShutdown, Goodbyes
<1> QED
  BY <1>17, <1>18, <1>19, <1>20 DEF Next

\* What lies between a viewer and the server is a row of frames, and what the
\* server has read of one decides what comes first, however viewers send, stop
\* and leave (Server_Update, WebSocket_Receive, TCPSocket_Close).
THEOREM FramesAlwaysInARow == Spec => []ServerInv
<1>1. Init => ServerInv
  <2> SUFFICES ASSUME Init PROVE ServerInv
    OBVIOUS
  <2>1. inbox = << >> /\ owed = << >> /\ Row = << >>
    BY EmptySeq, ConcatEmptySeq DEF Init, Row
  <2>2. InARow(Row)
    BY <2>1, ShortRows
  <2>3. Sent
    BY <2>1, <2>2, EmptySeq DEF Init, Sent
  <2>4. Reading /\ Connected /\ Reads
    BY DEF Init, Reading, Connected, Reads
  <2> QED
    BY <2>3, <2>4 DEF ServerInv
<1> QED
  BY <1>1, ServerStep, PTL DEF Spec

\* What is dispatched is a whole message of one frame, byte for byte, and the
\* server reads only while a viewer is connected (Server_ReceiveMessage).
THEOREM ViewersAlwaysGetTheirOwn == Spec => []ViewersGetTheirOwn
<1>1. ServerInv => ViewersGetTheirOwn
  <2> SUFFICES ASSUME ServerInv PROVE ViewersGetTheirOwn
    OBVIOUS
  <2>1. DispatchIsWhole
    BY DEF ServerInv, Reads, DispatchIsWhole
  <2>2. ReadsAreOfAClient
    BY DEF ServerInv, Connected, ReadsAreOfAClient
  <2> QED
    BY <2>1, <2>2 DEF ViewersGetTheirOwn
<1> QED
  BY <1>1, FramesAlwaysInARow, PTL
=============================================================================
