---------------------------- MODULE MessageQueue ----------------------------
(***************************************************************************)
(* rmtMessageQueue of Remotery.c: threads write messages into a ring of    *)
(* memory and one thread reads them.  A place is claimed by a compare and  *)
(* swap of the write position, written, and then published by its id; the  *)
(* reader clears what it read before it gives the place back, because the  *)
(* next message there is "not ready" only by what the memory holds.  The   *)
(* ring is mapped twice in a row, so that a message may run past its end.  *)
(* A message is a cell for its id, one for its payload's size and the      *)
(* payload's cells.                                                        *)
(***************************************************************************)
EXTENDS Integers, Sequences, FiniteSetsExt

CONSTANTS
  Threads,    \* the threads that write: positive integers, which fill their payloads
  Size,       \* cells of the ring
  Wrap,       \* the positions count modulo this: 2^32 in the code
  Payloads    \* the sizes of the payloads

ASSUME MessageQueueAssumption ==
  /\ Threads \subseteq Nat \ {0} /\ Payloads \subseteq Nat
  /\ Size \in Nat \ {0} /\ Wrap \in Nat /\ 4 * Size <= Wrap

VARIABLES
  data,       \* cell -> its value
  readPos, writePos,
  writer,     \* thread -> where it is, the size it asked for, the positions it read
  reader,     \* where the reader is and what it read
  pending     \* the messages claimed and not yet given back, oldest first

vars == <<data, readPos, writePos, writer, reader, pending>>

NotReady == 0
Ready == 1
Message(n) == n + 2

\* (p & (Size - 1)): the remainder when Size is a power of two.
Bit(a, k) == (a \div 2^k) % 2
Bits == {k \in 0..Size : 2^k < Size}
Masked(p) == MapThenSumSet(LAMBDA k : 2^k * Bit(p, k) * Bit(Size - 1, k), Bits)

\* The mask is the remainder only of a size that is a power of two, and the
\* cell at a position stays the same where the positions wrap.
ASSUME MaskAssumption ==
  /\ Wrap % Size = 0
  /\ \A p \in 0..(Wrap - 1) : Masked(p) = p % Size

\* The cells of n in a row from position p, through the mirror.
Cell(p, k) == (Masked(p) + k) % Size
Cells(p, n) == { Cell(p, k) : k \in 0..(n - 1) }

\* The difference of two unsigned positions, as a signed integer.
Signed(a) == IF a % Wrap < Wrap \div 2 THEN a % Wrap ELSE (a % Wrap) - Wrap

Idle == [at |-> "idle", n |-> 0, r |-> 0, w |-> 0]
Asleep == [at |-> "idle", n |-> 0, thread |-> 0]

Init ==
  /\ data = [c \in 0..(Size - 1) |-> NotReady]
  /\ readPos = 0 /\ writePos = 0 /\ pending = << >>
  /\ writer = [t \in Threads |-> Idle] /\ reader = Asleep

\* AllocMessage reads the positions one after the other.
Ask(t, n) ==
  /\ writer[t].at = "idle"
  /\ writer' = [writer EXCEPT ![t] = [at |-> "asking", n |-> n, r |-> readPos, w |-> 0]]
  /\ UNCHANGED <<data, readPos, writePos, reader, pending>>

\* There is room for the message after what is between the positions.
Fits(t) == Signed(writePos - writer[t].r) <= Size - Message(writer[t].n)

\* Without room the message is dropped.
Load(t) ==
  /\ writer[t].at = "asking"
  /\ writer' = [writer EXCEPT ![t] = IF Fits(t) THEN [@ EXCEPT !.at = "claiming", !.w = writePos]
                                     ELSE Idle]
  /\ UNCHANGED <<data, readPos, writePos, reader, pending>>

\* For the mutants: the position is moved without comparing it.
Anyway(t) == TRUE

\* The comparison of the compare and swap.
Unmoved(t) == writePos = writer[t].w

\* The compare and swap, which sends a thread that lost back to read again.
Claim(t) ==
  /\ writer[t].at = "claiming"
  /\ IF Unmoved(t)
     THEN /\ writePos' = (writePos + Message(writer[t].n)) % Wrap
          /\ pending' = Append(pending, [thread |-> t, n |-> writer[t].n])
          /\ writer' = [writer EXCEPT ![t].at = "claimed"]
     ELSE /\ writer' = [writer EXCEPT ![t] = [at |-> "asking", n |-> @.n, r |-> readPos, w |-> 0]]
          /\ UNCHANGED <<writePos, pending>>
  /\ UNCHANGED <<data, readPos, reader>>

\* The size and the payload, in what was claimed.
Fill(t) ==
  LET p == writer[t].w
      n == writer[t].n
  IN /\ writer[t].at = "claimed"
     /\ data' = [c \in DOMAIN data |->
                   IF c = Cell(p, 1) THEN n
                   ELSE IF \E k \in 2..(n + 1) : c = Cell(p, k) THEN t ELSE data[c]]
     /\ writer' = [writer EXCEPT ![t].at = "filled"]
     /\ UNCHANGED <<readPos, writePos, reader, pending>>

CommitMessage(t) ==
  /\ writer[t].at = "filled"
  /\ data' = [data EXCEPT ![Cell(writer[t].w, 0)] = Ready]
  /\ writer' = [writer EXCEPT ![t] = Idle]
  /\ UNCHANGED <<readPos, writePos, reader, pending>>

\* What a payload holds, all of it the same.
Content(payload) == IF payload = {} THEN 0 ELSE CHOOSE t \in payload : payload = {t}

\* PeekNextMessage, and what its caller then reads of the message.
PeekNextMessage ==
  /\ reader.at = "idle"
  /\ writePos # readPos /\ data[Cell(readPos, 0)] # NotReady
  /\ LET n == data[Cell(readPos, 1)]
         payload == { data[Cell(readPos, k)] : k \in 2..(n + 1) }
     IN reader' = [at |-> "reading", n |-> n,
                   thread |-> Content(payload)]
  /\ UNCHANGED <<data, readPos, writePos, writer, pending>>

\* For the mutants: the id alone is cleared.
ClearId(p, n) == [data EXCEPT ![Cell(p, 0)] = NotReady]

\* The memory with a message of n cells at p cleared.
Cleared(p, n) == [c \in DOMAIN data |-> IF c \in Cells(p, n) THEN NotReady ELSE data[c]]

\* ConsumeNextMessage: first the memory, then the position.
ClearMessage ==
  /\ reader.at = "reading"
  /\ data' = Cleared(readPos, Message(reader.n))
  /\ reader' = [reader EXCEPT !.at = "cleared"]
  /\ UNCHANGED <<readPos, writePos, writer, pending>>

Advance ==
  /\ reader.at = "cleared"
  /\ readPos' = (readPos + Message(reader.n)) % Wrap
  /\ reader' = Asleep /\ pending' = Tail(pending)
  /\ UNCHANGED <<data, writePos, writer>>

Write(t) == \/ \E n \in Payloads : Ask(t, n)
            \/ Load(t) \/ Claim(t) \/ Fill(t) \/ CommitMessage(t)
Read == PeekNextMessage \/ ClearMessage \/ Advance

Next == Read \/ \E t \in Threads : Write(t)

Spec == Init /\ [][Next]_vars
-----------------------------------------------------------------------------
\* No thread is held up between reading the positions and claiming while half
\* of all positions go by: 2 GiB of messages in the code.
Prompt ==
  \A t \in Threads : writer[t].at \in {"asking", "claiming"} =>
    (writePos - writer[t].r) % Wrap < Wrap \div 2

\* The cells between the two positions.
Used == LET held == Signed(writePos - readPos)
        IN { (readPos + k) % Size : k \in 0..(held - 1) }

\* What the reader reads is the oldest message claimed, whole: its own size
\* and payload, whatever the others have claimed, filled or committed.
MessagesAreWhole ==
  reader.at = "reading" =>
    /\ pending # << >> /\ Head(pending).n = reader.n
    /\ reader.n > 0 => Head(pending).thread = reader.thread

\* Memory no message holds is clear, so that a message claimed there is not
\* ready until it is committed; and no more is claimed than there is.
FreeCellsAreClear ==
  /\ Signed(writePos - readPos) \in 0..Size
  /\ \A c \in DOMAIN data : c \notin Used => data[c] = NotReady

\* The queue keeps what is written to it until it is read, and nothing longer
\* (AllocMessage, CommitMessage, PeekNextMessage and ConsumeNextMessage).
QueueKeepsMessages == MessagesAreWhole /\ FreeCellsAreClear
=============================================================================
