------------------------- MODULE ConsoleInputProofs -------------------------
(***************************************************************************)
(* Proofs about ConsoleInput, for every size of the ring, of the line and  *)
(* of the UART's queue: the type invariant, and that ring, line buffer and *)
(* interrupt handlers implement Console.                                   *)
(***************************************************************************)
EXTENDS ConsoleInput, DivMod, SequenceTheorems

-----------------------------------------------------------------------------
(* The inductive invariant.                                                *)

\* Task 0 reads the ring only while it holds a character, and takes the
\* oldest one, although more may arrive between the steps.
RingInv ==
  /\ Waiting \in Seq(Chars)
  /\ pc \in {"read", "advance"} => ring_tail # ring_head
  /\ pc = "advance" => c = ring[ring_tail]
  /\ pc \in {"advance", "input"} => c \in Chars
  /\ pc \notin {"advance", "input"} => c = None

\* The line that has been edited has no terminator in it, and the line a
\* command reads has one.
LineInv ==
  /\ \A i \in 0..(line_len - 1) : line_buf[i] \in Printable
  /\ pc = "execute" => /\ line_len = 0
                       /\ \E k \in 0..(LINE_MAX - 1) :
                            line_buf[k] = NUL /\ \A i \in 0..(k - 1) : line_buf[i] \in Printable

IInv ==
  /\ TypeOK
  /\ RingInv
  /\ LineInv

-----------------------------------------------------------------------------
(* The ring as a queue.                                                    *)

\* A remainder by the size of the ring is one turn more, or less, or none.
Wrap(x) == IF x < 0 THEN x + RING_SIZE ELSE IF x < RING_SIZE THEN x ELSE x - RING_SIZE

\* The indices the ring computes are at most one turn out of range.
LEMMA WrapMod ==
  ASSUME NEW x \in Int, -RING_SIZE <= x, x < 2 * RING_SIZE
  PROVE  x % RING_SIZE = Wrap(x) /\ Wrap(x) \in Slots
<1>1. RING_SIZE \in Nat \ {0} /\ RING_SIZE \in Int
  BY RingAssumption
<1>2. CASE x < 0
  <2>1. Wrap(x) = x + RING_SIZE /\ x + RING_SIZE \in 0..(RING_SIZE - 1)
    BY ONLY <1>1, <1>2, x \in Int, -RING_SIZE <= x DEF Wrap
  <2>2. x % RING_SIZE = x + RING_SIZE
    BY ONLY <1>1, <1>2, x \in Int, -RING_SIZE <= x
  <2> QED
    BY <2>1, <2>2 DEF Slots
<1>3. CASE 0 <= x /\ x < RING_SIZE
  <2>1. Wrap(x) = x /\ x \in 0..(RING_SIZE - 1)
    BY ONLY <1>1, <1>3, x \in Int DEF Wrap
  <2>2. x % RING_SIZE = x
    BY ONLY <1>1, <1>3, x \in Int
  <2> QED
    BY <2>1, <2>2 DEF Slots
<1>4. CASE RING_SIZE <= x
  <2>1. Wrap(x) = x - RING_SIZE /\ x - RING_SIZE \in 0..(RING_SIZE - 1)
    BY ONLY <1>1, <1>4, x \in Int, x < 2 * RING_SIZE DEF Wrap
  <2>2. x % RING_SIZE = x - RING_SIZE
    BY ONLY <1>1, <1>4, x \in Int, x < 2 * RING_SIZE
  <2> QED
    BY <2>1, <2>2 DEF Slots
<1> QED
  BY ONLY <1>1, <1>2, <1>3, <1>4, x \in Int

\* Waiting, for any ring.
WaitingOf(rg, h, t) == [i \in 1..((h - t) % RING_SIZE) |-> rg[(t + i - 1) % RING_SIZE]]

\* The queue's length and its elements.
LEMMA QueueFacts ==
  ASSUME NEW rg \in [Slots -> Chars \cup {NUL}], NEW h \in Slots, NEW t \in Slots
  PROVE  /\ WaitingOf(rg, h, t) \in Seq(Chars \cup {NUL})
         /\ Len(WaitingOf(rg, h, t)) = Wrap(h - t)
         /\ Wrap(h - t) \in 0..(RING_SIZE - 1)
         /\ \A i \in 1..Wrap(h - t) : /\ WaitingOf(rg, h, t)[i] = rg[Wrap(t + i - 1)]
                                      /\ Wrap(t + i - 1) \in Slots
<1> DEFINE n == Wrap(h - t)
<1>1. /\ RING_SIZE \in Nat \ {0} /\ h \in 0..(RING_SIZE - 1) /\ t \in 0..(RING_SIZE - 1)
      /\ h - t \in Int /\ -RING_SIZE <= h - t /\ h - t < 2 * RING_SIZE
  BY RingAssumption DEF Slots
<1>2. (h - t) % RING_SIZE = n /\ n \in 0..(RING_SIZE - 1)
  BY <1>1, WrapMod DEF Slots
<1> HIDE DEF n
<1>3. ASSUME NEW i \in 1..n
      PROVE  /\ (t + i - 1) % RING_SIZE = Wrap(t + i - 1)
             /\ Wrap(t + i - 1) \in Slots
  <2>1. t + i - 1 \in Int /\ -RING_SIZE <= t + i - 1 /\ t + i - 1 < 2 * RING_SIZE
    BY ONLY <1>1, <1>2, <1>3
  <2> QED
    BY <2>1, WrapMod
<1>4. WaitingOf(rg, h, t) = [i \in 1..n |-> rg[Wrap(t + i - 1)]]
  BY <1>2, <1>3 DEF WaitingOf
<1>5. \A i \in 1..n : rg[Wrap(t + i - 1)] \in Chars \cup {NUL}
  BY <1>3
<1>6. WaitingOf(rg, h, t) \in Seq(Chars \cup {NUL}) /\ Len(WaitingOf(rg, h, t)) = n
  <2> DEFINE f == [i \in 1..n |-> rg[Wrap(t + i - 1)]]
  <2>1. f \in [1..n -> Chars \cup {NUL}] /\ n \in Nat
    BY <1>2, <1>5
  <2> HIDE DEF f
  <2>2. f \in Seq(Chars \cup {NUL}) /\ Len(f) = n
    BY ONLY <2>1, IsASeq, LenProperties
  <2> QED
    BY <1>4, <2>2 DEF f
<1> QED
  BY <1>2, <1>3, <1>4, <1>6 DEF n

\* shell_push_char appends to the queue.
LEMMA PushQueue ==
  ASSUME NEW rg \in [Slots -> Chars \cup {NUL}], NEW h \in Slots, NEW t \in Slots, NEW ch \in Chars,
         (h + 1) % RING_SIZE # t
  PROVE  WaitingOf([rg EXCEPT ![h] = ch], (h + 1) % RING_SIZE, t) = Append(WaitingOf(rg, h, t), ch)
<1> DEFINE g == [rg EXCEPT ![h] = ch]
           k == (h + 1) % RING_SIZE
           V == WaitingOf(g, k, t)
           W == WaitingOf(rg, h, t)
<1>1. /\ RING_SIZE \in Nat \ {0} /\ RING_SIZE >= 2
      /\ h \in 0..(RING_SIZE - 1) /\ t \in 0..(RING_SIZE - 1)
      /\ h + 1 \in Int /\ -RING_SIZE <= h + 1 /\ h + 1 < 2 * RING_SIZE
  BY RingAssumption DEF Slots
<1>2. k = Wrap(h + 1) /\ k \in Slots /\ k \in 0..(RING_SIZE - 1) /\ k # t
  BY <1>1, WrapMod DEF Slots
<1>3. g \in [Slots -> Chars \cup {NUL}]
  OBVIOUS
<1> HIDE DEF k, g
<1>4. /\ V \in Seq(Chars \cup {NUL}) /\ Len(V) = Wrap(k - t)
      /\ \A i \in 1..Wrap(k - t) : V[i] = g[Wrap(t + i - 1)] /\ Wrap(t + i - 1) \in Slots
  BY <1>2, <1>3, QueueFacts
<1>5. /\ W \in Seq(Chars \cup {NUL}) /\ Len(W) = Wrap(h - t)
      /\ \A i \in 1..Wrap(h - t) : W[i] = rg[Wrap(t + i - 1)] /\ Wrap(t + i - 1) \in Slots
  BY QueueFacts
<1> HIDE DEF V, W
<1>6. Wrap(k - t) = Wrap(h - t) + 1 /\ Wrap(h - t) \in Nat
  BY ONLY <1>1, <1>2 DEF Wrap
<1>7. Wrap(t + (Wrap(h - t) + 1) - 1) = h
  BY ONLY <1>1 DEF Wrap
<1>8. ASSUME NEW i \in 1..Wrap(h - t) PROVE Wrap(t + i - 1) # h
  BY ONLY <1>1, <1>8 DEF Wrap
<1>9. /\ Append(W, ch) \in Seq(Chars \cup {NUL}) /\ Len(Append(W, ch)) = Wrap(h - t) + 1
      /\ \A i \in 1..Wrap(h - t) : Append(W, ch)[i] = W[i]
      /\ Append(W, ch)[Wrap(h - t) + 1] = ch
  BY <1>5, AppendProperties
<1>10. ASSUME NEW i \in 1..(Wrap(h - t) + 1) PROVE V[i] = Append(W, ch)[i]
  <2>1. CASE i = Wrap(h - t) + 1
    BY <1>4, <1>6, <1>7, <1>9, <2>1 DEF g
  <2>2. CASE i \in 1..Wrap(h - t)
    BY <1>4, <1>5, <1>6, <1>8, <1>9, <2>2 DEF g
  <2>3. i = Wrap(h - t) + 1 \/ i \in 1..Wrap(h - t)
    BY ONLY <1>6, i \in 1..(Wrap(h - t) + 1)
  <2> QED
    BY <2>1, <2>2, <2>3
<1>11. V = Append(W, ch)
  BY <1>4, <1>6, <1>9, <1>10, SeqEqual
<1> QED
  BY <1>11 DEF V, W, k, g

\* The ring is full exactly when RING_SIZE - 1 characters wait.
LEMMA FullQueue ==
  ASSUME NEW rg \in [Slots -> Chars \cup {NUL}], NEW h \in Slots, NEW t \in Slots
  PROVE  (h + 1) % RING_SIZE # t <=> Len(WaitingOf(rg, h, t)) < RING_SIZE - 1
<1>1. /\ RING_SIZE \in Nat \ {0} /\ RING_SIZE >= 2
      /\ h \in 0..(RING_SIZE - 1) /\ t \in 0..(RING_SIZE - 1)
      /\ h + 1 \in Int /\ -RING_SIZE <= h + 1 /\ h + 1 < 2 * RING_SIZE
  BY RingAssumption DEF Slots
<1>2. (h + 1) % RING_SIZE = Wrap(h + 1)
  BY <1>1, WrapMod
<1>3. Wrap(h + 1) # t <=> Wrap(h - t) < RING_SIZE - 1
  BY ONLY <1>1 DEF Wrap
<1> QED
  BY <1>2, <1>3, QueueFacts

\* Reading ring[ring_tail] and advancing ring_tail takes the oldest character.
LEMMA PopQueue ==
  ASSUME NEW rg \in [Slots -> Chars \cup {NUL}], NEW h \in Slots, NEW t \in Slots, h # t
  PROVE  /\ WaitingOf(rg, h, t) # <<>>
         /\ Head(WaitingOf(rg, h, t)) = rg[t]
         /\ WaitingOf(rg, h, (t + 1) % RING_SIZE) = Tail(WaitingOf(rg, h, t))
<1> DEFINE k == (t + 1) % RING_SIZE
           V == WaitingOf(rg, h, k)
           W == WaitingOf(rg, h, t)
<1>1. /\ RING_SIZE \in Nat \ {0} /\ RING_SIZE >= 2
      /\ h \in 0..(RING_SIZE - 1) /\ t \in 0..(RING_SIZE - 1)
      /\ t + 1 \in Int /\ -RING_SIZE <= t + 1 /\ t + 1 < 2 * RING_SIZE
  BY RingAssumption DEF Slots
<1>2. k = Wrap(t + 1) /\ k \in Slots /\ k \in 0..(RING_SIZE - 1)
  BY <1>1, WrapMod DEF Slots
<1> HIDE DEF k
<1>3. /\ V \in Seq(Chars \cup {NUL}) /\ Len(V) = Wrap(h - k)
      /\ \A i \in 1..Wrap(h - k) : V[i] = rg[Wrap(k + i - 1)] /\ Wrap(k + i - 1) \in Slots
  BY <1>2, QueueFacts
<1>4. /\ W \in Seq(Chars \cup {NUL}) /\ Len(W) = Wrap(h - t)
      /\ \A i \in 1..Wrap(h - t) : W[i] = rg[Wrap(t + i - 1)] /\ Wrap(t + i - 1) \in Slots
  BY QueueFacts
<1> HIDE DEF V, W
<1>5. /\ Wrap(h - k) \in Nat /\ Wrap(h - t) \in Nat
      /\ Wrap(h - t) = Wrap(h - k) + 1 /\ Wrap(t + 1 - 1) = t
  BY ONLY <1>1, <1>2, h # t DEF Wrap
<1>6. ASSUME NEW i \in 1..Wrap(h - k)
      PROVE  Wrap(k + i - 1) = Wrap(t + (i + 1) - 1) /\ i + 1 \in 1..Wrap(h - t)
  BY ONLY <1>1, <1>2, <1>5, <1>6, h # t DEF Wrap
<1>7. W # <<>>
  BY <1>4, <1>5, EmptySeq
<1>8. Head(W) = W[1] /\ 1 \in 1..Wrap(h - t)
  BY <1>4, <1>5, <1>7
<1>9. /\ Tail(W) \in Seq(Chars \cup {NUL}) /\ Len(Tail(W)) = Wrap(h - k)
      /\ \A i \in 1..Wrap(h - k) : Tail(W)[i] = W[i + 1]
  BY <1>4, <1>5, <1>7, HeadTailProperties
<1>10. V = Tail(W)
  BY <1>3, <1>4, <1>5, <1>6, <1>9, SeqEqual
<1> QED
  BY <1>4, <1>5, <1>7, <1>8, <1>10 DEF V, W, k

\* What a push leaves alone, and what it adds: the new character is the last
\* of the queue, or it is lost because the queue is full. The oldest
\* character stays where task 0 may be about to read it.
LEMMA PushFacts ==
  ASSUME TypeOK, RingInv, NEW ch \in Chars, shell_push_char(ch)
  PROVE  /\ ring' \in [Slots -> Chars \cup {NUL}] /\ ring_head' \in Slots /\ ring_tail' = ring_tail
         /\ lost' \in BOOLEAN /\ Waiting' \in Seq(Chars)
         /\ ring_tail # ring_head => ring_tail' # ring_head' /\ ring'[ring_tail'] = ring[ring_tail]
         /\ IF Len(Waiting) < RING_SIZE - 1 THEN Waiting' = Append(Waiting, ch) /\ lost' = FALSE
                                            ELSE lost' = TRUE /\ Waiting' = Waiting
<1> DEFINE next == (ring_head + 1) % RING_SIZE
<1>1. /\ ring \in [Slots -> Chars \cup {NUL}] /\ ring_head \in Slots /\ ring_tail \in Slots
      /\ ring_tail' = ring_tail /\ Waiting \in Seq(Chars)
  BY DEF TypeOK, RingInv, shell_push_char
<1>2. /\ Waiting = WaitingOf(ring, ring_head, ring_tail)
      /\ Waiting' = WaitingOf(ring', ring_head', ring_tail')
  BY DEF Waiting, WaitingOf
<1>3. next \in Slots
  <2>1. ring_head + 1 \in Int /\ -RING_SIZE <= ring_head + 1 /\ ring_head + 1 < 2 * RING_SIZE
    BY <1>1, RingAssumption DEF Slots
  <2> QED
    BY <2>1, WrapMod
<1>4. next # ring_tail <=> Len(Waiting) < RING_SIZE - 1
  BY <1>1, <1>2, FullQueue
<1>5. CASE next = ring_tail
  <2>1. ring' = ring /\ ring_head' = ring_head /\ lost' = TRUE
    BY <1>5 DEF shell_push_char
  <2> QED
    BY <1>1, <1>2, <1>4, <1>5, <2>1
<1>6. CASE next # ring_tail
  <2>1. ring' = [ring EXCEPT ![ring_head] = ch] /\ ring_head' = next /\ lost' = FALSE
    BY <1>6 DEF shell_push_char
  <2>2. Waiting' = Append(Waiting, ch)
    BY <1>1, <1>2, <1>6, <2>1, PushQueue
  <2>3. Append(Waiting, ch) \in Seq(Chars)
    BY <1>1, AppendProperties
  <2> HIDE DEF next
  <2> QED
    BY <1>1, <1>3, <1>4, <1>6, <2>1, <2>2, <2>3
<1> QED
  BY <1>5, <1>6

-----------------------------------------------------------------------------
(* The line as a string.                                                   *)

\* CString, for any buffer.
StringAt(lb) ==
  LET n == CHOOSE k \in 0..LINE_MAX : /\ \A i \in 0..(k - 1) : lb[i] # NUL
                                      /\ k < LINE_MAX => lb[k] = NUL
  IN  [i \in 1..n |-> lb[i - 1]]

\* The string at line_buf ends at the first terminator.
LEMMA StringFacts ==
  ASSUME NEW lb, NEW k \in 0..(LINE_MAX - 1), lb[k] = NUL,
         \A i \in 0..(k - 1) : lb[i] \in Printable
  PROVE  /\ StringAt(lb) = [i \in 1..k |-> lb[i - 1]]
         /\ StringAt(lb) \in Seq(Printable) /\ StringAt(lb) # None
<1> DEFINE P(m) == /\ \A i \in 0..(m - 1) : lb[i] # NUL
                   /\ m < LINE_MAX => lb[m] = NUL
           n == CHOOSE m \in 0..LINE_MAX : P(m)
           s == [i \in 1..k |-> lb[i - 1]]
<1>1. LINE_MAX \in Nat \ {0} /\ k \in Nat /\ k \in 0..LINE_MAX /\ k < LINE_MAX
  BY LineAssumption
<1>2. P(k)
  BY DEF NUL, Printable
<1>3. ASSUME NEW m \in 0..LINE_MAX, P(m) PROVE m = k
  <2>1. CASE m < k
    <3>1. m \in 0..(k - 1) /\ m < LINE_MAX
      BY <1>1, <2>1
    <3> QED
      BY <1>3, <3>1 DEF NUL, Printable
  <2>2. CASE k < m
    <3>1. k \in 0..(m - 1)
      BY <1>1, <2>2
    <3> QED
      BY <1>3, <3>1
  <2> QED
    BY <1>1, <2>1, <2>2
<1> HIDE DEF P
<1>4. n = k
  BY <1>1, <1>2, <1>3
<1>5. StringAt(lb) = s
  BY <1>4 DEF StringAt, P
<1>6. ASSUME NEW i \in 1..k PROVE lb[i - 1] \in Printable
  <2>1. i - 1 \in 0..(k - 1)
    BY <1>1
  <2> QED
    BY <2>1
<1>7. s \in Seq(Printable)
  BY <1>1, <1>6, IsASeq
<1> QED
  BY <1>5, <1>7, NoneAssumption

-----------------------------------------------------------------------------
(* The invariant is inductive.                                             *)

\* Interrupts and the steps of task 0 outside shell_input_char leave the
\* line alone.
LEMMA LineKept ==
  ASSUME LineInv, UNCHANGED lineVars, pc' = "execute" => pc = "execute"
  PROVE  LineInv'
BY DEF LineInv, lineVars

\* What a handler that pushes nothing preserves: waking task 0 moves it to a
\* place where it holds no character.
LEMMA RingKept ==
  ASSUME RingInv, UNCHANGED <<ringVars, c>>, Wake \/ UNCHANGED pc
  PROVE  RingInv'
<1>1. Waiting' = Waiting
  BY DEF Waiting, ringVars
<1> QED
  BY <1>1 DEF RingInv, Wake, ringVars

\* What a handler that pushes a character preserves: a character that task 0
\* is reading stays the oldest.
LEMMA RingPushed ==
  ASSUME TypeOK, RingInv, NEW ch \in Chars, shell_push_char(ch), UNCHANGED c, Wake \/ UNCHANGED pc
  PROVE  RingInv'
<1>1. /\ Waiting' \in Seq(Chars)
      /\ ring_tail # ring_head => ring_tail' # ring_head' /\ ring'[ring_tail'] = ring[ring_tail]
  BY PushFacts
<1>2. pc' = pc \/ (pc = "halted" /\ pc' = "poll")
  BY DEF Wake
<1> QED
  BY <1>1, <1>2 DEF RingInv

\* The characters the serial line delivers.
LEMMA TranslateChars ==
  ASSUME uart \in Seq(Bytes), uart # <<>>
  PROVE  Translate(Head(uart)) \in Chars /\ Tail(uart) \in Seq(Bytes) /\ Len(Tail(uart)) < Len(uart)
<1>1. Head(uart) \in Bytes /\ Tail(uart) \in Seq(Bytes) /\ Len(Tail(uart)) < Len(uart)
  BY HeadTailProperties, LenProperties
<1> QED
  BY <1>1, BytesAssumption DEF Translate, Chars, Printable, Controls

\* The characters the keyboard delivers.
LEMMA KeyChars ==
  ASSUME NEW m \in {normal_map, shift_map}, NEW sc \in DOMAIN m, m[sc] # NUL
  PROVE  m[sc] \in Chars
BY DEF normal_map, shift_map, Chars, Printable, Controls, NUL

\* A keyboard interrupt pushes one character or none.
LEMMA KeyboardStep ==
  ASSUME NEW sc \in Scancodes, keyboard_handler(sc)
  PROVE  /\ ~inIrq /\ Wake /\ UNCHANGED <<uart, lineVars, c, inIrq>> /\ shift_down' \in {shift_down, TRUE, FALSE}
         /\ \/ UNCHANGED <<ringVars, lost>>
            \/ \E ch \in Chars : shell_push_char(ch)
<1> DEFINE map == IF shift_down THEN shift_map ELSE normal_map
<1>1. map \in {normal_map, shift_map}
  OBVIOUS
<1>2. "BS" \in Chars
  BY DEF Chars, Controls
<1> HIDE DEF map
<1>3. /\ ~inIrq /\ Wake /\ UNCHANGED <<uart, lineVars, c, inIrq>>
      /\ \/ UNCHANGED <<ringVars, lost>> /\ shift_down' \in {shift_down, TRUE, FALSE}
         \/ shell_push_char("BS") /\ shift_down' = shift_down
         \/ /\ sc \in DOMAIN map /\ shift_down' = shift_down
            /\ IF map[sc] = NUL THEN UNCHANGED <<ringVars, lost>> ELSE shell_push_char(map[sc])
  BY DEF keyboard_handler, map
<1>4. CASE UNCHANGED <<ringVars, lost>> /\ shift_down' \in {shift_down, TRUE, FALSE}
  BY <1>3, <1>4
<1>5. CASE shell_push_char("BS") /\ shift_down' = shift_down
  BY <1>2, <1>3, <1>5
<1>6. CASE /\ sc \in DOMAIN map /\ shift_down' = shift_down
           /\ IF map[sc] = NUL THEN UNCHANGED <<ringVars, lost>> ELSE shell_push_char(map[sc])
  BY <1>1, <1>3, <1>6, KeyChars
<1> QED
  BY <1>3, <1>4, <1>5, <1>6

\* The interrupt handlers preserve the invariant.
LEMMA InterruptsInv ==
  ASSUME IInv, receive \/ serial_irq \/ serial_handler \/ timer_irq
               \/ \E sc \in Scancodes : keyboard_handler(sc)
  PROVE  IInv'
<1> USE DEF IInv
<1>1. CASE receive
  <2>1. PICK byte \in Bytes : uart' = Append(uart, byte)
    BY <1>1 DEF receive
  <2>2. uart' \in Seq(Bytes) /\ Len(uart') <= FIFO_SIZE
    <3>1. uart \in Seq(Bytes) /\ Len(uart) < FIFO_SIZE /\ Len(uart) \in Nat
      BY <1>1, LenProperties DEF receive, TypeOK
    <3> QED
      BY <2>1, <3>1, AppendProperties, FifoAssumption
  <2>3. UNCHANGED <<shift_down, ringVars, lineVars, pc, c, inIrq, lost>>
    BY <1>1 DEF receive
  <2>4. TypeOK'
    BY <2>2, <2>3 DEF TypeOK, ringVars, lineVars
  <2> QED
    BY <2>3, <2>4, RingKept, LineKept
<1>2. CASE serial_irq \/ timer_irq
  <2>1. UNCHANGED <<shift_down, uart, ringVars, lineVars, c, lost>> /\ Wake /\ inIrq' \in BOOLEAN
    BY <1>2 DEF serial_irq, timer_irq, TypeOK
  <2>2. TypeOK'
    BY <2>1 DEF TypeOK, ringVars, lineVars, Wake
  <2>3. pc' = "execute" => pc = "execute"
    BY <2>1 DEF Wake
  <2> QED
    BY <2>1, <2>2, <2>3, RingKept, LineKept
<1>3. CASE serial_handler
  <2>1. UNCHANGED <<shift_down, lineVars, pc, c>>
    BY <1>3 DEF serial_handler
  <2>2. LineInv'
    BY <2>1, LineKept
  <2>3. CASE uart # <<>>
    <3> DEFINE ch == Translate(Head(uart))
    <3>1. shell_push_char(ch) /\ uart' = Tail(uart) /\ UNCHANGED inIrq
      BY <1>3, <2>3 DEF serial_handler
    <3>2. ch \in Chars /\ uart' \in Seq(Bytes) /\ Len(uart') < Len(uart)
      BY <2>3, <3>1, TranslateChars DEF TypeOK
    <3> HIDE DEF ch
    <3>3. RingInv'
      BY <2>1, <3>1, <3>2, RingPushed
    <3>4. /\ ring' \in [Slots -> Chars \cup {NUL}] /\ ring_head' \in Slots
          /\ ring_tail' = ring_tail /\ lost' \in BOOLEAN
      BY <3>1, <3>2, PushFacts
    <3>5. Len(uart') <= FIFO_SIZE
      BY <3>2, FifoAssumption, LenProperties DEF TypeOK
    <3>6. TypeOK'
      BY <2>1, <3>1, <3>2, <3>4, <3>5 DEF TypeOK, lineVars
    <3> QED
      BY <2>2, <3>3, <3>6
  <2>4. CASE uart = <<>>
    <3>1. inIrq' = FALSE /\ UNCHANGED <<uart, ringVars, lost>>
      BY <1>3, <2>4 DEF serial_handler
    <3>2. TypeOK'
      BY <2>1, <3>1 DEF TypeOK, ringVars, lineVars
    <3> QED
      BY <2>1, <2>2, <3>1, <3>2, RingKept
  <2> QED
    BY <2>3, <2>4
<1>4. ASSUME NEW sc \in Scancodes, keyboard_handler(sc) PROVE IInv'
  <2>1. /\ Wake /\ UNCHANGED <<uart, lineVars, c, inIrq>> /\ shift_down' \in {shift_down, TRUE, FALSE}
        /\ UNCHANGED <<ringVars, lost>> \/ \E ch \in Chars : shell_push_char(ch)
    BY <1>4, KeyboardStep
  <2>2. pc' = "execute" => pc = "execute"
    BY <2>1 DEF Wake
  <2>3. LineInv'
    BY <2>1, <2>2, LineKept
  <2>4. CASE UNCHANGED <<ringVars, lost>>
    <3>1. TypeOK'
      BY <2>1, <2>4 DEF TypeOK, ringVars, lineVars, Wake
    <3> QED
      BY <2>1, <2>3, <2>4, <3>1, RingKept
  <2>5. ASSUME NEW ch \in Chars, shell_push_char(ch) PROVE IInv'
    <3>1. /\ ring' \in [Slots -> Chars \cup {NUL}] /\ ring_head' \in Slots
          /\ ring_tail' = ring_tail /\ lost' \in BOOLEAN
      BY <2>5, PushFacts
    <3>2. TypeOK'
      BY <2>1, <3>1 DEF TypeOK, lineVars, Wake
    <3> QED
      BY <2>1, <2>3, <2>5, <3>2, RingPushed
  <2> QED
    BY <2>1, <2>4, <2>5
<1> QED
  BY <1>1, <1>2, <1>3, <1>4

\* The step of shell_input_char on the line: the length stays inside the
\* buffer, and what is before it has no terminator.
LEMMA LineStep ==
  ASSUME IInv, shell_input_char
  PROVE  /\ line_buf' \in [0..(LINE_MAX - 1) -> Printable \cup {NUL}]
         /\ line_len' \in 0..(LINE_MAX - 1)
         /\ pc' \in {"poll", "execute"}
         /\ LineInv'
<1>1. /\ line_buf \in [0..(LINE_MAX - 1) -> Printable \cup {NUL}]
      /\ line_len \in 0..(LINE_MAX - 1) /\ LINE_MAX \in Nat \ {0}
      /\ \A i \in 0..(line_len - 1) : line_buf[i] \in Printable
  BY LineAssumption DEF IInv, TypeOK, LineInv
<1>2. CASE /\ line_len' = (IF line_len > 0 THEN line_len - 1 ELSE 0)
           /\ pc' = "poll" /\ UNCHANGED line_buf
  BY <1>1, <1>2 DEF LineInv
<1>3. CASE line_buf' = Terminated /\ line_len' = 0 /\ pc' = "execute"
  <2>1. /\ line_buf' \in [0..(LINE_MAX - 1) -> Printable \cup {NUL}] /\ line_buf'[line_len] = NUL
        /\ \A i \in 0..(line_len - 1) : line_buf'[i] \in Printable
    BY <1>1, <1>3 DEF Terminated
  <2>2. \A i \in 0..(line_len' - 1) : line_buf'[i] \in Printable
    BY <1>3
  <2>3. line_len' \in 0..(LINE_MAX - 1)
    BY <1>1, <1>3
  <2> QED
    BY <1>1, <1>3, <2>1, <2>2, <2>3 DEF LineInv
<1>4. CASE /\ c \in Printable /\ HasRoom
           /\ line_buf' = [line_buf EXCEPT ![line_len] = c] /\ line_len' = line_len + 1
           /\ pc' = "poll"
  <2>1. line_len' \in 0..(LINE_MAX - 1)
    BY <1>1, <1>4 DEF HasRoom
  <2>2. line_buf' \in [0..(LINE_MAX - 1) -> Printable \cup {NUL}]
    BY <1>1, <1>4
  <2>3. \A i \in 0..(line_len' - 1) : line_buf'[i] \in Printable
    BY <1>1, <1>4
  <2> QED
    BY <1>4, <2>1, <2>2, <2>3 DEF LineInv
<1>5. CASE pc' = "poll" /\ UNCHANGED lineVars
  BY <1>1, <1>5 DEF LineInv, lineVars
<1> QED
  BY <1>2, <1>3, <1>4, <1>5 DEF shell_input_char

\* Advancing ring_tail takes the character that was read off the queue.
LEMMA AdvanceQueue ==
  ASSUME IInv, advance
  PROVE  Waiting # <<>> /\ Waiting' = Tail(Waiting) /\ Head(Waiting) = c
<1> DEFINE k == (ring_tail + 1) % RING_SIZE
<1>1. /\ ring_tail' = k /\ UNCHANGED <<ring, ring_head>>
      /\ ring_tail # ring_head /\ c = ring[ring_tail]
      /\ ring \in [Slots -> Chars \cup {NUL}] /\ ring_head \in Slots /\ ring_tail \in Slots
  BY DEF advance, IInv, TypeOK, RingInv
<1>2. /\ WaitingOf(ring, ring_head, ring_tail) # <<>>
      /\ Head(WaitingOf(ring, ring_head, ring_tail)) = ring[ring_tail]
      /\ WaitingOf(ring, ring_head, k) = Tail(WaitingOf(ring, ring_head, ring_tail))
  BY <1>1, PopQueue
<1> HIDE DEF k
<1>3. /\ Waiting = WaitingOf(ring, ring_head, ring_tail)
      /\ Waiting' = WaitingOf(ring, ring_head, k)
  BY <1>1 DEF Waiting, WaitingOf
<1> QED
  BY <1>1, <1>2, <1>3

\* The steps of task 0 preserve the invariant.
LEMMA TaskInv ==
  ASSUME IInv, Task0
  PROVE  IInv'
<1> USE DEF IInv
<1>1. CASE poll \/ hlt \/ shell_execute
  <2>1. /\ UNCHANGED <<shift_down, uart, ringVars, lineVars, c, inIrq, lost>>
        /\ pc' \in {"poll", "read", "hlt", "halted"} /\ pc \notin {"advance", "input"}
        /\ pc' = "read" => ring_tail # ring_head
    BY <1>1 DEF poll, hlt, shell_execute
  <2>2. TypeOK'
    BY <2>1 DEF TypeOK, ringVars, lineVars
  <2>3. Waiting' = Waiting
    BY <2>1 DEF Waiting, ringVars
  <2>4. RingInv'
    BY <2>1, <2>3 DEF RingInv, ringVars
  <2> QED
    BY <2>1, <2>2, <2>4, LineKept
<1>2. CASE read
  <2>1. /\ UNCHANGED <<shift_down, uart, ringVars, lineVars, inIrq, lost>>
        /\ pc = "read" /\ pc' = "advance" /\ c' = ring[ring_tail]
    BY <1>2 DEF read
  <2>2. ring_tail # ring_head /\ Waiting \in Seq(Chars)
    BY <2>1 DEF RingInv
  <2>3. ring[ring_tail] \in Chars
    <3>1. Waiting # <<>> /\ Head(Waiting) = ring[ring_tail]
      <4>1. Waiting = WaitingOf(ring, ring_head, ring_tail)
        BY DEF Waiting, WaitingOf
      <4>2. ring \in [Slots -> Chars \cup {NUL}] /\ ring_head \in Slots /\ ring_tail \in Slots
        BY DEF TypeOK
      <4> QED
        BY <2>2, <4>1, <4>2, PopQueue
    <3> QED
      BY <2>2, <3>1, HeadTailProperties
  <2>4. TypeOK'
    BY <2>1, <2>3 DEF TypeOK, ringVars, lineVars
  <2>5. Waiting' = Waiting
    BY <2>1 DEF Waiting, ringVars
  <2>6. RingInv'
    BY <2>1, <2>2, <2>3, <2>5 DEF RingInv, ringVars
  <2> QED
    BY <2>1, <2>4, <2>6, LineKept
<1>3. CASE advance
  <2>1. /\ UNCHANGED <<shift_down, uart, ring, ring_head, lineVars, c, inIrq, lost>>
        /\ pc = "advance" /\ pc' = "input" /\ ring_tail' = (ring_tail + 1) % RING_SIZE
    BY <1>3 DEF advance
  <2>2. ring_tail # ring_head /\ Waiting \in Seq(Chars) /\ c \in Chars
    BY <2>1 DEF RingInv
  <2>3. Waiting # <<>> /\ Waiting' = Tail(Waiting)
    BY <1>3, AdvanceQueue
  <2>4. Waiting' \in Seq(Chars)
    BY <2>2, <2>3, HeadTailProperties
  <2>5. ring_tail' \in Slots
    <3>1. ring_tail + 1 \in Int /\ -RING_SIZE <= ring_tail + 1 /\ ring_tail + 1 < 2 * RING_SIZE
      BY RingAssumption DEF TypeOK, Slots
    <3> QED
      BY <2>1, <3>1, WrapMod
  <2>6. TypeOK'
    BY <2>1, <2>5 DEF TypeOK, lineVars
  <2>7. RingInv'
    BY <2>1, <2>2, <2>4 DEF RingInv
  <2> QED
    BY <2>1, <2>6, <2>7, LineKept
<1>4. CASE shell_input_char
  <2>1. c' = None /\ UNCHANGED <<shift_down, uart, ringVars, inIrq, lost>>
    BY <1>4 DEF shell_input_char
  <2>2. /\ line_buf' \in [0..(LINE_MAX - 1) -> Printable \cup {NUL}]
        /\ line_len' \in 0..(LINE_MAX - 1)
        /\ pc' \in {"poll", "execute"} /\ LineInv'
    BY <1>4, LineStep
  <2>3. TypeOK'
    BY <2>1, <2>2 DEF TypeOK, ringVars
  <2>4. Waiting' = Waiting
    BY <2>1 DEF Waiting, ringVars
  <2>5. RingInv'
    BY <2>1, <2>2, <2>4 DEF RingInv
  <2> QED
    BY <2>2, <2>3, <2>5
<1> QED
  BY <1>1, <1>2, <1>3, <1>4 DEF Task0

\* The inductive invariant holds in every state, whatever the sizes of the
\* ring, of line_buf and of the UART's queue.
THEOREM Invariance == Spec => []IInv
<1>1. Init => IInv
  <2> SUFFICES ASSUME Init PROVE IInv
    OBVIOUS
  <2>1. TypeOK
    <3>1. 0 \in Slots /\ 0 \in 0..(LINE_MAX - 1)
      BY RingAssumption, LineAssumption DEF Slots
    <3>2. uart \in Seq(Bytes) /\ Len(uart) <= FIFO_SIZE
      BY EmptySeq, FifoAssumption DEF Init
    <3> QED
      BY <3>1, <3>2 DEF Init, TypeOK, Slots, NUL
  <2>2. Waiting \in Seq(Chars)
    <3>1. Waiting = WaitingOf(ring, 0, 0) /\ 0 \in Slots /\ ring \in [Slots -> Chars \cup {NUL}]
      BY RingAssumption DEF Init, Waiting, WaitingOf, Slots
    <3>2. Wrap(0 - 0) = 0
      BY RingAssumption DEF Wrap
    <3>3. Waiting \in Seq(Chars \cup {NUL}) /\ Len(Waiting) = 0
      BY <3>1, <3>2, QueueFacts
    <3> QED
      BY <3>3, EmptySeq
  <2> QED
    BY <2>1, <2>2 DEF Init, IInv, RingInv, LineInv
<1>2. ASSUME IInv, [Next]_vars PROVE IInv'
  <2>1. CASE UNCHANGED vars
    <3>1. TypeOK'
      BY <1>2, <2>1 DEF IInv, TypeOK, vars, ringVars, lineVars
    <3> QED
      BY <1>2, <2>1, <3>1, RingKept, LineKept DEF IInv, vars
  <2> QED
    BY <1>2, <2>1, InterruptsInv, TaskInv DEF Next
<1> QED
  BY <1>1, <1>2, PTL DEF Spec

\* Ring, line buffer and UART keep their types and their indices stay inside
\* the arrays (shell_push_char, shell_poll, shell_input_char).
THEOREM TypeCorrect == Spec => []TypeOK
<1>1. IInv => TypeOK
  BY DEF IInv
<1> QED
  BY <1>1, Invariance, PTL

-----------------------------------------------------------------------------
(* The refinement of Console.                                              *)

\* The state of Console that Abstract makes of the kernel's.
Edited(lb, n) == [i \in 1..n |-> lb[i - 1]]
Got  == IF pc = "input" THEN c ELSE None
Line == IF pc = "execute" THEN <<>> ELSE Edited(line_buf, line_len)
Cmd  == IF pc = "execute" THEN StringAt(line_buf) ELSE None

\* The edited line is a sequence of printable characters.
LEMMA EditedFacts ==
  ASSUME NEW lb, NEW n \in Nat, \A i \in 0..(n - 1) : lb[i] \in Printable
  PROVE  /\ Edited(lb, n) \in Seq(Printable) /\ Len(Edited(lb, n)) = n
         /\ \A i \in 1..n : Edited(lb, n)[i] = lb[i - 1]
<1>1. ASSUME NEW i \in 1..n PROVE lb[i - 1] \in Printable
  <2>1. i - 1 \in 0..(n - 1)
    OBVIOUS
  <2> QED
    BY <2>1
<1> DEFINE f == Edited(lb, n)
<1>2. f \in [1..n -> Printable] /\ \A i \in 1..n : f[i] = lb[i - 1]
  BY <1>1 DEF Edited
<1> HIDE DEF f
<1>3. f \in Seq(Printable) /\ Len(f) = n
  BY <1>2, IsASeq, LenProperties
<1> QED
  BY <1>2, <1>3 DEF f

\* No character edited, no line.
LEMMA EditedNothing ==
  ASSUME NEW lb
  PROVE  Edited(lb, 0) = <<>>
BY EditedFacts, EmptySeq

\* Shortening line_len takes the last character off the line.
LEMMA EraseLine ==
  ASSUME NEW lb, NEW n \in Nat \ {0}, \A i \in 0..(n - 1) : lb[i] \in Printable
  PROVE  /\ Edited(lb, n) # <<>>
         /\ Edited(lb, n - 1) = SubSeq(Edited(lb, n), 1, Len(Edited(lb, n)) - 1)
<1> DEFINE s == Edited(lb, n)
           r == Edited(lb, n - 1)
           u == SubSeq(s, 1, n - 1)
<1>1. s \in Seq(Printable) /\ Len(s) = n /\ \A i \in 1..n : s[i] = lb[i - 1]
  BY EditedFacts
<1>2. n - 1 \in Nat /\ \A i \in 0..((n - 1) - 1) : lb[i] \in Printable
  OBVIOUS
<1>3. r \in Seq(Printable) /\ Len(r) = n - 1 /\ \A i \in 1..(n - 1) : r[i] = lb[i - 1]
  BY <1>2, EditedFacts
<1> HIDE DEF s, r
<1>4. /\ u \in Seq(Printable) /\ Len(u) = n - 1
      /\ \A i \in 1..(n - 1) : u[i] = s[i]
  BY <1>1, SubSeqProperties
<1> HIDE DEF u
<1>5. r = u
  <2>1. n - 1 \in Nat /\ \A i \in 1..(n - 1) : i \in 1..n
    OBVIOUS
  <2>2. \A i \in 1..Len(r) : r[i] = u[i]
    BY <1>1, <1>3, <1>4, <2>1
  <2> QED
    BY <1>3, <1>4, <2>2, SeqEqual
<1>6. s # <<>>
  BY <1>1, EmptySeq
<1> QED
  BY <1>1, <1>5, <1>6 DEF s, r, u

\* Storing a character at line_len appends it to the line.
LEMMA TypeLine ==
  ASSUME NEW lb \in [0..(LINE_MAX - 1) -> Printable \cup {NUL}], NEW n \in 0..(LINE_MAX - 1),
         \A i \in 0..(n - 1) : lb[i] \in Printable, NEW ch \in Printable
  PROVE  Edited([lb EXCEPT ![n] = ch], n + 1) = Append(Edited(lb, n), ch)
<1> DEFINE g == [lb EXCEPT ![n] = ch]
           s == Edited(lb, n)
           r == Edited(g, n + 1)
<1>1. n \in Nat /\ LINE_MAX \in Nat
  BY LineAssumption
<1>2. /\ \A i \in 0..((n + 1) - 1) : g[i] \in Printable
      /\ \A i \in 0..(n - 1) : g[i] = lb[i]
      /\ g[n] = ch
  BY <1>1
<1>3. s \in Seq(Printable) /\ Len(s) = n /\ \A i \in 1..n : s[i] = lb[i - 1]
  BY <1>1, EditedFacts
<1> HIDE DEF g
<1>4. r \in Seq(Printable) /\ Len(r) = n + 1 /\ \A i \in 1..(n + 1) : r[i] = g[i - 1]
  BY <1>1, <1>2, EditedFacts
<1> HIDE DEF s, r
<1>5. /\ Append(s, ch) \in Seq(Printable) /\ Len(Append(s, ch)) = n + 1
      /\ \A i \in 1..n : Append(s, ch)[i] = s[i]
      /\ Append(s, ch)[n + 1] = ch
  BY <1>3, AppendProperties
<1>6. ASSUME NEW i \in 1..(n + 1) PROVE r[i] = Append(s, ch)[i]
  <2>1. CASE i = n + 1
    BY <1>1, <1>2, <1>4, <1>5, <2>1
  <2>2. CASE i \in 1..n
    <3>1. i - 1 \in 0..(n - 1) /\ i \in 1..(n + 1)
      BY <1>1, <2>2
    <3>2. r[i] = g[i - 1] /\ g[i - 1] = lb[i - 1]
      BY <1>2, <1>4, <3>1
    <3>3. Append(s, ch)[i] = s[i] /\ s[i] = lb[i - 1]
      BY <1>3, <1>5, <2>2
    <3> QED
      BY <3>2, <3>3
  <2>3. i = n + 1 \/ i \in 1..n
    BY <1>1
  <2> QED
    BY <2>1, <2>2, <2>3
<1>7. r = Append(s, ch)
  BY <1>4, <1>5, <1>6, SeqEqual
<1> QED
  BY <1>7 DEF s, r, g

\* The line a command reads is the line that was edited.
LEMMA EnterLine ==
  ASSUME NEW lb \in [0..(LINE_MAX - 1) -> Printable \cup {NUL}], NEW n \in 0..(LINE_MAX - 1),
         \A i \in 0..(n - 1) : lb[i] \in Printable
  PROVE  StringAt([lb EXCEPT ![n] = NUL]) = Edited(lb, n)
<1> DEFINE g == [lb EXCEPT ![n] = NUL]
<1>1. n \in Nat /\ LINE_MAX \in Nat
  BY LineAssumption
<1>2. g[n] = NUL /\ \A i \in 0..(n - 1) : g[i] = lb[i] /\ g[i] \in Printable
  BY <1>1
<1> HIDE DEF g
<1>3. StringAt(g) = [i \in 1..n |-> g[i - 1]]
  BY <1>2, StringFacts
<1>4. \A i \in 1..n : g[i - 1] = lb[i - 1]
  BY <1>1, <1>2
<1> QED
  BY <1>3, <1>4 DEF g, Edited

\* An interrupt is an arrival, or Console does not see it.
LEMMA InterruptsRefine ==
  ASSUME IInv, receive \/ serial_irq \/ serial_handler \/ timer_irq
               \/ \E sc \in Scancodes : keyboard_handler(sc)
  PROVE  Abstract!Arrive \/ UNCHANGED Abstract!consoleVars
<1>1. UNCHANGED <<lineVars, c>> /\ (Wake \/ UNCHANGED pc)
  BY KeyboardStep DEF receive, serial_irq, serial_handler, timer_irq
<1>2. UNCHANGED <<Got, Line, Cmd>>
  <2>1. pc' = pc \/ (pc = "halted" /\ pc' = "poll")
    BY <1>1 DEF Wake
  <2>2. line_buf' = line_buf /\ line_len' = line_len /\ c' = c
    BY <1>1 DEF lineVars
  <2> QED
    BY <2>1, <2>2 DEF Got, Line, Cmd
<1>3. \/ UNCHANGED <<ringVars, lost>>
      \/ \E ch \in Chars : shell_push_char(ch)
  <2>1. CASE serial_handler /\ uart # <<>>
    BY <2>1, TranslateChars DEF serial_handler, IInv, TypeOK
  <2>2. CASE serial_handler /\ uart = <<>>
    BY <2>2 DEF serial_handler
  <2> QED
    BY <2>1, <2>2, KeyboardStep DEF receive, serial_irq, timer_irq
<1>4. CASE UNCHANGED <<ringVars, lost>>
  <2>1. Waiting' = Waiting /\ lost' = lost
    BY <1>4 DEF Waiting, ringVars
  <2> QED
    BY <1>2, <2>1 DEF Abstract!consoleVars, Got, Line, Cmd, Edited, CString, StringAt
<1>5. ASSUME NEW ch \in Chars, shell_push_char(ch) PROVE Abstract!Arrive
  <2>1. IF Len(Waiting) < RING_SIZE - 1 THEN Waiting' = Append(Waiting, ch) /\ lost' = FALSE
                                        ELSE lost' = TRUE /\ Waiting' = Waiting
    BY <1>5, PushFacts DEF IInv
  <2> QED
    BY <1>2, <2>1 DEF Abstract!Arrive, Got, Line, Cmd, Edited, CString, StringAt
<1> QED
  BY <1>3, <1>4, <1>5

\* What shell_input_char does to the line is what Console says of the
\* character it was given.
LEMMA HandleRefines ==
  ASSUME IInv, shell_input_char
  PROVE  Abstract!Handle
<1>1. /\ line_buf \in [0..(LINE_MAX - 1) -> Printable \cup {NUL}]
      /\ line_len \in 0..(LINE_MAX - 1) /\ LINE_MAX \in Nat \ {0} /\ line_len \in Nat
      /\ \A i \in 0..(line_len - 1) : line_buf[i] \in Printable
  BY LineAssumption DEF IInv, TypeOK, LineInv
<1>2. /\ pc = "input" /\ c \in Chars /\ c # None /\ UNCHANGED <<ringVars, lost>>
      /\ pc' \in {"poll", "execute"}
  BY LineStep, NoneAssumption DEF shell_input_char, IInv, RingInv
<1>3. Waiting' = Waiting /\ lost' = lost
  BY <1>2 DEF Waiting, ringVars
<1>4. Got = c /\ Line = Edited(line_buf, line_len) /\ Cmd = None /\ Got' = None
  BY <1>2 DEF Got, Line, Cmd
<1>5. Len(Edited(line_buf, line_len)) = line_len
  BY <1>1, EditedFacts
<1>6. \/ Got = "BS" /\ Line' = (IF Line = <<>> THEN Line ELSE SubSeq(Line, 1, Len(Line) - 1)) /\ Cmd' = Cmd
      \/ Got = "LF" /\ Cmd' = Line /\ Line' = <<>>
      \/ Got \in Printable /\ Line' = (IF Len(Line) < LINE_MAX - 1 THEN Append(Line, Got) ELSE Line) /\ Cmd' = Cmd
      \/ Got \notin Printable \cup {"BS", "LF", None} /\ Line' = Line /\ Cmd' = Cmd
  <2>1. CASE /\ c = "BS"
             /\ line_len' = (IF line_len > 0 THEN line_len - 1 ELSE 0)
             /\ pc' = "poll" /\ UNCHANGED line_buf
    <3>1. Line' = Edited(line_buf, line_len') /\ Cmd' = None
      BY <2>1 DEF Line, Cmd
    <3>2. CASE line_len = 0
      <4>1. line_len' = 0
        BY <2>1, <3>2
      <4>2. Line = <<>> /\ Line' = <<>>
        BY <1>4, <3>1, <3>2, <4>1, EditedNothing
      <4> QED
        BY <1>4, <2>1, <3>1, <4>2
    <3>3. CASE line_len > 0
      <4>1. line_len \in Nat \ {0} /\ line_len' = line_len - 1
        BY <1>1, <2>1, <3>3
      <4>2. /\ Edited(line_buf, line_len) # <<>>
            /\ Edited(line_buf, line_len - 1)
                 = SubSeq(Edited(line_buf, line_len), 1, Len(Edited(line_buf, line_len)) - 1)
        BY <1>1, <4>1, EraseLine
      <4> QED
        BY <1>4, <2>1, <3>1, <4>1, <4>2
    <3> QED
      BY <1>1, <3>2, <3>3
  <2>2. CASE /\ c = "LF"
             /\ line_buf' = Terminated /\ line_len' = 0 /\ pc' = "execute"
    <3>1. Line' = <<>> /\ Cmd' = StringAt(Terminated)
      BY <2>2 DEF Line, Cmd
    <3>2. StringAt(Terminated) = Edited(line_buf, line_len)
      BY <1>1, EnterLine DEF Terminated
    <3> QED
      BY <1>4, <2>2, <3>1, <3>2
  <2>3. CASE /\ c \in Printable /\ HasRoom
             /\ line_buf' = [line_buf EXCEPT ![line_len] = c] /\ line_len' = line_len + 1
             /\ pc' = "poll"
    <3>1. Line' = Edited([line_buf EXCEPT ![line_len] = c], line_len + 1) /\ Cmd' = None
      BY <2>3 DEF Line, Cmd
    <3>2. Line' = Append(Edited(line_buf, line_len), c)
      BY <1>1, <2>3, <3>1, TypeLine
    <3> QED
      BY <1>4, <1>5, <2>3, <3>1, <3>2 DEF HasRoom
  <2>4. CASE /\ c \in Printable /\ ~HasRoom
             /\ pc' = "poll" /\ UNCHANGED lineVars
    <3>1. Line' = Line /\ Cmd' = None
      BY <1>2, <2>4 DEF Line, Cmd, lineVars
    <3> QED
      BY <1>4, <1>5, <2>4, <3>1 DEF HasRoom
  <2>5. CASE /\ c \notin Printable \cup {"BS", "LF"}
             /\ pc' = "poll" /\ UNCHANGED lineVars
    <3>1. Line' = Line /\ Cmd' = None
      BY <1>2, <2>5 DEF Line, Cmd, lineVars
    <3> QED
      BY <1>2, <1>4, <2>5, <3>1
  <2> QED
    BY <2>1, <2>2, <2>3, <2>4, <2>5 DEF shell_input_char
<1> QED
  BY <1>3, <1>4, <1>6
     DEF Abstract!Handle, Abstract!Erase, Abstract!Enter, Abstract!Type, Abstract!Ignore,
         Got, Line, Cmd, Edited, CString, StringAt

\* Console sees task 0 take a character, handle it and finish a command, and
\* nothing else.
LEMMA TaskRefines ==
  ASSUME IInv, Task0
  PROVE  Abstract!Next \/ UNCHANGED Abstract!consoleVars
<1>1. CASE poll \/ read \/ hlt
  <2>1. /\ UNCHANGED <<ringVars, lineVars, lost>>
        /\ pc \notin {"input", "execute"} /\ pc' \notin {"input", "execute"}
    BY <1>1 DEF poll, read, hlt
  <2>2. Waiting' = Waiting /\ lost' = lost
    BY <2>1 DEF Waiting, ringVars
  <2>3. UNCHANGED <<Got, Line, Cmd>>
    BY <2>1 DEF Got, Line, Cmd, lineVars
  <2> QED
    BY <2>2, <2>3 DEF Abstract!consoleVars, Got, Line, Cmd, Edited, CString, StringAt
<1>2. CASE advance
  <2>1. pc = "advance" /\ pc' = "input" /\ UNCHANGED <<lineVars, c, lost>>
    BY <1>2 DEF advance
  <2>2. Waiting # <<>> /\ Waiting' = Tail(Waiting) /\ Head(Waiting) = c
    BY <1>2, AdvanceQueue
  <2>3. Got = None /\ Cmd = None /\ Got' = c /\ UNCHANGED <<Line, Cmd, lost>>
    BY <2>1 DEF Got, Line, Cmd, lineVars
  <2>4. Abstract!Take
    BY <2>2, <2>3 DEF Abstract!Take, Got, Line, Cmd, Edited, CString, StringAt
  <2> QED
    BY <2>4 DEF Abstract!Next
<1>3. CASE shell_input_char
  BY <1>3, HandleRefines DEF Abstract!Next
<1>4. CASE shell_execute
  <2>1. pc = "execute" /\ pc' = "poll" /\ UNCHANGED <<ringVars, lineVars, c, lost>>
    BY <1>4 DEF shell_execute
  <2>2. Waiting' = Waiting
    BY <2>1 DEF Waiting, ringVars
  <2>3. line_len = 0 /\ StringAt(line_buf) # None
    BY <2>1, StringFacts DEF IInv, LineInv
  <2>4. Cmd # None /\ Cmd' = None /\ UNCHANGED <<Got, Line, lost>>
    BY <2>1, <2>3, EditedNothing DEF Got, Line, Cmd, lineVars
  <2>5. Abstract!Finish
    BY <2>2, <2>4 DEF Abstract!Finish, Got, Line, Cmd, Edited, CString, StringAt
  <2> QED
    BY <2>5 DEF Abstract!Next
<1> QED
  BY <1>1, <1>2, <1>3, <1>4 DEF Task0

\* The interrupt handlers, the ring and the line editor keep the promise of
\* Console: characters are handled in the order they arrived, one is lost
\* only when RING_SIZE - 1 others wait, and a command reads exactly the line
\* that was edited, however the interrupts fall between the steps of
\* shell_poll.
THEOREM KeepsItsPromise == Spec => ImplementsConsole
<1>1. Init => Abstract!Init
  <2> SUFFICES ASSUME Init PROVE Abstract!Init
    OBVIOUS
  <2>1. Waiting = <<>>
    <3>1. Waiting = WaitingOf(ring, 0, 0) /\ 0 \in Slots /\ ring \in [Slots -> Chars \cup {NUL}]
      BY RingAssumption DEF Init, Waiting, WaitingOf, Slots
    <3>2. Wrap(0 - 0) = 0
      BY RingAssumption DEF Wrap
    <3>3. Waiting \in Seq(Chars \cup {NUL}) /\ Len(Waiting) = 0
      BY <3>1, <3>2, QueueFacts
    <3> QED
      BY <3>3, EmptySeq
  <2>2. Got = None /\ Line = <<>> /\ Cmd = None /\ lost = FALSE
    BY EditedNothing DEF Init, Got, Line, Cmd
  <2> QED
    BY <2>1, <2>2 DEF Abstract!Init, Got, Line, Cmd, Edited, CString, StringAt
<1>2. ASSUME IInv, [Next]_vars PROVE [Abstract!Next]_(Abstract!consoleVars)
  <2>1. CASE UNCHANGED vars
    <3>1. UNCHANGED <<Waiting, Got, Line, Cmd, lost>>
      BY <2>1 DEF vars, ringVars, lineVars, Waiting, Got, Line, Cmd
    <3> QED
      BY <3>1 DEF Abstract!consoleVars, Got, Line, Cmd, Edited, CString, StringAt
  <2> QED
    BY <1>2, <2>1, InterruptsRefine, TaskRefines DEF Next, Abstract!Next
<1> QED
  BY <1>1, <1>2, Invariance, PTL DEF Spec, ImplementsConsole, Abstract!Spec

-----------------------------------------------------------------------------
(* Why a character that waits is handled.                                  *)

\* Steps of task 0, and the tick that ends hlt, until shell_input_char has
\* a character, if one waits in the ring.
Distance ==
  CASE pc = "input"                 -> 0
    [] pc = "advance"               -> 1
    [] pc = "read"                  -> 2
    [] pc = "poll"                  -> 3
    [] pc \in {"execute", "halted"} -> 4
    [] pc = "hlt"                   -> 5

\* While a character waits, no interrupt takes task 0 further away from
\* handling one or takes the character back, and every step of task 0, and
\* the tick that ends hlt, brings it nearer; shell_poll never goes to sleep
\* on a character that it could have seen.
ComesNearer ==
  [][ring_tail # ring_head /\ pc # "input"
       => /\ ring_tail' # ring_head' \/ pc' = "input"
          /\ Distance' <= Distance
          /\ Task0 \/ timer_irq => Distance' < Distance]_vars

\* A character that waits is at most five steps of task 0 or of the timer away
\* from shell_input_char handling one, whatever arrives meanwhile: also when
\* it arrived between the last look at the ring and hlt. With those steps
\* taken again and again this is why InputIsHandled holds, for every ring.
THEOREM InputComesNearer == Spec => ComesNearer
<1> DEFINE Step == ring_tail # ring_head /\ pc # "input"
                     => /\ ring_tail' # ring_head' \/ pc' = "input"
                        /\ Distance' <= Distance
                        /\ Task0 \/ timer_irq => Distance' < Distance
<1>1. IInv /\ IInv' /\ [Next]_vars => [Step]_vars
  <2> SUFFICES ASSUME IInv, Next, ring_tail # ring_head, pc # "input"
               PROVE  /\ ring_tail' # ring_head' \/ pc' = "input"
                      /\ Distance' <= Distance
                      /\ Task0 \/ timer_irq => Distance' < Distance
    OBVIOUS
  <2>1. pc \in {"poll", "read", "advance", "execute", "hlt", "halted"}
    BY DEF IInv, TypeOK
  <2>2. CASE Task0 \/ timer_irq
    <3>1. \/ pc = "poll" /\ pc' = "read" /\ UNCHANGED <<ring_tail, ring_head>>
          \/ pc = "read" /\ pc' = "advance" /\ UNCHANGED <<ring_tail, ring_head>>
          \/ pc = "advance" /\ pc' = "input"
          \/ pc \in {"execute", "halted"} /\ pc' = "poll" /\ UNCHANGED <<ring_tail, ring_head>>
          \/ pc = "hlt" /\ pc' = "halted" /\ UNCHANGED <<ring_tail, ring_head>>
      BY <2>1, <2>2 DEF Task0, poll, read, advance, shell_input_char, shell_execute, hlt, timer_irq,
                        Wake, ringVars
    <3> QED
      BY <3>1 DEF Distance
  <2>3. CASE ~Task0 /\ ~timer_irq
    <3>1. pc' = pc \/ (pc = "halted" /\ pc' = "poll")
      BY <2>3 DEF Next, receive, serial_irq, serial_handler, keyboard_handler, Wake
    <3>2. ring_tail' = ring_tail /\ (ring_head' = ring_head \/ ring_head' # ring_tail)
      <4>1. ASSUME NEW ch, shell_push_char(ch)
            PROVE  ring_tail' = ring_tail /\ (ring_head' = ring_head \/ ring_head' # ring_tail)
        BY <4>1 DEF shell_push_char
      <4>2. CASE receive \/ serial_irq
        BY <4>2 DEF receive, serial_irq, ringVars
      <4>3. CASE serial_handler
        BY <4>1, <4>3 DEF serial_handler, ringVars
      <4>4. CASE \E sc \in Scancodes : keyboard_handler(sc)
        BY <4>1, <4>4 DEF keyboard_handler, ringVars
      <4> QED
        BY <2>3, <4>2, <4>3, <4>4 DEF Next
    <3>3. Distance' <= Distance
      BY <2>1, <3>1 DEF Distance
    <3> QED
      BY <2>3, <3>2, <3>3
  <2> QED
    BY <2>2, <2>3
<1>2. Spec => [][Step]_vars
  BY <1>1, Invariance, PTL DEF Spec
<1> QED
  BY <1>2 DEF ComesNearer
=============================================================================
