---------------------------- MODULE InputProofs -----------------------------
(***************************************************************************)
(* Proofs about the keyboard and the mouse, for every size of the ring and *)
(* of the screen, any keys and any movements.                              *)
(*                                                                         *)
(* The case of a letter is decided when it is read, from the shift codes   *)
(* read before it; CaseSound therefore speaks of every code that waits,    *)
(* and of what those that wait will have made of shift once they are read. *)
(* Of the mouse, Decoding says what remains to be seen of a packet that is *)
(* under way: the packet's end is then one step of the decoder away.       *)
(***************************************************************************)
EXTENDS Input, SequenceTheorems, TLAPS

Taken == [code : Codes, shifted : BOOLEAN, sure : BOOLEAN]

KbdTypeOK ==
  /\ kbd_buf \in [Slots -> Codes \cup {NoCode}] /\ kbd_head \in Slots /\ kbd_tail \in Slots
  /\ kbd_shift_down \in {0, 1} /\ held \subseteq Keys
  /\ pending \in Seq(Taken) /\ unsure \in BOOLEAN

\* The codes that wait are in the ring, from the tail up to the head.
Ring ==
  /\ Len(pending) <= KBD_SIZE - 1
  /\ kbd_head = (kbd_tail + Len(pending)) % KBD_SIZE
  /\ \A i \in 1 .. Len(pending) : kbd_buf[(kbd_tail + i - 1) % KBD_SIZE] = pending[i].code

ShiftCode(e) == e.code.key \in Shifts

\* Once the codes of p before the i-th are read, the shift state is b: it is what
\* the last shift code among them says, or, without one, what it is now.
Agrees(p, now, i, b) ==
  /\ \A j \in 1 .. i - 1 :
       ShiftCode(p[j]) /\ (\A k \in j + 1 .. i - 1 : ~ShiftCode(p[k])) => (p[j].code.down <=> b)
  /\ (\A k \in 1 .. i - 1 : ~ShiftCode(p[k])) => (now <=> b)

\* Every letter that waits will be read in its case, and what has been read and
\* waits tells whether shift is down now.
CaseSound ==
  /\ \A i \in 1 .. Len(pending) :
       pending[i].code.key \in Letters /\ pending[i].sure
         => Agrees(pending, kbd_shift_down = 1, i, pending[i].shifted)
  /\ ~unsure => Agrees(pending, kbd_shift_down = 1, Len(pending) + 1, held \cap Shifts # {})

KbdInv == KbdTypeOK /\ Ring /\ CaseSound

MouseTypeOK ==
  /\ mouse_cycle \in 0 .. 2 /\ mouse_packet \in [1 .. 3 -> Bytes]
  /\ mouse.x \in 0 .. BOUND_W - 1 /\ mouse.y \in 0 .. BOUND_H - 1
  /\ init \in {"f6", "f4", "poll", "up"}
  /\ sending \in Seq(Headers \cup Motions) /\ Len(sending) <= 3

\* Undisturbed, the decoder is as far in a packet as the mouse, and the bytes it
\* has together with those to come make the packet that truth has seen.
Decoding ==
  /\ init \in {"f6", "f4"} => sending = <<>>
  /\ ~disturbed =>
       /\ init # "poll"
       /\ Len(sending) = 0 => mouse_cycle = 0 /\ mouse = truth
       /\ Len(sending) = 3 =>
            mouse_cycle = 0 /\ sending[1] \in Headers
            /\ truth = Moved(mouse, <<sending[1], sending[2], sending[3]>>)
       /\ Len(sending) = 2 =>
            mouse_cycle = 1 /\ truth = Moved(mouse, <<mouse_packet[1], sending[1], sending[2]>>)
       /\ Len(sending) = 1 =>
            mouse_cycle = 2
            /\ truth = Moved(mouse, <<mouse_packet[1], mouse_packet[2], sending[1]>>)

MouseInv == MouseTypeOK /\ Decoding

-----------------------------------------------------------------------------
\* Positions in the ring, reduced once.
LEMMA Reduced ==
  ASSUME NEW x \in 0 .. 2 * KBD_SIZE - 1
  PROVE  /\ x % KBD_SIZE \in 0 .. KBD_SIZE - 1
         /\ x < KBD_SIZE => x % KBD_SIZE = x
         /\ x >= KBD_SIZE => x % KBD_SIZE = x - KBD_SIZE
<1>1. KBD_SIZE \in Nat \ {0}
  BY InputAssumption
<1> QED  BY <1>1

\* The same below 0: a position found by going back.
LEMMA ReducedBack ==
  ASSUME NEW x \in (1 - KBD_SIZE) .. KBD_SIZE - 1
  PROVE  /\ x < 0 => x % KBD_SIZE = x + KBD_SIZE
         /\ x >= 0 => x % KBD_SIZE = x
<1>1. KBD_SIZE \in Nat \ {0}
  BY InputAssumption
<1> QED  BY <1>1

\* The head n slots after the tail: how far apart the two are, which slots lie
\* between them, and when the next slot is the tail.
LEMMA Around ==
  ASSUME NEW tail \in Slots, NEW n \in 0 .. KBD_SIZE - 1, NEW head,
         head = (tail + n) % KBD_SIZE
  PROVE  /\ head \in Slots
         /\ n = (head - tail) % KBD_SIZE
         /\ (head + 1) % KBD_SIZE \in Slots
         /\ (head + 1) % KBD_SIZE = tail <=> n = KBD_SIZE - 1
         /\ n < KBD_SIZE - 1 => (head + 1) % KBD_SIZE = (tail + (n + 1)) % KBD_SIZE
         /\ (head = tail <=> n = 0)
         /\ \A i \in 1 .. n : /\ (tail + i - 1) % KBD_SIZE \in Slots
                              /\ (tail + i - 1) % KBD_SIZE # head
         /\ (tail + (n + 1) - 1) % KBD_SIZE = head
<1>1. KBD_SIZE \in Nat /\ KBD_SIZE > 0 /\ tail \in 0 .. KBD_SIZE - 1
  BY InputAssumption DEF Slots
<1> DEFINE x == tail + n
<1>2. x \in 0 .. 2 * KBD_SIZE - 1 /\ x = tail + n
  BY <1>1
<1> HIDE DEF x
<1>3. /\ head \in 0 .. KBD_SIZE - 1
      /\ x < KBD_SIZE => head = x
      /\ x >= KBD_SIZE => head = x - KBD_SIZE
  BY <1>2, Reduced
<1>4. n = (head - tail) % KBD_SIZE
  <2> DEFINE z == head - tail
  <2>1. z \in (1 - KBD_SIZE) .. KBD_SIZE - 1 /\ z = head - tail
    BY <1>1, <1>3
  <2> HIDE DEF z
  <2>2. (z < 0 => z % KBD_SIZE = z + KBD_SIZE) /\ (z >= 0 => z % KBD_SIZE = z)
    BY <2>1, ReducedBack
  <2>3. z % KBD_SIZE = n
    BY <1>1, <1>2, <1>3, <2>1, <2>2
  <2> QED  BY <2>3 DEF z
<1> DEFINE y == head + 1
           z == (head + 1) % KBD_SIZE
<1>5. y \in 0 .. 2 * KBD_SIZE - 1 /\ y = head + 1
  BY <1>1, <1>3
<1>6. z \in 0 .. KBD_SIZE - 1 /\ (y < KBD_SIZE => z = y) /\ (y >= KBD_SIZE => z = y - KBD_SIZE)
  BY <1>5, Reduced
<1> HIDE DEF y, z
<1>7. z = tail <=> n = KBD_SIZE - 1
  BY <1>1, <1>2, <1>3, <1>5, <1>6
<1>8. ASSUME n < KBD_SIZE - 1 PROVE z = (tail + (n + 1)) % KBD_SIZE
  <2> DEFINE w == tail + (n + 1)
  <2>1. w \in 0 .. 2 * KBD_SIZE - 1 /\ w = x + 1
    BY <1>1, <1>2, <1>8
  <2> HIDE DEF w
  <2>2. (w < KBD_SIZE => w % KBD_SIZE = w) /\ (w >= KBD_SIZE => w % KBD_SIZE = w - KBD_SIZE)
    BY <2>1, Reduced
  <2>3. z = w % KBD_SIZE
    BY <1>1, <1>2, <1>3, <1>5, <1>6, <2>1, <2>2
  <2> QED  BY <2>3 DEF w
<1>9. head = tail <=> n = 0
  BY <1>1, <1>2, <1>3
<1>10. ASSUME NEW i \in 1 .. n
       PROVE  (tail + i - 1) % KBD_SIZE \in Slots /\ (tail + i - 1) % KBD_SIZE # head
  <2> DEFINE w == tail + i - 1
             m == w % KBD_SIZE
  <2>1. w \in 0 .. 2 * KBD_SIZE - 1 /\ w < x /\ x - w < KBD_SIZE
    BY <1>1, <1>2
  <2> HIDE DEF w
  <2>2. m \in 0 .. KBD_SIZE - 1 /\ (w < KBD_SIZE => m = w) /\ (w >= KBD_SIZE => m = w - KBD_SIZE)
    BY <2>1, Reduced
  <2> HIDE DEF m
  <2>3. m # head
    BY <1>1, <1>2, <1>3, <2>1, <2>2
  <2>4. m \in Slots
    BY <2>2 DEF Slots
  <2> QED  BY <2>3, <2>4 DEF m, w
<1>11. (tail + (n + 1) - 1) % KBD_SIZE = head
  <2>1. tail + (n + 1) - 1 = tail + n
    BY <1>1
  <2> QED  BY <2>1
<1>12. head \in Slots /\ z \in Slots
  BY <1>3, <1>6 DEF Slots
<1> QED  BY <1>4, <1>7, <1>8, <1>9, <1>10, <1>11, <1>12 DEF z

\* The keyboard's interrupt: the ring takes the code exactly if fewer than
\* KBD_SIZE - 1 wait.
LEMMA KeyStep ==
  ASSUME KbdInv, NEW code \in Codes, Key(code)
  PROVE  LET n     == Len(pending)
             still == held' \cap Shifts # {}
         IN
         /\ KbdTypeOK' /\ Ring'
         /\ kbd_shift_down' = kbd_shift_down
         /\ code.key \notin Shifts => held' \cap Shifts = held \cap Shifts /\ unsure' = unsure
         /\ \/ /\ Len(pending') = n + 1
               /\ \A i \in 1 .. n : pending'[i] = pending[i]
               /\ pending'[n + 1] = [code |-> code, shifted |-> still, sure |-> ~unsure']
               /\ code.key \in Shifts /\ ~unsure' => (code.down <=> still)
            \/ pending' = pending /\ (code.key \in Shifts => unsure')
<1> USE DEF KbdInv
<1>1. /\ kbd_tail' = kbd_tail /\ kbd_shift_down' = kbd_shift_down
      /\ held' = (IF code.down THEN held \cup {code.key} ELSE held \ {code.key})
      /\ unsure' = IF code.key \in Shifts
                   THEN ~(Len(pending) < KBD_SIZE - 1) \/ (held' \cap Shifts # {}) # code.down
                   ELSE unsure
      /\ pending' = IF Len(pending) < KBD_SIZE - 1
                    THEN Append(pending, [code |-> code, shifted |-> held' \cap Shifts # {},
                                          sure |-> ~unsure'])
                    ELSE pending
      /\ kbd_handler(code)
  BY DEF Key
<1> DEFINE n == Len(pending)
           still == held' \cap Shifts # {}
           e == [code |-> code, shifted |-> still, sure |-> ~unsure']
<1>2. n \in Nat /\ n <= KBD_SIZE - 1 /\ KBD_SIZE \in Nat /\ KBD_SIZE > 0
      /\ pending \in Seq(Taken)
  BY InputAssumption DEF KbdTypeOK, Ring
<1>3. n \in 0 .. KBD_SIZE - 1 /\ kbd_tail \in Slots /\ kbd_head = (kbd_tail + n) % KBD_SIZE
  BY <1>2 DEF KbdTypeOK, Ring
<1>4. code.key \in Keys /\ code.down \in BOOLEAN
  BY DEF Codes
<1>5. held' \subseteq Keys
  BY <1>1, <1>4 DEF KbdTypeOK
<1>6. code.key \notin Shifts => held' \cap Shifts = held \cap Shifts /\ unsure' = unsure
  BY <1>1
<1>7. unsure' \in BOOLEAN
  BY <1>1 DEF KbdTypeOK
<1>8. CASE n < KBD_SIZE - 1
  <2>1. e \in Taken
    BY <1>7 DEF Taken
  <2>2. pending' = Append(pending, e)
    BY <1>1, <1>8
  <2> HIDE DEF e
  <2>3. /\ pending' \in Seq(Taken) /\ Len(pending') = n + 1
        /\ \A i \in 1 .. n : pending'[i] = pending[i]
        /\ pending'[n + 1] = e
    BY <1>2, <2>1, <2>2
  <2>4. /\ kbd_buf' = [kbd_buf EXCEPT ![kbd_head] = code]
        /\ kbd_head' = (kbd_head + 1) % KBD_SIZE
    <3>1. (kbd_head + 1) % KBD_SIZE # kbd_tail
      <4>1. (kbd_head + 1) % KBD_SIZE = kbd_tail <=> n = KBD_SIZE - 1
        BY <1>3, Around
      <4> QED  BY <1>2, <1>8, <4>1
    <3> QED  BY <1>1, <3>1 DEF kbd_handler, FullAt
  <2>5. KbdTypeOK'
    <3>1. (kbd_head + 1) % KBD_SIZE \in Slots /\ kbd_head \in Slots
      BY <1>3, Around
    <3> QED  BY <1>1, <1>5, <1>7, <2>3, <2>4, <3>1 DEF KbdTypeOK
  <2>6. Ring'
    <3>1. n + 1 <= KBD_SIZE - 1
      BY <1>2, <1>8
    <3>2. kbd_head' = (kbd_tail + (n + 1)) % KBD_SIZE
      BY <1>3, <1>8, <2>4, Around
    <3>3. ASSUME NEW i \in 1 .. n
          PROVE  kbd_buf'[(kbd_tail + i - 1) % KBD_SIZE] = pending'[i].code
      <4>1. (kbd_tail + i - 1) % KBD_SIZE \in Slots /\ (kbd_tail + i - 1) % KBD_SIZE # kbd_head
        BY <1>3, Around
      <4>2. kbd_buf[(kbd_tail + i - 1) % KBD_SIZE] = pending[i].code
        BY DEF Ring
      <4> DEFINE m == (kbd_tail + i - 1) % KBD_SIZE
      <4> HIDE DEF m
      <4>3. kbd_buf'[m] = kbd_buf[m]
        BY <2>4, <4>1 DEF KbdTypeOK, m
      <4> QED  BY <2>3, <4>2, <4>3 DEF m
    <3>4. kbd_buf'[(kbd_tail + (n + 1) - 1) % KBD_SIZE] = pending'[n + 1].code
      <4>1. (kbd_tail + (n + 1) - 1) % KBD_SIZE = kbd_head /\ kbd_head \in Slots
        BY <1>3, Around
      <4>2. kbd_buf'[kbd_head] = code
        BY <2>4, <4>1 DEF KbdTypeOK
      <4>3. e.code = code
        BY DEF e
      <4> QED  BY <2>3, <4>1, <4>2, <4>3
    <3>5. \A i \in 1 .. n + 1 : i \in 1 .. n \/ i = n + 1
      BY <1>2
    <3>6. \A i \in 1 .. n + 1 : kbd_buf'[(kbd_tail + i - 1) % KBD_SIZE] = pending'[i].code
      BY <3>3, <3>4, <3>5
    <3> QED  BY <1>1, <2>3, <3>1, <3>2, <3>6 DEF Ring
  <2>7. code.key \in Shifts /\ ~unsure' => (code.down <=> still)
    BY <1>1, <1>4, <1>8
  <2> QED  BY <1>1, <1>6, <2>3, <2>5, <2>6, <2>7 DEF e
<1>9. CASE ~(n < KBD_SIZE - 1)
  <2>1. n = KBD_SIZE - 1
    BY <1>2, <1>9
  <2>2. (kbd_head + 1) % KBD_SIZE = kbd_tail
    BY <1>3, <2>1, Around
  <2>3. kbd_buf' = kbd_buf /\ kbd_head' = kbd_head /\ pending' = pending
    BY <1>1, <1>9, <2>2 DEF kbd_handler, FullAt
  <2>4. KbdTypeOK' /\ Ring'
    BY <1>1, <1>5, <1>7, <2>3 DEF KbdTypeOK, Ring
  <2>5. code.key \in Shifts => unsure'
    BY <1>1, <1>9
  <2> QED  BY <1>1, <1>6, <2>3, <2>4, <2>5
<1> QED  BY <1>8, <1>9

\* What a code added behind the others, and one read, do to Agrees.
LEMMA AgreesSame ==
  ASSUME NEW p, NEW q, NEW now, NEW i \in Nat, NEW b, Agrees(p, now, i, b),
         \A j \in 1 .. i - 1 : q[j] = p[j]
  PROVE  Agrees(q, now, i, b)
BY DEF Agrees

\* A code that is no shift code leaves what the codes so far say of shift.
LEMMA AgreesLetter ==
  ASSUME NEW p, NEW now, NEW i \in Nat \ {0}, NEW b, Agrees(p, now, i, b), ~ShiftCode(p[i])
  PROVE  Agrees(p, now, i + 1, b)
BY DEF Agrees

\* A shift code says it by itself, whatever came before.
LEMMA AgreesShift ==
  ASSUME NEW p, NEW now, NEW i \in Nat \ {0}, NEW b, ShiftCode(p[i]), p[i].code.down <=> b
  PROVE  Agrees(p, now, i + 1, b)
BY DEF Agrees

\* Reading the first code moves what it says into the present state.
LEMMA AgreesRead ==
  ASSUME NEW p, NEW q, NEW now, NEW i \in Nat \ {0}, NEW b, Agrees(p, now, i + 1, b),
         \A j \in 1 .. i - 1 : q[j] = p[j + 1]
  PROVE  /\ ShiftCode(p[1]) => Agrees(q, p[1].code.down, i, b)
         /\ ~ShiftCode(p[1]) => Agrees(q, now, i, b)
<1>1. ASSUME NEW j \in 1 .. i - 1, ShiftCode(q[j]), \A k \in j + 1 .. i - 1 : ~ShiftCode(q[k])
      PROVE  q[j].code.down <=> b
  <2>1. j + 1 \in 1 .. (i + 1) - 1 /\ p[j + 1] = q[j]
    OBVIOUS
  <2>2. ASSUME NEW k \in (j + 1) + 1 .. (i + 1) - 1 PROVE ~ShiftCode(p[k])
    <3>1. k - 1 \in j + 1 .. i - 1 /\ k - 1 \in 1 .. i - 1 /\ (k - 1) + 1 = k
      OBVIOUS
    <3>2. q[k - 1] = p[k]
      BY <3>1
    <3> QED  BY <1>1, <3>1, <3>2
  <2> QED  BY <1>1, <2>1, <2>2 DEF Agrees
<1>2. ASSUME \A k \in 1 .. i - 1 : ~ShiftCode(q[k])
      PROVE  \A k \in 2 .. (i + 1) - 1 : ~ShiftCode(p[k])
  <2> TAKE k \in 2 .. (i + 1) - 1
  <2>1. k - 1 \in 1 .. i - 1 /\ (k - 1) + 1 = k
    OBVIOUS
  <2>2. q[k - 1] = p[k]
    BY <2>1
  <2> QED  BY <1>2, <2>1, <2>2
<1>3. ASSUME ShiftCode(p[1]), \A k \in 1 .. i - 1 : ~ShiftCode(q[k])
      PROVE  p[1].code.down <=> b
  <2>1. 1 \in 1 .. (i + 1) - 1 /\ 1 + 1 = 2
    OBVIOUS
  <2> QED  BY <1>2, <1>3, <2>1 DEF Agrees
<1>4. ASSUME ~ShiftCode(p[1]), \A k \in 1 .. i - 1 : ~ShiftCode(q[k])
      PROVE  now <=> b
  <2>1. \A k \in 1 .. (i + 1) - 1 : k = 1 \/ k \in 2 .. (i + 1) - 1
    OBVIOUS
  <2> QED  BY <1>2, <1>4, <2>1 DEF Agrees
<1> QED  BY <1>1, <1>3, <1>4 DEF Agrees

\* The keyboard's handler adds a code, or drops it if the ring is full.
LEMMA InvKey == ASSUME KbdInv, NEW code \in Codes, Key(code) PROVE KbdInv'
<1> DEFINE n == Len(pending)
           still == held' \cap Shifts # {}
           s == kbd_shift_down = 1
<1>1. /\ KbdTypeOK' /\ Ring' /\ kbd_shift_down' = kbd_shift_down
      /\ code.key \notin Shifts => held' \cap Shifts = held \cap Shifts /\ unsure' = unsure
      /\ \/ /\ Len(pending') = n + 1
            /\ \A i \in 1 .. n : pending'[i] = pending[i]
            /\ pending'[n + 1] = [code |-> code, shifted |-> still, sure |-> ~unsure']
            /\ code.key \in Shifts /\ ~unsure' => (code.down <=> still)
         \/ pending' = pending /\ (code.key \in Shifts => unsure')
  BY KeyStep
<1>2. n \in Nat
  BY DEF KbdInv, KbdTypeOK
<1>3. /\ \A i \in 1 .. n : pending[i].code.key \in Letters /\ pending[i].sure
                             => Agrees(pending, s, i, pending[i].shifted)
      /\ ~unsure => Agrees(pending, s, n + 1, held \cap Shifts # {})
  BY DEF KbdInv, CaseSound
<1>4. CASE /\ Len(pending') = n + 1
           /\ \A i \in 1 .. n : pending'[i] = pending[i]
           /\ pending'[n + 1] = [code |-> code, shifted |-> still, sure |-> ~unsure']
           /\ code.key \in Shifts /\ ~unsure' => (code.down <=> still)
  <2>1. /\ pending'[n + 1].code = code /\ pending'[n + 1].shifted = still
        /\ pending'[n + 1].sure = ~unsure'
        /\ ShiftCode(pending'[n + 1]) <=> code.key \in Shifts
    BY <1>4 DEF ShiftCode
  <2>2. ASSUME NEW i \in 1 .. n, pending'[i].code.key \in Letters, pending'[i].sure
        PROVE  Agrees(pending', s, i, pending'[i].shifted)
    <3>1. Agrees(pending, s, i, pending[i].shifted) /\ pending'[i] = pending[i]
      BY <1>3, <1>4, <2>2
    <3>2. \A j \in 1 .. i - 1 : pending'[j] = pending[j]
      BY <1>2, <1>4
    <3>3. i \in Nat
      BY <1>2
    <3> QED  BY <3>1, <3>2, <3>3, AgreesSame
  <2>3. ASSUME code.key \notin Shifts, ~unsure' PROVE Agrees(pending', s, n + 1, still)
    <3>1. Agrees(pending, s, n + 1, still)
      BY <1>1, <1>3, <2>3
    <3>2. \A j \in 1 .. (n + 1) - 1 : pending'[j] = pending[j]
      BY <1>2, <1>4
    <3>3. n + 1 \in Nat
      BY <1>2
    <3> HIDE DEF n, still, s
    <3> QED  BY <3>1, <3>2, <3>3, AgreesSame
  <2>4. code.key \in Letters => code.key \notin Shifts
    BY InputAssumption
  <2>5. n + 1 \in Nat \ {0}
    BY <1>2
  <2>6. ASSUME ~unsure' PROVE Agrees(pending', s, (n + 1) + 1, still)
    <3>1. CASE code.key \in Shifts
      <4>1. ShiftCode(pending'[n + 1]) /\ (pending'[n + 1].code.down <=> still)
        BY <1>4, <2>1, <2>6, <3>1
      <4> HIDE DEF n, still, s
      <4> QED  BY <2>5, <4>1, AgreesShift
    <3>2. CASE code.key \notin Shifts
      <4>1. ~ShiftCode(pending'[n + 1]) /\ Agrees(pending', s, n + 1, still)
        BY <2>1, <2>3, <2>6, <3>2
      <4> HIDE DEF n, still, s
      <4> QED  BY <2>5, <4>1, AgreesLetter
    <3> QED  BY <3>1, <3>2
  <2>7. ASSUME pending'[n + 1].code.key \in Letters, pending'[n + 1].sure
        PROVE  Agrees(pending', s, n + 1, pending'[n + 1].shifted)
    <3>1. code.key \notin Shifts /\ ~unsure'
      BY <2>1, <2>4, <2>7
    <3>2. Agrees(pending', s, n + 1, still)
      BY <2>3, <3>1
    <3> QED  BY <2>1, <3>2
  <2>8. \A i \in 1 .. n + 1 : i \in 1 .. n \/ i = n + 1
    BY <1>2
  <2>9. \A i \in 1 .. n + 1 : pending'[i].code.key \in Letters /\ pending'[i].sure
                                => Agrees(pending', s, i, pending'[i].shifted)
    BY <2>2, <2>7, <2>8
  <2>10. s = (kbd_shift_down' = 1) /\ Len(pending') = n + 1
    BY <1>1, <1>4
  <2>11. CaseSound'
    BY <2>6, <2>9, <2>10 DEF CaseSound, Agrees, ShiftCode
  <2> QED  BY <1>1, <2>11 DEF KbdInv
<1>5. CASE pending' = pending /\ (code.key \in Shifts => unsure')
  <2>1. ~unsure' => Agrees(pending, s, n + 1, held' \cap Shifts # {})
    BY <1>1, <1>3, <1>5
  <2>2. CaseSound'
    BY <1>1, <1>3, <1>5, <2>1 DEF CaseSound, Agrees, ShiftCode
  <2> QED  BY <1>1, <2>2 DEF KbdInv
<1> QED  BY <1>1, <1>4, <1>5

\* read_key takes the oldest code that waits, and the shift state moves as it says.
LEMMA InvRead == ASSUME KbdInv, read_key PROVE KbdInv'
<1> USE DEF KbdInv
<1> DEFINE n == Len(pending)
<1>1. /\ kbd_tail # kbd_head /\ kbd_tail' = (kbd_tail + 1) % KBD_SIZE
      /\ kbd_shift_down' = ShiftAfter(kbd_buf[kbd_tail])
      /\ pending' = (IF pending = <<>> THEN <<>> ELSE Tail(pending))
      /\ UNCHANGED <<kbd_buf, kbd_head, held, unsure>>
  BY DEF read_key, read_scancode
<1>2. /\ n \in Nat /\ n <= KBD_SIZE - 1 /\ KBD_SIZE \in Nat /\ KBD_SIZE > 0
      /\ pending \in Seq(Taken) /\ kbd_tail \in Slots
      /\ kbd_head = (kbd_tail + n) % KBD_SIZE
  BY InputAssumption DEF KbdTypeOK, Ring
<1>3. n > 0
  <2>1. n \in 0 .. KBD_SIZE - 1 /\ kbd_tail \in Slots /\ kbd_head = (kbd_tail + n) % KBD_SIZE
    BY <1>2
  <2>2. kbd_head = kbd_tail <=> n = 0
    BY <2>1, Around
  <2> QED  BY <1>1, <1>2, <2>2
<1>4. pending # <<>>
  BY <1>3
<1>5. /\ pending' \in Seq(Taken) /\ Len(pending') = n - 1
      /\ \A i \in 1 .. n - 1 : pending'[i] = pending[i + 1]
      /\ pending[1] \in Taken
  BY <1>1, <1>2, <1>3, <1>4
<1>6. pending[1].code \in Codes /\ pending[1].code.down \in BOOLEAN
  BY <1>5 DEF Taken, Codes
<1>7. kbd_buf[kbd_tail] = pending[1].code
  <2>1. kbd_buf[(kbd_tail + 1 - 1) % KBD_SIZE] = pending[1].code
    BY <1>2, <1>3 DEF Ring
  <2>2. kbd_tail + 1 - 1 = kbd_tail /\ kbd_tail \in 0 .. 2 * KBD_SIZE - 1 /\ kbd_tail < KBD_SIZE
    BY <1>2 DEF Slots
  <2>3. kbd_tail % KBD_SIZE = kbd_tail
    BY <2>2, Reduced
  <2> QED  BY <2>1, <2>2, <2>3
<1> DEFINE now == kbd_shift_down = 1
           then == kbd_shift_down' = 1
<1>8. /\ kbd_shift_down' \in {0, 1}
      /\ ShiftCode(pending[1]) => (then <=> pending[1].code.down)
      /\ ~ShiftCode(pending[1]) => (then <=> now)
  BY <1>1, <1>6, <1>7 DEF ShiftAfter, ShiftCode, KbdTypeOK
<1> DEFINE t == kbd_tail'
<1>9. t \in Slots /\ t = (kbd_tail + 1) % KBD_SIZE
  <2> DEFINE x == kbd_tail + 1
  <2>1. x \in 0 .. 2 * KBD_SIZE - 1
    BY <1>2 DEF Slots
  <2> HIDE DEF x
  <2>2. x % KBD_SIZE \in 0 .. KBD_SIZE - 1
    BY <2>1, Reduced
  <2> QED  BY <1>1, <2>2 DEF Slots, x
<1>10. KbdTypeOK'
  BY <1>1, <1>5, <1>8, <1>9 DEF KbdTypeOK
<1>11. Ring'
  <2>1. ASSUME NEW m \in 0 .. n - 1 PROVE (t + m) % KBD_SIZE = (kbd_tail + (m + 1)) % KBD_SIZE
    <3> DEFINE x == kbd_tail + 1
               y == t + m
               z == kbd_tail + (m + 1)
    <3>0. n \in Nat /\ n <= KBD_SIZE - 1 /\ KBD_SIZE \in Nat /\ KBD_SIZE > 0
      BY <1>2
    <3>1. kbd_tail \in 0 .. KBD_SIZE - 1 /\ t \in 0 .. KBD_SIZE - 1
      BY <1>2, <1>9 DEF Slots
    <3> HIDE DEF t
    <3>2. /\ x \in 0 .. 2 * KBD_SIZE - 1 /\ y \in 0 .. 2 * KBD_SIZE - 1
          /\ z \in 0 .. 2 * KBD_SIZE - 1 /\ z = x + m
      BY <1>2, <3>1
    <3>3. t = x % KBD_SIZE
      BY <1>9
    <3> HIDE DEF x, z
    <3>4. /\ x < KBD_SIZE => t = x
          /\ x >= KBD_SIZE => t = x - KBD_SIZE
      BY <3>2, <3>3, Reduced
    <3>5. x <= KBD_SIZE
      BY <3>0, <3>1 DEF x
    <3>6. y = z \/ (y = z - KBD_SIZE /\ y < KBD_SIZE /\ z >= KBD_SIZE)
      BY <3>0, <3>1, <3>2, <3>4, <3>5
    <3> HIDE DEF y
    <3>7. y < KBD_SIZE => y % KBD_SIZE = y
      BY <3>2, Reduced
    <3>8. z >= KBD_SIZE => z % KBD_SIZE = z - KBD_SIZE
      BY <3>2, Reduced
    <3>9. y % KBD_SIZE = z % KBD_SIZE
      BY <3>6, <3>7, <3>8
    <3> QED  BY <3>9 DEF y, z
  <2>2. kbd_head = (t + (n - 1)) % KBD_SIZE
    <3>1. n - 1 \in 0 .. n - 1 /\ (n - 1) + 1 = n
      BY <1>2, <1>3
    <3> HIDE DEF t, n
    <3> QED  BY <1>2, <2>1, <3>1
  <2>3. ASSUME NEW i \in 1 .. n - 1 PROVE kbd_buf[(t + i - 1) % KBD_SIZE] = pending[i + 1].code
    <3>1. /\ i - 1 \in 0 .. n - 1 /\ i + 1 \in 1 .. n
          /\ kbd_tail + ((i - 1) + 1) = kbd_tail + (i + 1) - 1 /\ t + (i - 1) = t + i - 1
      BY <1>2, <1>9 DEF Slots
    <3>2. (t + i - 1) % KBD_SIZE = (kbd_tail + (i + 1) - 1) % KBD_SIZE
      BY <2>1, <3>1
    <3>3. kbd_buf[(kbd_tail + (i + 1) - 1) % KBD_SIZE] = pending[i + 1].code
      BY <3>1 DEF Ring
    <3> QED  BY <3>2, <3>3
  <2>4. n - 1 <= KBD_SIZE - 1
    BY <1>2
  <2> QED  BY <1>1, <1>5, <2>2, <2>3, <2>4 DEF Ring
<1>12. CaseSound'
  <2>1. ASSUME NEW i \in 1 .. n, NEW b, Agrees(pending, now, i + 1, b)
        PROVE  Agrees(pending', then, i, b)
    <3>1. \A j \in 1 .. i - 1 : pending'[j] = pending[j + 1]
      BY <1>2, <1>5
    <3>2. i \in Nat \ {0}
      BY <1>2
    <3> HIDE DEF now, then
    <3>3. /\ ShiftCode(pending[1]) => Agrees(pending', pending[1].code.down, i, b)
          /\ ~ShiftCode(pending[1]) => Agrees(pending', now, i, b)
      BY <2>1, <3>1, <3>2, AgreesRead
    <3>4. CASE ShiftCode(pending[1])
      BY <1>8, <3>3, <3>4 DEF Agrees
    <3>5. CASE ~ShiftCode(pending[1])
      BY <1>8, <3>3, <3>5 DEF Agrees
    <3> QED  BY <3>4, <3>5
  <2>2. ASSUME NEW i \in 1 .. n - 1, pending'[i].code.key \in Letters, pending'[i].sure
        PROVE  Agrees(pending', then, i, pending'[i].shifted)
    <3>1. i \in 1 .. n /\ i + 1 \in 1 .. n /\ pending'[i] = pending[i + 1]
      BY <1>2, <1>5
    <3>2. Agrees(pending, now, i + 1, pending'[i].shifted)
      BY <2>2, <3>1 DEF CaseSound
    <3> HIDE DEF now, then
    <3> QED  BY <2>1, <3>1, <3>2
  <2>3. ASSUME ~unsure PROVE Agrees(pending', then, n, held \cap Shifts # {})
    <3>1. n \in 1 .. n
      BY <1>2, <1>3
    <3>2. Agrees(pending, now, n + 1, held \cap Shifts # {})
      BY <2>3 DEF CaseSound
    <3> HIDE DEF now, then, n
    <3> QED  BY <2>1, <3>1, <3>2
  <2>4. Len(pending') = n - 1 /\ Len(pending') + 1 = n
    BY <1>2, <1>5
  <2>5. UNCHANGED <<held, unsure>>
    BY <1>1
  <2> HIDE DEF n
  <2>6. \A i \in 1 .. Len(pending') :
          pending'[i].code.key \in Letters /\ pending'[i].sure
            => Agrees(pending', then, i, pending'[i].shifted)
    BY <2>2, <2>4, Zenon
  <2>7. ~unsure' => Agrees(pending', then, Len(pending') + 1, held' \cap Shifts # {})
    <3>1. ~unsure => Agrees(pending', then, Len(pending') + 1, held \cap Shifts # {})
      BY <2>3, <2>4, Zenon
    <3> QED  BY <2>5, <3>1, Zenon
  <2> QED  BY <2>6, <2>7, Zenon DEF CaseSound
<1> QED  BY <1>10, <1>11, <1>12

-----------------------------------------------------------------------------
\* The clamped coordinate is the position on the screen nearest to v.
LEMMA NearestIsClamp ==
  ASSUME NEW bound \in Nat \ {0}, NEW v \in Int
  PROVE  Nearest(v, bound) = Clamp(v, bound) /\ Clamp(v, bound) \in 0 .. bound - 1
<1> DEFINE c == Clamp(v, bound)
<1>1. /\ c \in 0 .. bound - 1
      /\ \A u \in 0 .. bound - 1 : Distance(c, v) <= Distance(u, v)
      /\ \A w \in 0 .. bound - 1 : Distance(w, v) <= Distance(c, v) => w = c
  BY DEF Clamp, Distance
<1> HIDE DEF c
<1> DEFINE P(w) == \A u \in 0 .. bound - 1 : Distance(w, v) <= Distance(u, v)
<1>2. \E w \in 0 .. bound - 1 : P(w)
  BY <1>1
<1> DEFINE m == CHOOSE w \in 0 .. bound - 1 : P(w)
<1>3. m \in 0 .. bound - 1 /\ P(m)
  BY <1>2
<1> HIDE DEF m
<1>4. m = c
  BY <1>1, <1>3
<1> QED  BY <1>1, <1>4 DEF m, c, Nearest

\* A packet of movements leaves the pointer on the screen.
LEMMA MovedInside ==
  ASSUME NEW m, m.x \in Int, m.y \in Int, NEW p, p[2] \in Int, p[3] \in Int
  PROVE  Moved(m, p).x \in 0 .. BOUND_W - 1 /\ Moved(m, p).y \in 0 .. BOUND_H - 1
<1>1. BOUND_W \in Nat \ {0} /\ BOUND_H \in Nat \ {0}
  BY InputAssumption
<1>2. m.x + p[2] \in Int /\ m.y - p[3] \in Int
  OBVIOUS
<1>3. Clamp(m.x + p[2], BOUND_W) \in 0 .. BOUND_W - 1 /\ Clamp(m.y - p[3], BOUND_H) \in 0 .. BOUND_H - 1
  BY <1>1, <1>2, NearestIsClamp
<1> QED  BY <1>3 DEF Moved

\* A byte of the mouse is a number, and so is every byte the handler keeps.
LEMMA BytesAreNumbers == Bytes \subseteq Int /\ Headers \cup Motions \subseteq Bytes
<1>1. \A b \in Headers : b \in -128 .. 127
  BY InputAssumption
<1>2. \A b \in Motions : b \in -128 .. 127
  BY InputAssumption
<1>3. \A b \in -128 .. 127 : b \in Int
  OBVIOUS
<1>4. -6 \in Int /\ 0 \in Int
  OBVIOUS
<1> QED  BY <1>1, <1>2, <1>3, <1>4 DEF Bytes, ACK

\* Whatever byte the handler takes, it stays in its array and on the screen.
LEMMA HandlerType ==
  ASSUME MouseTypeOK, NEW b \in Bytes, mouse_irq_handler(b)
  PROVE  /\ mouse_cycle' \in 0 .. 2 /\ mouse_packet' \in [1 .. 3 -> Bytes]
         /\ mouse'.x \in 0 .. BOUND_W - 1 /\ mouse'.y \in 0 .. BOUND_H - 1
<1>1. mouse_cycle \in 0 .. 2 /\ mouse_packet \in [1 .. 3 -> Bytes]
  BY DEF MouseTypeOK
<1>2. mouse_packet' = [mouse_packet EXCEPT ![mouse_cycle + 1] = b]
  BY DEF mouse_irq_handler
<1>3. mouse_packet' \in [1 .. 3 -> Bytes]
  BY <1>1, <1>2
<1>4. mouse_cycle' \in 0 .. 2
  <2>1. (mouse_cycle + 1) % 3 \in 0 .. 2
    BY <1>1
  <2> QED  BY <2>1 DEF mouse_irq_handler
<1>5. mouse.x \in Int /\ mouse.y \in Int
  BY InputAssumption DEF MouseTypeOK
<1>6. mouse_packet'[2] \in Int /\ mouse_packet'[3] \in Int
  <2>1. mouse_packet'[2] \in Bytes /\ mouse_packet'[3] \in Bytes
    BY <1>3
  <2> QED  BY <2>1, BytesAreNumbers
<1>7. mouse' = mouse \/ mouse' = Moved(mouse, mouse_packet')
  BY DEF mouse_irq_handler
<1> QED  BY <1>3, <1>4, <1>5, <1>6, <1>7, MovedInside DEF MouseTypeOK

\* mouse_init and the bytes it or its poll takes.
LEMMA InvAnswers ==
  ASSUME MouseInv, Ack_read \/ Ack_interrupts \/ Poll_ends \/ Poll_takes
  PROVE  MouseInv'
<1> USE DEF MouseInv
<1>1. CASE Ack_read
  BY <1>1 DEF Ack_read, MouseTypeOK, Decoding, Moved
<1>2. CASE Ack_interrupts
  <2>1. /\ mouse_irq_handler(ACK) /\ init' \in {"f4", "poll"} /\ disturbed'
        /\ sending' = sending /\ init \in {"f6", "f4"}
    BY <1>2 DEF Ack_interrupts
  <2>2. ACK \in Bytes
    BY DEF Bytes
  <2>3. MouseTypeOK'
    BY <2>1, <2>2, HandlerType DEF MouseTypeOK
  <2>4. sending' = <<>>
    BY <2>1 DEF Decoding
  <2> QED  BY <2>1, <2>3, <2>4 DEF Decoding
<1>3. CASE Poll_ends
  BY <1>3 DEF Poll_ends, MouseTypeOK, Decoding, Moved
<1>4. CASE Poll_takes
  <2>1. /\ sending # <<>> /\ sending' = Tail(sending) /\ init = "poll" /\ init' = "up"
        /\ UNCHANGED <<mouse_cycle, mouse_packet, mouse, disturbed, truth>>
    BY <1>4 DEF Poll_takes
  <2>2. sending' \in Seq(Headers \cup Motions) /\ Len(sending') <= 3
    BY <2>1 DEF MouseTypeOK
  <2>3. disturbed'
    BY <2>1 DEF Decoding
  <2> QED  BY <2>1, <2>2, <2>3 DEF MouseTypeOK, Decoding
<1> QED  BY <1>1, <1>2, <1>3, <1>4

\* A packet is made while none is on its way.
LEMMA InvMoves ==
  ASSUME MouseInv, NEW h \in Headers, NEW dx \in Motions, NEW dy \in Motions,
         Mouse_moves(h, dx, dy)
  PROVE  MouseInv'
<1> USE DEF MouseInv
<1>1. /\ init \in {"poll", "up"} /\ sending = <<>> /\ sending' = <<h, dx, dy>>
      /\ UNCHANGED <<mouse_cycle, mouse_packet, mouse, init, disturbed>>
  BY DEF Mouse_moves
<1>2. /\ sending' \in Seq(Headers \cup Motions) /\ Len(sending') = 3
      /\ sending'[1] = h /\ sending'[2] = dx /\ sending'[3] = dy
  BY <1>1
<1>3. MouseTypeOK'
  BY <1>1, <1>2 DEF MouseTypeOK
<1>4. ASSUME ~disturbed PROVE truth' = Moved(mouse, <<h, dx, dy>>)
  <2>1. mouse = truth
    BY <1>1, <1>4 DEF Decoding
  <2>2. truth' = [x |-> Nearest(mouse.x + dx, BOUND_W), y |-> Nearest(mouse.y - dy, BOUND_H),
                  left |-> h % 2, right |-> (h \div 2) % 2, middle |-> (h \div 4) % 2,
                  dx |-> dx, dy |-> 0 - dy]
    BY <1>4, <2>1 DEF Mouse_moves
  <2>3. dx \in Bytes /\ dy \in Bytes /\ h \in Bytes
    BY BytesAreNumbers
  <2>4. dx \in Int /\ dy \in Int /\ h \in Int
    BY <2>3, BytesAreNumbers
  <2>5. mouse.x \in Int /\ mouse.y \in Int
    BY InputAssumption DEF MouseTypeOK
  <2>6. mouse.x + dx \in Int /\ mouse.y - dy \in Int
    BY <2>4, <2>5
  <2>7. /\ Nearest(mouse.x + dx, BOUND_W) = Clamp(mouse.x + dx, BOUND_W)
        /\ Nearest(mouse.y - dy, BOUND_H) = Clamp(mouse.y - dy, BOUND_H)
    BY <2>6, NearestIsClamp, InputAssumption
  <2>8. Bit(h, 0) = h % 2 /\ Bit(h, 1) = (h \div 2) % 2 /\ Bit(h, 2) = (h \div 4) % 2
    BY <2>4 DEF Bit
  <2> QED  BY <2>2, <2>7, <2>8 DEF Moved
<1>5. mouse_cycle = 0 \/ disturbed
  BY <1>1 DEF Decoding
<1>6. Decoding'
  BY <1>1, <1>2, <1>4, <1>5 DEF Decoding, Moved
<1> QED  BY <1>3, <1>6

\* The decoder takes the byte the mouse sends, the header first.
LEMMA InvByte == ASSUME MouseInv, Mouse_byte PROVE MouseInv'
<1> USE DEF MouseInv
<1> DEFINE b == Head(sending)
           n == Len(sending)
<1>1. /\ init \in {"poll", "up"} /\ sending # <<>> /\ sending' = Tail(sending)
      /\ mouse_irq_handler(b) /\ UNCHANGED <<init, disturbed, truth>>
  BY DEF Mouse_byte
<1>2. /\ n \in 1 .. 3 /\ b = sending[1] /\ b \in Headers \cup Motions
      /\ sending' \in Seq(Headers \cup Motions) /\ Len(sending') = n - 1
      /\ \A i \in 1 .. n - 1 : sending'[i] = sending[i + 1]
  <2>1. sending \in Seq(Headers \cup Motions) /\ Len(sending) <= 3
    BY DEF MouseTypeOK
  <2>2. n \in 1 .. 3
    <3>1. sending # <<>>
      BY <1>1
    <3>2. Len(sending) \in Nat /\ Len(sending) # 0
      BY <2>1, <3>1, EmptySeq
    <3>3. Len(sending) <= 3
      BY <2>1
    <3> DEFINE l == Len(sending)
    <3>4. l \in Nat /\ l # 0 /\ l <= 3
      BY <3>2, <3>3
    <3> HIDE DEF l
    <3>5. l \in 1 .. 3
      BY <3>4
    <3> QED  BY <3>5 DEF l
  <2>3. b = sending[1] /\ b \in Headers \cup Motions
    BY <1>1, <2>1, <2>2
  <2>4. /\ sending' \in Seq(Headers \cup Motions) /\ Len(sending') = n - 1
        /\ \A i \in 1 .. n - 1 : sending'[i] = sending[i + 1]
    BY <1>1, <2>1, <2>2, HeadTailProperties
  <2> QED  BY <2>2, <2>3, <2>4
<1>3. b \in Bytes
  BY <1>2, BytesAreNumbers
<1> HIDE DEF b, n
<1>4. MouseTypeOK'
  BY <1>1, <1>2, <1>3, HandlerType DEF MouseTypeOK
<1>5. /\ mouse_packet' = [mouse_packet EXCEPT ![mouse_cycle + 1] = b]
      /\ mouse_cycle' = IF mouse_cycle = 0 /\ ~Header(b) THEN 0 ELSE (mouse_cycle + 1) % 3
      /\ mouse' = IF mouse_cycle = 2 THEN Moved(mouse, mouse_packet') ELSE mouse
      /\ mouse_packet \in [1 .. 3 -> Bytes]
  BY <1>1 DEF mouse_irq_handler, MouseTypeOK
<1>0. init' \notin {"f6", "f4"} /\ (~disturbed' => init' # "poll")
  BY <1>1 DEF Decoding
<1>6. ASSUME ~disturbed, n = 3 PROVE Decoding'
  <2>1. /\ mouse_cycle = 0 /\ b \in Headers /\ init # "poll"
        /\ truth = Moved(mouse, <<sending[1], sending[2], sending[3]>>)
    BY <1>2, <1>6 DEF Decoding, n
  <2>2. Header(b)
    BY <2>1, InputAssumption DEF Header
  <2>3. mouse_cycle' = 1 /\ mouse' = mouse /\ mouse_packet'[1] = b
    BY <1>3, <1>5, <2>1, <2>2
  <2>4. Len(sending') = 2 /\ sending'[1] = sending[2] /\ sending'[2] = sending[3]
    BY <1>2, <1>6
  <2>5. truth' = Moved(mouse', <<mouse_packet'[1], sending'[1], sending'[2]>>)
    BY <1>1, <1>2, <2>1, <2>3, <2>4
  <2> QED  BY <1>0, <2>3, <2>4, <2>5 DEF Decoding
<1>7. ASSUME ~disturbed, n = 2 PROVE Decoding'
  <2>1. /\ mouse_cycle = 1 /\ init # "poll"
        /\ truth = Moved(mouse, <<mouse_packet[1], sending[1], sending[2]>>)
    BY <1>7 DEF Decoding, n
  <2>2. /\ mouse_cycle' = 2 /\ mouse' = mouse
        /\ mouse_packet'[1] = mouse_packet[1] /\ mouse_packet'[2] = b
    BY <1>3, <1>5, <2>1
  <2>3. Len(sending') = 1 /\ sending'[1] = sending[2]
    BY <1>2, <1>7
  <2>4. truth' = Moved(mouse', <<mouse_packet'[1], mouse_packet'[2], sending'[1]>>)
    BY <1>1, <1>2, <2>1, <2>2, <2>3
  <2> QED  BY <1>0, <2>2, <2>3, <2>4 DEF Decoding
<1>8. ASSUME ~disturbed, n = 1 PROVE Decoding'
  <2>1. /\ mouse_cycle = 2 /\ init # "poll"
        /\ truth = Moved(mouse, <<mouse_packet[1], mouse_packet[2], sending[1]>>)
    BY <1>8 DEF Decoding, n
  <2>2. /\ mouse_cycle' = 0 /\ mouse' = Moved(mouse, mouse_packet')
        /\ mouse_packet'[1] = mouse_packet[1] /\ mouse_packet'[2] = mouse_packet[2]
        /\ mouse_packet'[3] = b
    BY <1>3, <1>5, <2>1
  <2>3. Len(sending') = 0
    BY <1>2, <1>8
  <2>4. mouse' = truth'
    BY <1>1, <1>2, <2>1, <2>2 DEF Moved
  <2> QED  BY <1>0, <2>2, <2>3, <2>4 DEF Decoding
<1>9. ASSUME disturbed PROVE Decoding'
  BY <1>1, <1>9 DEF Decoding
<1> QED  BY <1>2, <1>4, <1>6, <1>7, <1>8, <1>9

-----------------------------------------------------------------------------
\* Nothing waits, and the pointer is in the middle of the screen.
LEMMA InvInit == Init => KbdInv /\ MouseInv
<1> SUFFICES ASSUME Init PROVE KbdInv /\ MouseInv
  OBVIOUS
<1>1. KBD_SIZE \in Nat \ {0} /\ BOUND_W \in Nat \ {0} /\ BOUND_H \in Nat \ {0}
  BY InputAssumption
<1>2. 0 \in Slots /\ 0 % KBD_SIZE = 0 /\ 0 + 0 = 0
  BY <1>1 DEF Slots
<1>3. KbdInv
  <2>1. pending \in Seq(Taken) /\ Len(pending) = 0
    BY DEF Init
  <2>2. KbdTypeOK
    BY <1>2, <2>1 DEF Init, KbdTypeOK
  <2>3. Ring
    BY <1>1, <1>2, <2>1 DEF Init, Ring
  <2>4. CaseSound
    BY <2>1 DEF Init, CaseSound, Agrees
  <2> QED  BY <2>2, <2>3, <2>4 DEF KbdInv
<1>4. MouseInv
  <2>1. BOUND_W \div 2 \in 0 .. BOUND_W - 1 /\ BOUND_H \div 2 \in 0 .. BOUND_H - 1
    BY <1>1
  <2>2. mouse_packet \in [1 .. 3 -> Bytes]
    BY DEF Init, Bytes
  <2> QED  BY <2>1, <2>2 DEF Init, MouseInv, MouseTypeOK, Decoding, Rest
<1> QED  BY <1>3, <1>4

\* The invariants hold throughout.
LEMMA Invariance == Spec => [](KbdInv /\ MouseInv)
<1>1. ASSUME KbdInv, UNCHANGED kbdVars PROVE KbdInv'
  BY <1>1 DEF kbdVars, KbdInv, KbdTypeOK, Ring, CaseSound, Agrees, ShiftCode
<1>2. ASSUME MouseInv, UNCHANGED mouseVars PROVE MouseInv'
  BY <1>2 DEF mouseVars, MouseInv, MouseTypeOK, Decoding, Moved
<1>3. ASSUME KbdInv, MouseInv, [Next]_vars PROVE KbdInv' /\ MouseInv'
  <2>1. CASE UNCHANGED vars
    BY <1>1, <1>2, <1>3, <2>1 DEF vars
  <2>2. ASSUME NEW code \in Codes, Key(code) PROVE KbdInv' /\ MouseInv'
    <3>1. UNCHANGED mouseVars
      BY <2>2 DEF Key
    <3> QED  BY <1>2, <1>3, <2>2, <3>1, InvKey
  <2>3. CASE read_key
    <3>1. UNCHANGED mouseVars
      BY <2>3 DEF read_key
    <3> QED  BY <1>2, <1>3, <2>3, <3>1, InvRead
  <2>4. CASE Ack_read \/ Ack_interrupts \/ Poll_ends \/ Poll_takes
    <3>1. UNCHANGED kbdVars
      BY <2>4 DEF Ack_read, Ack_interrupts, Poll_ends, Poll_takes
    <3> QED  BY <1>1, <1>3, <2>4, <3>1, InvAnswers
  <2>5. CASE Mouse_byte
    <3>1. UNCHANGED kbdVars
      BY <2>5 DEF Mouse_byte
    <3> QED  BY <1>1, <1>3, <2>5, <3>1, InvByte
  <2>6. ASSUME NEW h \in Headers, NEW dx \in Motions, NEW dy \in Motions,
               Mouse_moves(h, dx, dy)
        PROVE  KbdInv' /\ MouseInv'
    <3>1. UNCHANGED kbdVars
      BY <2>6 DEF Mouse_moves
    <3> QED  BY <1>1, <1>3, <2>6, <3>1, InvMoves
  <2> QED  BY <1>3, <2>1, <2>2, <2>3, <2>4, <2>5, <2>6 DEF Next
<1> QED  BY <1>3, InvInit, PTL DEF Spec

\* The ring of the keyboard is a queue of KBD_SIZE - 1 codes for any size: no
\* code is read twice, out of order or lost but by a ring that is full.
THEOREM RingIsQueueHolds == Spec => []RingIsQueue
<1>1. ASSUME KbdInv, MouseInv PROVE RingIsQueue
  <2>1. InputTypeOK
    BY <1>1 DEF KbdInv, MouseInv, KbdTypeOK, MouseTypeOK, InputTypeOK, Taken
  <2>2. /\ Len(pending) \in 0 .. KBD_SIZE - 1 /\ kbd_tail \in Slots
        /\ kbd_head = (kbd_tail + Len(pending)) % KBD_SIZE
    BY <1>1, InputAssumption DEF KbdInv, KbdTypeOK, Ring
  <2>3. Len(pending) = (kbd_head - kbd_tail) % KBD_SIZE
    BY <2>2, Around
  <2>4. DOMAIN pending = 1 .. Len(pending)
    BY <1>1, LenProperties DEF KbdInv, KbdTypeOK
  <2> QED  BY <1>1, <2>1, <2>3, <2>4 DEF RingIsQueue, KbdInv, Ring
<1> QED  BY <1>1, Invariance, PTL

\* A letter comes out in the case it was typed in, however late it is read.
THEOREM CaseKeptHolds == Spec => []CaseKept
<1>1. ASSUME KbdInv PROVE CaseKept
  <2>1. pending \in Seq(Taken)
    BY <1>1 DEF KbdInv, KbdTypeOK
  <2>2. ASSUME pending # <<>>, Head(pending).code.key \in Letters, Head(pending).sure
        PROVE  kbd_shift_down = 1 <=> Head(pending).shifted
    <3>1. Head(pending) = pending[1] /\ 1 \in 1 .. Len(pending)
      BY <2>1, <2>2
    <3>2. Agrees(pending, kbd_shift_down = 1, 1, pending[1].shifted)
      BY <1>1, <2>2, <3>1 DEF KbdInv, CaseSound
    <3> QED  BY <3>1, <3>2 DEF Agrees
  <2>3. ASSUME pending = <<>>, ~unsure PROVE kbd_shift_down = 1 <=> held \cap Shifts # {}
    <3>1. Len(pending) = 0
      BY <2>3
    <3>2. Agrees(pending, kbd_shift_down = 1, 1, held \cap Shifts # {})
      BY <1>1, <2>3, <3>1 DEF KbdInv, CaseSound
    <3> QED  BY <3>2 DEF Agrees
  <2> QED  BY <2>2, <2>3 DEF CaseKept
<1> QED  BY <1>1, Invariance, PTL

\* On any screen and for any movements, position, buttons and movement are those
\* of the packets sent, if every byte reached the one it was for.
THEOREM TracksHolds == Spec => []Tracks
<1>1. ASSUME MouseInv PROVE Tracks
  <2>1. sending = <<>> => Len(sending) = 0
    OBVIOUS
  <2> QED  BY <1>1, <2>1 DEF MouseInv, Decoding, Tracks
<1> QED  BY <1>1, Invariance, PTL
=============================================================================
