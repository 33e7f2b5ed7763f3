------------------------------- MODULE Input -------------------------------
(***************************************************************************)
(* Keyboard (io/keyboard.asm, io/keyboard.hpp) and mouse                   *)
(* (io/mouse/mouse.cpp): two interrupt handlers and what the main program  *)
(* reads of them.                                                          *)
(*                                                                         *)
(* read_scancode runs with interrupts off, so that it and a handler are    *)
(* single steps.  The handlers share no variable: a behaviour of both is a *)
(* pair of behaviours, and active says which of the two this one follows.  *)
(* A scancode is a key and a direction; a byte of the mouse is its value   *)
(* as a signed number, because a decoder that lost its place takes it for  *)
(* a header and a movement alike.                                          *)
(* Definitions named X_<fault> are faulty variants of the X that follows.  *)
(***************************************************************************)
EXTENDS Integers, Sequences, FiniteSets

CONSTANTS
  KBD_SIZE,           \* slots of kbd_buf (32)
  Shifts, Letters,    \* keys
  Headers, Motions,   \* first bytes of a packet, and movements, the mouse sends
  BOUND_W, BOUND_H    \* bound_w, bound_h

ACK == -6             \* 0xFA

Bit(b, k) == (b \div 2^k) % 2

ASSUME InputAssumption ==
  /\ KBD_SIZE \in Nat \ {0} /\ BOUND_W \in Nat \ {0} /\ BOUND_H \in Nat \ {0}
  /\ Shifts \cap Letters = {}
  /\ \A b \in Headers : b \in -128 .. 127 /\ Bit(b, 3) = 1
  /\ Motions \subseteq -128 .. 127

Keys  == Shifts \cup Letters
Codes == [key : Keys, down : BOOLEAN]
NoCode == [key |-> "none", down |-> FALSE]
Slots == 0 .. KBD_SIZE - 1
Bytes == Headers \cup Motions \cup {ACK, 0}

VARIABLES
  active,
  kbd_buf, kbd_head, kbd_tail, kbd_shift_down,
  held,          \* the keys that are down
  pending,       \* history: codes taken and not read, with the case they were typed in
  unsure,        \* history: the codes taken do not tell whether shift is down
  mouse_cycle, mouse_packet,
  mouse,         \* mouse_x, mouse_y, the buttons, mouse_dx, mouse_dy
  init,          \* mouse_init: waits for "f6" or "f4" to be answered, "poll", "up"
  sending,       \* the bytes of its packet the mouse has not sent yet
  disturbed,     \* history: handler and mouse_init took bytes meant for the other
  truth          \* history: mouse as the whole packets sent so far make it

kbdVars   == <<kbd_buf, kbd_head, kbd_tail, kbd_shift_down, held, pending, unsure>>
mouseVars == <<mouse_cycle, mouse_packet, mouse, init, sending, disturbed, truth>>
vars == <<active, kbdVars, mouseVars>>

Rest == [x |-> BOUND_W \div 2, y |-> BOUND_H \div 2, left |-> 0, right |-> 0, middle |-> 0,
         dx |-> 0, dy |-> 0]

Init ==
  /\ active \in {"keyboard", "mouse"}
  /\ kbd_buf = [i \in Slots |-> NoCode]
  /\ kbd_head = 0 /\ kbd_tail = 0 /\ kbd_shift_down = 0
  /\ held = {} /\ pending = <<>> /\ unsure = FALSE
  /\ mouse_cycle = 0 /\ mouse_packet = <<0, 0, 0>> /\ mouse = Rest
  /\ init = "f6" /\ sending = <<>> /\ disturbed = FALSE /\ truth = Rest

-----------------------------------------------------------------------------
FullAt_never(head, tail) == FALSE

\* The slot after the head is the tail: the code is dropped.
FullAt(head, tail) == (head + 1) % KBD_SIZE = tail

kbd_handler(code) ==
  IF FullAt(kbd_head, kbd_tail)
  THEN UNCHANGED <<kbd_buf, kbd_head>>
  ELSE /\ kbd_buf' = [kbd_buf EXCEPT ![kbd_head] = code]
       /\ kbd_head' = (kbd_head + 1) % KBD_SIZE

\* A key is pressed (or repeats) or released, and the interrupt is taken.
Key(code) ==
  LET accepted == Len(pending) < KBD_SIZE - 1
      shift    == code.key \in Shifts
      still    == held' \cap Shifts # {}
  IN
  /\ active = "keyboard"
  /\ code.down \/ code.key \in held
  /\ held' = IF code.down THEN held \cup {code.key} ELSE held \ {code.key}
  /\ kbd_handler(code)
  /\ unsure' = IF shift THEN ~accepted \/ still # code.down ELSE unsure
  /\ pending' = IF accepted
                THEN Append(pending, [code |-> code, shifted |-> still, sure |-> ~unsure'])
                ELSE pending
  /\ UNCHANGED <<active, kbd_tail, kbd_shift_down, mouseVars>>

ShiftAfter_press_only(code) ==
  IF code.key \in Shifts /\ code.down THEN 1 ELSE kbd_shift_down

ShiftAfter(code) ==
  IF code.key \in Shifts THEN (IF code.down THEN 1 ELSE 0) ELSE kbd_shift_down

\* With nothing to read it returns 0, and nobody's state changes.
read_scancode ==
  /\ kbd_tail # kbd_head
  /\ kbd_tail' = (kbd_tail + 1) % KBD_SIZE

\* read_key: the next code, if there is one, moves the shift state or is a
\* character or nothing.
read_key ==
  /\ active = "keyboard"
  /\ read_scancode
  /\ kbd_shift_down' = ShiftAfter(kbd_buf[kbd_tail])
  /\ pending' = IF pending = <<>> THEN <<>> ELSE Tail(pending)
  /\ UNCHANGED <<active, kbd_buf, kbd_head, held, unsure, mouseVars>>

-----------------------------------------------------------------------------
Header_any(b) == TRUE

Header(b) == Bit(b, 3) = 1

Clamp(v, bound) == IF v < 0 THEN 0 ELSE IF v >= bound THEN bound - 1 ELSE v

Moved_upside_down(m, p) ==
  [x |-> Clamp(m.x + p[2], BOUND_W), y |-> Clamp(m.y + p[3], BOUND_H),
   left |-> Bit(p[1], 0), right |-> Bit(p[1], 1), middle |-> Bit(p[1], 2),
   dx |-> p[2], dy |-> 0 - p[3]]

\* The end of a packet p.
Moved(m, p) ==
  [x |-> Clamp(m.x + p[2], BOUND_W), y |-> Clamp(m.y - p[3], BOUND_H),
   left |-> Bit(p[1], 0), right |-> Bit(p[1], 1), middle |-> Bit(p[1], 2),
   dx |-> p[2], dy |-> 0 - p[3]]

mouse_irq_handler(b) ==
  /\ mouse_packet' = [mouse_packet EXCEPT ![mouse_cycle + 1] = b]
  /\ mouse_cycle' = IF mouse_cycle = 0 /\ ~Header(b) THEN 0 ELSE (mouse_cycle + 1) % 3
  /\ mouse' = IF mouse_cycle = 2 THEN Moved(mouse, mouse_packet') ELSE mouse

\* mouse_init sends 0xF6 and 0xF4 with interrupts on.  The answer is read by
\* mouse_read ...
Ack_read ==
  /\ active = "mouse" /\ init \in {"f6", "f4"}
  /\ init' = IF init = "f6" THEN "f4" ELSE "up"
  /\ UNCHANGED <<active, kbdVars, mouse_cycle, mouse_packet, mouse, sending, disturbed, truth>>

\* ... or taken by the handler, and mouse_read polls until it gives up ...
Ack_interrupts ==
  /\ active = "mouse" /\ init \in {"f6", "f4"}
  /\ mouse_irq_handler(ACK)
  /\ init' = IF init = "f6" THEN "f4" ELSE "poll"
  /\ disturbed' = TRUE
  /\ UNCHANGED <<active, kbdVars, sending, truth>>

Poll_ends ==
  /\ active = "mouse" /\ init = "poll"
  /\ init' = "up"
  /\ UNCHANGED <<active, kbdVars, mouse_cycle, mouse_packet, mouse, sending, disturbed, truth>>

\* ... or gets a byte of a packet.
Poll_takes ==
  /\ active = "mouse" /\ init = "poll" /\ sending # <<>>
  /\ init' = "up" /\ sending' = Tail(sending)
  /\ UNCHANGED <<active, kbdVars, mouse_cycle, mouse_packet, mouse, disturbed, truth>>

Distance(u, v) == IF u < v THEN v - u ELSE u - v

\* The position on the screen that is nearest to v.
Nearest(v, bound) ==
  CHOOSE w \in 0 .. bound - 1 : \A u \in 0 .. bound - 1 : Distance(w, v) <= Distance(u, v)

\* The mouse is moved or a button changes: it has a packet to send.
Mouse_moves(h, dx, dy) ==
  /\ active = "mouse" /\ init \in {"poll", "up"}
  /\ sending = <<>>
  /\ sending' = <<h, dx, dy>>
  /\ truth' = IF disturbed THEN truth
              ELSE [x |-> Nearest(truth.x + dx, BOUND_W), y |-> Nearest(truth.y - dy, BOUND_H),
                    left |-> h % 2, right |-> (h \div 2) % 2, middle |-> (h \div 4) % 2,
                    dx |-> dx, dy |-> 0 - dy]
  /\ UNCHANGED <<active, kbdVars, mouse_cycle, mouse_packet, mouse, init, disturbed>>

Mouse_byte ==
  /\ active = "mouse" /\ init \in {"poll", "up"}
  /\ sending # <<>>
  /\ mouse_irq_handler(Head(sending))
  /\ sending' = Tail(sending)
  /\ UNCHANGED <<active, kbdVars, init, disturbed, truth>>

Next ==
  \/ \E code \in Codes : Key(code)
  \/ read_key
  \/ Ack_read \/ Ack_interrupts \/ Poll_ends \/ Poll_takes \/ Mouse_byte
  \/ \E h \in Headers, dx, dy \in Motions : Mouse_moves(h, dx, dy)

\* The mouse sends the bytes of a packet it has begun; nobody has to move it.
Spec == Init /\ [][Next]_vars /\ WF_vars(Mouse_byte)

-----------------------------------------------------------------------------
InputTypeOK ==
  /\ kbd_buf \in [Slots -> Codes \cup {NoCode}] /\ kbd_head \in Slots /\ kbd_tail \in Slots
  /\ kbd_shift_down \in {0, 1} /\ held \subseteq Keys
  /\ pending \in Seq([code : Codes, shifted : BOOLEAN, sure : BOOLEAN])
  /\ mouse_cycle \in 0 .. 2 /\ mouse_packet \in [1 .. 3 -> Bytes]
  /\ mouse.x \in 0 .. BOUND_W - 1 /\ mouse.y \in 0 .. BOUND_H - 1
  /\ init \in {"f6", "f4", "poll", "up"} /\ Len(sending) <= 3

\* The ring is a queue of KBD_SIZE - 1 codes: codes are read in the order they
\* came, each one once, and one is dropped only when that many wait.
RingIsQueue ==
  /\ InputTypeOK
  /\ Len(pending) = (kbd_head - kbd_tail) % KBD_SIZE
  /\ \A i \in DOMAIN pending :
       kbd_buf[(kbd_tail + i - 1) % KBD_SIZE] = pending[i].code

\* A letter comes out in the case it was typed in, however late it is read and
\* whatever was typed since; and with nothing left to read the shift state is
\* the keyboard's.  Except after a shift code was dropped, or one shift key was
\* released while the other was down, until the next shift code that tells.
CaseKept ==
  /\ pending # <<>> /\ Head(pending).code.key \in Letters /\ Head(pending).sure
       => (kbd_shift_down = 1 <=> Head(pending).shifted)
  /\ pending = <<>> /\ ~unsure
       => (kbd_shift_down = 1 <=> held \cap Shifts # {})

\* If every byte reached the one it was for, position, buttons and movement are
\* those of the packets sent, whenever no packet is on its way.
Tracks == ~disturbed /\ sending = <<>> => mouse = truth

\* The decoder begins a packet where the mouse does.
Aligned == mouse_cycle = (3 - Len(sending)) % 3

\* The movements still to be sent cannot be taken for a header.
Quiet == \A i \in DOMAIN sending : i > Len(sending) - 2 => Bit(sending[i], 3) = 0

\* A decoder that bytes of the initialisation put out of step gets back in step,
\* if the mouse is moved on and its movements are such that the check of bit 3
\* can tell them from headers.
Realigns == []<>(sending # <<>>) /\ <>[]Quiet => <>[]Aligned
=============================================================================
