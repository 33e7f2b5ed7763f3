----------------------------- MODULE PitProofs ------------------------------
(***************************************************************************)
(* Proofs about the timer, for every word size and any sleeps.  A load of  *)
(* ticks whose halves may be of two different moments still lies between   *)
(* those moments if the high word is the same at both; that is what the    *)
(* inductive invariant carries from the loads to the comparison.           *)
(***************************************************************************)
EXTENDS Pit, TLAPS

Labels == {"idle", "start", "start2", "started", "check", "check2", "checked", "hlt",
           "time", "time2", "sti"}

TypeOK ==
  /\ ticks \in Nat /\ began \in Nat /\ ms \in Nat
  /\ value \in Nat /\ target \in Nat
  /\ half.low \in BOOLEAN /\ half.val \in Nat
  /\ IF_flag \in BOOLEAN /\ pc \in Labels

\* The half t1 of ticks was loaded at, as half holds it.
HalfOf(t1) == half.val = IF half.low THEN Low(t1) ELSE High(t1)

\* pit_ticks makes its loads with interrupts off, and both see the same ticks.
TimeExact ==
  /\ pc \in {"time", "time2", "sti"} => ~IF_flag
  /\ pc = "time2" => HalfOf(ticks)
  /\ pc = "sti" => value = ticks

\* As long as the high word is that of the beginning, what pit_sleep loads lies
\* between the ticks it began at and now.
SleepSound ==
  Sleeping =>
    /\ began <= ticks
    /\ High(ticks) = High(began) =>
         /\ pc \in {"start2", "check2"} => \E t1 \in began .. ticks : HalfOf(t1)
         /\ pc \in {"started", "checked"} => began <= value /\ value <= ticks
         /\ pc \in {"check", "check2", "checked", "hlt"} => target >= began + ms

Inv == TypeOK /\ TimeExact /\ SleepSound

-----------------------------------------------------------------------------
\* A number is made of its halves, and a smaller one has no larger high half.
LEMMA Halves ==
  ASSUME NEW t \in Nat
  PROVE  /\ High(t) \in Nat /\ Low(t) \in Nat
         /\ t = (High(t) * WORD) + Low(t)
         /\ \A s \in Nat : s <= t => High(s) <= High(t)
<1>1. WORD \in Nat \ {0}
  BY PitAssumption
<1>2. \A s \in Nat : /\ High(s) \in Nat /\ Low(s) \in 0 .. WORD - 1
                     /\ s = (High(s) * WORD) + Low(s)
  BY <1>1 DEF High, Low
<1>3. ASSUME NEW s \in Nat, s <= t PROVE High(s) <= High(t)
  <2> DEFINE a == High(s)
             b == High(t)
             p == a * WORD
             q == b * WORD
             l == Low(s)
             m == Low(t)
  <2>0. /\ a \in Nat /\ b \in Nat /\ l \in 0 .. WORD - 1 /\ m \in 0 .. WORD - 1
        /\ s = p + l /\ t = q + m
    BY <1>2
  <2> HIDE DEF a, b, l, m
  <2>1. a * WORD <= s /\ t < (b * WORD) + WORD
    <3>1. p \in Nat /\ q \in Nat
      BY <1>1, <2>0
    <3> HIDE DEF p, q
    <3>2. p <= s /\ t < q + WORD
      BY <1>1, <2>0, <3>1
    <3> QED  BY <3>2 DEF p, q
  <2>2. a * WORD < (b + 1) * WORD
    BY <1>1, <1>3, <2>0, <2>1
  <2>3. a < b + 1
    BY <1>1, <2>0, <2>2
  <2> QED  BY <2>0, <2>3 DEF a, b
<1> QED  BY <1>1, <1>2, <1>3

\* pit.cpp begins with no ticks and nobody asleep.
LEMMA InvInit == Init => Inv
BY DEF Init, Inv, TypeOK, TimeExact, SleepSound, Sleeping, NoHalf, Labels

\* The two loads of ticks give a number between the ticks at the first, t1, and
\* now if the high word is the same, and exactly ticks if t1 is now.
LEMMA Joined ==
  ASSUME TypeOK, NEW t1 \in Nat, t1 <= ticks, HalfOf(t1),
         NEW v, v = IF half.low THEN High(ticks) * WORD + half.val
                                ELSE half.val * WORD + Low(ticks)
  PROVE  /\ v \in Nat
         /\ High(ticks) = High(t1) => t1 <= v /\ v <= ticks
<1>1. ticks \in Nat /\ WORD \in Nat /\ half.low \in BOOLEAN
  BY PitAssumption DEF TypeOK
<1>2. /\ High(t1) \in Nat /\ Low(t1) \in Nat /\ t1 = (High(t1) * WORD) + Low(t1)
      /\ High(ticks) \in Nat /\ Low(ticks) \in Nat /\ ticks = (High(ticks) * WORD) + Low(ticks)
  BY <1>1, Halves
<1>3. v = (High(ticks) * WORD) + Low(t1) \/ v = (High(t1) * WORD) + Low(ticks)
  BY <1>1 DEF HalfOf
<1>4. High(ticks) * WORD \in Nat /\ High(t1) * WORD \in Nat
  BY <1>1, <1>2
<1> DEFINE p == High(ticks) * WORD
           q == High(t1) * WORD
<1>5. v \in Nat
  BY <1>2, <1>3, <1>4
<1>6. ASSUME High(ticks) = High(t1) PROVE t1 <= v /\ v <= ticks
  <2>1. p = q
    BY <1>6
  <2>2. v = p + Low(t1) \/ v = p + Low(ticks)
    BY <1>3, <2>1
  <2>3. v = t1 \/ v = ticks
    BY <1>2, <2>1, <2>2
  <2> QED  BY <1>1, <2>3
<1> QED  BY <1>5, <1>6

\* pit_tick: with pit_ticks under way interrupts are off, and where the high
\* word is still that of the beginning it was so before the tick.
LEMMA InvTick == ASSUME Inv, pit_tick PROVE Inv'
<1> USE DEF Inv
<1>1. /\ IF_flag /\ ticks \in Nat /\ ticks' = ticks + 1 /\ began \in Nat
      /\ pc' = (IF pc = "hlt" THEN "check" ELSE pc)
      /\ UNCHANGED <<IF_flag, ms, target, half, value, began>>
  BY DEF pit_tick, TypeOK
<1>2. TypeOK'
  BY <1>1 DEF TypeOK, Labels
<1>3. TimeExact'
  BY <1>1 DEF TimeExact
<1>4. ASSUME Sleeping' PROVE SleepSound'
  <2>1. Sleeping /\ began <= ticks
    BY <1>1, <1>4 DEF Sleeping, SleepSound
  <2>2. began <= ticks'
    BY <1>1, <2>1
  <2>3. ASSUME High(ticks') = High(began) PROVE High(ticks) = High(began)
    <3>1. High(began) <= High(ticks) /\ High(ticks) <= High(ticks + 1)
      BY <1>1, <2>1, Halves
    <3>2. High(began) \in Nat /\ High(ticks) \in Nat
      BY <1>1, Halves
    <3> QED  BY <1>1, <2>3, <3>1, <3>2
  <2>4. ASSUME High(ticks') = High(began), pc \in {"start2", "check2"}
        PROVE  \E t1 \in began .. ticks' : HalfOf(t1)'
    <3>1. PICK t1 \in began .. ticks : HalfOf(t1)
      BY <2>1, <2>3, <2>4 DEF SleepSound
    <3>2. t1 \in began .. ticks'
      BY <1>1
    <3>3. HalfOf(t1)'
      BY <1>1, <3>1 DEF HalfOf
    <3> QED  BY <3>2, <3>3
  <2>5. ASSUME High(ticks') = High(began), pc \in {"started", "checked"}
        PROVE  began <= value /\ value <= ticks'
    BY <1>1, <2>1, <2>3, <2>5 DEF SleepSound, TypeOK
  <2>6. ASSUME High(ticks') = High(began), pc \in {"check", "check2", "checked", "hlt"}
        PROVE  target >= began + ms
    BY <2>1, <2>3, <2>6 DEF SleepSound
  <2>7. High(ticks)' = High(ticks') /\ High(began)' = High(began)
    BY <1>1 DEF High
  <2> QED  BY <1>1, <2>1, <2>2, <2>4, <2>5, <2>6, <2>7 DEF SleepSound
<1> QED  BY <1>2, <1>3, <1>4 DEF SleepSound

\* The first load: it is made now.
LEMMA InvFirst ==
  ASSUME Inv, NEW from, NEW to, Load_first(from, to),
         <<from, to>> \in {<<"start", "start2">>, <<"check", "check2">>, <<"time", "time2">>}
  PROVE  Inv'
<1> USE DEF Inv
<1>1. /\ pc = from /\ pc' = to /\ ticks \in Nat /\ began \in Nat
      /\ UNCHANGED <<ticks, IF_flag, ms, target, value, began>>
  BY DEF Load_first, TypeOK
<1>2. PICK low \in BOOLEAN : half' = [low |-> low, val |-> IF low THEN Low(ticks) ELSE High(ticks)]
  BY DEF Load_first
<1>3. half'.low \in BOOLEAN /\ half'.val \in Nat /\ half'.val = (IF half'.low THEN Low(ticks) ELSE High(ticks))
  BY <1>1, <1>2, Halves
<1>4. TypeOK'
  BY <1>1, <1>3 DEF TypeOK, Labels
<1>5. HalfOf(ticks)'
  BY <1>1, <1>3 DEF HalfOf, Low, High
<1>6. TimeExact'
  BY <1>1, <1>5 DEF TimeExact
<1>7. SleepSound'
  <2>1. CASE from \in {"start", "check"}
    <3>1. Sleeping /\ began <= ticks /\ ticks \in began .. ticks
      BY <1>1, <2>1 DEF Sleeping, SleepSound
    <3>2. \E t1 \in began' .. ticks' : HalfOf(t1)'
      <4>1. ticks \in began' .. ticks'
        BY <1>1, <3>1
      <4>2. HalfOf(ticks)' => \E t1 \in began' .. ticks' : HalfOf(t1)'
        BY <1>1, <4>1 DEF HalfOf, Low, High
      <4> QED  BY <1>5, <4>2
    <3>3. High(ticks)' = High(ticks) /\ High(began)' = High(began)
      BY <1>1 DEF High
    <3>4. to \in {"start2", "check2"} /\ (to = "check2" => from = "check")
      BY <2>1
    <3> QED  BY <1>1, <3>1, <3>2, <3>3, <3>4 DEF SleepSound, Sleeping
  <2>2. CASE from = "time"
    BY <1>1, <2>2 DEF SleepSound, Sleeping
  <2> QED  BY <2>1, <2>2
<1> QED  BY <1>4, <1>6, <1>7

\* The second load: what the two give is ticks for pit_ticks, and for pit_sleep
\* a moment of the load.
LEMMA InvSecond ==
  ASSUME Inv, NEW from, NEW to, Load_second(from, to),
         <<from, to>> \in {<<"start2", "started">>, <<"check2", "checked">>, <<"time2", "sti">>}
  PROVE  Inv'
<1> USE DEF Inv
<1>1. /\ pc = from /\ pc' = to /\ ticks \in Nat /\ began \in Nat
      /\ UNCHANGED <<ticks, IF_flag, ms, target, began>> /\ half' = NoHalf
      /\ value' = IF half.low THEN High(ticks) * WORD + half.val
                              ELSE half.val * WORD + Low(ticks)
  BY DEF Load_second, TypeOK
<1>2. value' \in Nat
  <2>1. High(ticks) \in Nat /\ Low(ticks) \in Nat /\ half.val \in Nat /\ WORD \in Nat
    BY <1>1, Halves, PitAssumption DEF TypeOK
  <2>2. High(ticks) * WORD \in Nat /\ half.val * WORD \in Nat
    BY <2>1
  <2> QED  BY <1>1, <2>1, <2>2
<1>3. TypeOK'
  BY <1>1, <1>2 DEF TypeOK, Labels, NoHalf
<1>4. TimeExact'
  <2>1. CASE from = "time2"
    <3>1. HalfOf(ticks) /\ ~IF_flag
      BY <1>1, <2>1 DEF TimeExact
    <3>2. ticks <= value' /\ value' <= ticks
      BY <1>1, <3>1, Joined
    <3>3. value' = ticks
      BY <1>1, <1>2, <3>2
    <3> QED  BY <1>1, <2>1, <3>1, <3>3 DEF TimeExact
  <2>2. CASE from # "time2"
    BY <1>1, <2>2 DEF TimeExact
  <2> QED  BY <2>1, <2>2
<1>5. SleepSound'
  <2>1. CASE from \in {"start2", "check2"}
    <3>1. Sleeping /\ began <= ticks
      BY <1>1, <2>1 DEF Sleeping, SleepSound
    <3>2. ASSUME High(ticks) = High(began) PROVE began <= value' /\ value' <= ticks
      <4>1. PICK t1 \in began .. ticks : HalfOf(t1)
        BY <1>1, <2>1, <3>1, <3>2 DEF SleepSound
      <4>2. t1 \in Nat /\ t1 <= ticks /\ began <= t1
        BY <1>1
      <4>3. High(ticks) = High(t1)
        <5>1. High(began) <= High(t1) /\ High(t1) <= High(ticks)
          BY <1>1, <4>2, Halves
        <5>2. High(began) \in Nat /\ High(t1) \in Nat
          BY <1>1, <4>2, Halves
        <5> QED  BY <3>2, <5>1, <5>2
      <4>4. t1 <= value' /\ value' <= ticks
        BY <1>1, <4>1, <4>2, <4>3, Joined
      <4> QED  BY <1>1, <1>2, <4>2, <4>4
    <3>3. High(ticks)' = High(ticks) /\ High(began)' = High(began)
      BY <1>1 DEF High
    <3>4. to \in {"started", "checked"} /\ (to = "checked" => from = "check2")
      BY <2>1
    <3> QED  BY <1>1, <3>1, <3>2, <3>3, <3>4 DEF SleepSound, Sleeping
  <2>2. CASE from = "time2"
    BY <1>1, <2>2 DEF SleepSound, Sleeping
  <2> QED  BY <2>1, <2>2
<1> QED  BY <1>3, <1>4, <1>5

\* The steps of a call that load nothing.
LEMMA InvOther ==
  ASSUME Inv,
         \/ \E who \in Callers, n \in 0 .. MaxMs : pit_sleep(who, n)
         \/ pit_ticks \/ Set_target \/ Wait \/ Return \/ Sti \/ UNCHANGED vars
  PROVE  Inv'
<1> USE DEF Inv
<1>1. ASSUME NEW who \in Callers, NEW n \in 0 .. MaxMs, pit_sleep(who, n) PROVE Inv'
  BY <1>1, PitAssumption DEF pit_sleep, Interruptible, TypeOK, TimeExact, SleepSound, Sleeping, Labels
<1>2. CASE pit_ticks
  BY <1>2 DEF pit_ticks, cli, TypeOK, TimeExact, SleepSound, Sleeping, Labels
<1>3. CASE Set_target
  <2>1. /\ pc = "started" /\ pc' = "check" /\ target' = value + ms
        /\ UNCHANGED <<ticks, IF_flag, ms, half, value, began>>
    BY <1>3 DEF Set_target
  <2>2. TypeOK' /\ TimeExact'
    BY <2>1 DEF TypeOK, TimeExact, Labels
  <2>3. began <= ticks /\ (High(ticks) = High(began) => target' >= began + ms)
    BY <2>1, <2>2 DEF TypeOK, SleepSound, Sleeping
  <2>4. High(ticks)' = High(ticks) /\ High(began)' = High(began)
    BY <2>1 DEF High
  <2> QED  BY <2>1, <2>2, <2>3, <2>4 DEF SleepSound
<1>4. CASE Wait
  <2>1. /\ pc = "checked" /\ pc' = "hlt"
        /\ UNCHANGED <<ticks, IF_flag, ms, target, half, value, began>>
    BY <1>4 DEF Wait
  <2>2. TypeOK' /\ TimeExact'
    BY <2>1 DEF TypeOK, TimeExact, Labels
  <2>3. High(ticks)' = High(ticks) /\ High(began)' = High(began)
    BY <2>1 DEF High
  <2> QED  BY <2>1, <2>2, <2>3 DEF SleepSound, Sleeping
<1>5. CASE Return
  BY <1>5 DEF Return, TypeOK, TimeExact, SleepSound, Sleeping, Labels
<1>6. CASE Sti
  BY <1>6 DEF Sti, TypeOK, TimeExact, SleepSound, Sleeping, Labels
<1>7. CASE UNCHANGED vars
  BY <1>7 DEF vars, TypeOK, TimeExact, SleepSound, Sleeping, HalfOf, High, Low
<1> QED  BY <1>1, <1>2, <1>3, <1>4, <1>5, <1>6, <1>7

\* The invariant holds throughout.
LEMMA Invariance == Spec => []Inv
<1>1. ASSUME Inv, [Next]_vars PROVE Inv'
  BY <1>1, InvTick, InvFirst, InvSecond, InvOther DEF Next, Step
<1> QED  BY <1>1, InvInit, PTL DEF Spec

\* pit_ticks reports the tick count as it is when it is reported, whatever the
\* order of its two loads, because no tick comes between them.
THEOREM TicksExactHolds == Spec => []TicksExact
<1>1. Inv => TicksExact
  BY DEF Inv, TimeExact, TicksExact
<1> QED  BY <1>1, Invariance, PTL

\* pit_sleep never returns before the time asked for, ticks coming between its
\* loads included, unless the high word of ticks moved since it began.
THEOREM NeverEarlyHolds == Spec => []NeverEarly
<1>1. ASSUME Inv PROVE NeverEarly
  <2> SUFFICES ASSUME pc = "checked", Elapsed, High(ticks) = High(began)
               PROVE  ticks >= began + ms
    BY DEF NeverEarly
  <2>1. value <= ticks /\ target >= began + ms
    BY <1>1 DEF Inv, SleepSound, Sleeping
  <2>2. value >= target
    BY DEF Elapsed
  <2>3. ticks \in Nat /\ value \in Nat /\ target \in Nat /\ began \in Nat /\ ms \in Nat
    BY <1>1 DEF Inv, TypeOK
  <2> QED  BY <2>1, <2>2, <2>3
<1> QED  BY <1>1, Invariance, PTL
=============================================================================
