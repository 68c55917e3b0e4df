--------------------------- MODULE AnalysisProofs ---------------------------
(***************************************************************************)
(* What push_source hands to handle_message, for every source, every way   *)
(* of cutting it into chunks, and every size of the buffer; and, for every *)
(* log and every way it can grow, what the reports on it say.              *)
(***************************************************************************)
EXTENDS StreamDrain, Reports, Lemmas

(* How far the source has been drained: between two reads the bytes before *)
(* the buffer are settled, and in a drain those before its cursor.         *)
Frontier == IF pc \in {"read", "check"} THEN base ELSE cursor

Taken == ToSet(handled)

(* The messages handled were complete in the buffer, and are settled.      *)
TakenAreSettled ==
  \A p \in Taken : ParseOk(source, p) /\ Told(p) /\ 2 * EndOf(source, p) <= Frontier

(* Why a marker is settled: its message was handled, it lies inside one    *)
(* that was, it was seen to be malformed, or the watchdog discarded it.    *)
Settled(b) ==
  \/ b \in Taken
  \/ \E p \in Taken : p < b /\ b < EndOf(source, p)
  \/ Told(b) /\ ~ ParseOk(source, b)
  \/ 2 * b \in dropped

AllSettled ==
  \A b \in 0 .. Len(source) - 1 : IsBegin(source, b) /\ 2 * b < Frontier => Settled(b)

(* The last drain has all of the source, and stops at its end or at the    *)
(* first message that never gets complete.                                 *)
Stuck == \E o \in 0 .. Len(source) - 1 : FirstFound(o) /\ ~ Told(o)

LastDrain ==
  /\ pc \in {"last", "done"} => read = Size /\ base <= cursor
  /\ pc = "done" => NoneFound \/ Stuck

IInv == TypeOK /\ HandledOnce /\ TakenAreSettled /\ AllSettled /\ LastDrain

-----------------------------------------------------------------------------
(* The offsets of a marker's message, complete or not.                     *)
LEMMA MarkerBounds ==
  ASSUME TypeOK, NEW o \in 0 .. Len(source) - 1
  PROVE  /\ BodyEnd(source, o) \in Nat
         /\ o + 1 <= BodyEnd(source, o)
         /\ EndOf(source, o) = BodyEnd(source, o) + 1
<1>1. source[o + 1] \in Cell
  BY DEF TypeOK
<1> QED  BY <1>1 DEF BodyEnd, EndOf, Cell

(* A complete message is told exactly when all of it is in the buffer: its *)
(* CheckSum is no noise, so that the parser looks no further.              *)
LEMMA MessageIsTold ==
  ASSUME TypeOK, NEW o, ParseOk(source, o)
  PROVE  /\ o \in 0 .. Len(source) - 1
         /\ EndOf(source, o) \in Nat /\ o + 2 <= EndOf(source, o)
         /\ EndOf(source, o) <= Len(source)
         /\ Told(o) <=> 2 * EndOf(source, o) <= read
<1> DEFINE e == BodyEnd(source, o)
<1>1. o \in 0 .. Len(source) - 1 /\ e < Len(source) /\ ~ Noisy(e)
  BY DEF ParseOk, IsBegin, Noisy
<1>2. e \in Nat /\ o + 1 <= e /\ EndOf(source, o) = e + 1
  BY <1>1, MarkerBounds
<1>3. Len(source) \in Nat /\ read \in Nat
  BY DEF TypeOK, Size
<1> HIDE DEF e
<1>4. ASSUME Told(o) PROVE 2 * (e + 1) <= read
  <2>1. PICK f \in e .. Len(source) - 1 :
          /\ \A i \in e .. f - 1 : Noisy(i)
          /\ read >= IF f = e THEN 2 * f + 2 ELSE 2 * f + 1
    BY <1>4 DEF Told, e
  <2>2. f = e
    BY <1>1, <1>2, <2>1
  <2> QED  BY <1>2, <1>3, <2>1, <2>2
<1>5. ASSUME 2 * (e + 1) <= read PROVE Told(o)
  <2>1. /\ e \in e .. Len(source) - 1
        /\ \A i \in e .. e - 1 : Noisy(i)
        /\ read >= 2 * e + 2
    BY <1>1, <1>2, <1>3, <1>5
  <2> QED  BY <1>1, <2>1 DEF Told, e
<1> QED  BY <1>1, <1>2, <1>3, <1>4, <1>5

(* More of the source in the buffer tells no less.                         *)
LEMMA ToldGrows ==
  ASSUME TypeOK, TypeOK', source' = source, read <= read',
         NEW o \in 0 .. Len(source) - 1, Told(o)
  PROVE  Told(o)'
<1> DEFINE B == BodyEnd(source, o)
<1>1. PICK e \in B .. Len(source) - 1 :
        /\ \A i \in B .. e - 1 : Noisy(i)
        /\ ~ Noisy(e)
        /\ read >= IF e = B THEN 2 * e + 2 ELSE 2 * e + 1
  BY DEF Told
<1>2. B \in Nat /\ e \in Nat /\ read \in Nat /\ read' \in Nat
  BY MarkerBounds DEF TypeOK, Size
<1>3. read' >= IF e = B THEN 2 * e + 2 ELSE 2 * e + 1
  BY <1>1, <1>2
<1> QED  BY <1>1, <1>3 DEF Told, Noisy

(* What is between two offsets of the source is in the source.             *)
LEMMA IntervalWithin ==
  ASSUME NEW a \in Nat, NEW b \in Nat, NEW n \in Nat, b <= n
  PROVE  a .. b - 1 \subseteq 0 .. n - 1
OBVIOUS

LEMMA InInterval ==
  ASSUME NEW a \in Nat, NEW b \in Int, NEW x \in Int, a <= x, x < b
  PROVE  x \in a .. b - 1
OBVIOUS

(* The watchdog leaves no more than it may keep.                           *)
LEMMA HalfOf == MaxBuffer \in Nat /\ MaxBuffer \div 2 \in 0 .. MaxBuffer
BY ConstantsAssumption

-----------------------------------------------------------------------------
LEMMA TypeInit == Init => TypeOK
<1> SUFFICES ASSUME Init PROVE TypeOK
  OBVIOUS
<1>1. PICK n \in 0 .. MaxLen : source \in [1 .. n -> Cells]
  BY DEF Init, Sources
<1>2. source \in Seq(Cell) /\ Len(source) \in Nat
  BY <1>1, ConstantsAssumption
<1> QED  BY <1>2 DEF Init, TypeOK, Size

LEMMA TypeStep == TypeOK /\ [Next]_vars => TypeOK'
<1> SUFFICES ASSUME TypeOK, [Next]_vars PROVE TypeOK'
  OBVIOUS
<1>1. /\ source \in Seq(Cell) /\ Len(source) \in Nat /\ Size \in Nat /\ Size = 2 * Len(source)
      /\ base \in Nat /\ read \in Nat /\ cursor \in Nat /\ base <= read /\ read <= Size
  BY DEF TypeOK, Size
<1>2. ASSUME NEW n \in 1 .. ReadChunk, ReadSome(n) PROVE TypeOK'
  BY <1>1, <1>2, ConstantsAssumption DEF ReadSome, TypeOK, Size
<1>3. CASE ReadEof
  BY <1>1, <1>3 DEF ReadEof, TypeOK, Size
<1>4. ASSUME NEW o \in 0 .. Len(source) - 1, HandleMessage(o) PROVE TypeOK'
  <2>1. /\ EndOf(source, o) \in Nat /\ o + 2 <= EndOf(source, o)
        /\ 2 * EndOf(source, o) <= read
    BY <1>4, MessageIsTold DEF HandleMessage
  <2>2. cursor <= 2 * o /\ cursor' = 2 * EndOf(source, o) /\ base <= cursor
    BY <1>4 DEF HandleMessage, FirstFound, Found, TypeOK
  <2>3. cursor' \in base .. read /\ cursor' \in Nat
    BY <1>1, <2>1, <2>2
  <2>4. handled' \in Seq(Nat)
    BY <1>4 DEF HandleMessage, TypeOK
  <2> QED  BY <1>4, <2>3, <2>4 DEF HandleMessage, TypeOK, Size
<1>5. ASSUME NEW o \in 0 .. Len(source) - 1, SkipMalformed(o) PROVE TypeOK'
  <2>1. cursor <= 2 * o /\ 2 * o < read /\ cursor' = 2 * o + 1 /\ base <= cursor
    BY <1>5 DEF SkipMalformed, FirstFound, Found, TypeOK
  <2>2. cursor' \in base .. read /\ cursor' \in Nat
    BY <1>1, <2>1
  <2> QED  BY <1>5, <2>2 DEF SkipMalformed, TypeOK, Size
<1>6. CASE StopDrain
  <2>1. base' \in 0 .. read
    BY <1>1, <1>6 DEF StopDrain, DrainConsumed, FirstFound, Found, TypeOK
  <2> QED  BY <1>6, <2>1 DEF StopDrain, TypeOK, Size
<1>7. CASE StopLast
  BY <1>7 DEF StopLast, TypeOK, Size
<1>8. CASE CheckBuffer
  <2>1. base' \in 0 .. read
    BY <1>1, <1>8, HalfOf DEF CheckBuffer
  <2>2. base .. base' - 1 \subseteq 0 .. Size - 1
    <3>1. base \in Nat /\ Size \in Nat /\ base' \in Nat /\ base' <= Size
      BY <1>1, <2>1
    <3> QED  BY <3>1, IntervalWithin, Zenon
  <2>3. dropped' \subseteq 0 .. Size - 1
    BY <1>8, <2>2 DEF CheckBuffer, TypeOK
  <2> QED  BY <1>8, <2>1, <2>3 DEF CheckBuffer, TypeOK, Size
<1>9. CASE UNCHANGED vars
  BY <1>9 DEF vars, TypeOK, Size
<1> QED  BY <1>2, <1>3, <1>4, <1>5, <1>6, <1>7, <1>8, <1>9 DEF Next, Drain

(* The cursor never leaves the buffer, and the buffer holds what was read. *)
THEOREM TypeCorrect == Spec => []TypeOK
<1>1. QED  BY TypeInit, TypeStep, PTL DEF Spec
-----------------------------------------------------------------------------
(* Numbers that the steps below compare.                                   *)
LEMMA Offsets ==
  ASSUME TypeOK
  PROVE  /\ source \in Seq(Cell) /\ Len(source) \in Nat /\ Size = 2 * Len(source)
         /\ base \in Nat /\ read \in Nat /\ cursor \in Nat /\ Frontier \in Nat
         /\ base <= read /\ read <= Size
BY DEF TypeOK, Size, Frontier

(* A settled marker stays settled as more is read, taken and dropped.      *)
LEMMA SettledStays ==
  ASSUME TypeOK, TypeOK', source' = source, read <= read',
         Taken \subseteq Taken', dropped \subseteq dropped',
         NEW b \in 0 .. Len(source) - 1, Settled(b)
  PROVE  Settled(b)'
<1>1. CASE b \in Taken
  BY <1>1 DEF Settled
<1>2. CASE \E p \in Taken : p < b /\ b < EndOf(source, p)
  BY <1>2 DEF Settled
<1>3. CASE Told(b) /\ ~ ParseOk(source, b)
  <2>1. Told(b)'
    BY <1>3, ToldGrows
  <2> QED  BY <1>3, <2>1 DEF Settled
<1>4. CASE 2 * b \in dropped
  BY <1>4 DEF Settled
<1> QED  BY <1>1, <1>2, <1>3, <1>4 DEF Settled

(* A step that handles no message only has to account for the markers that *)
(* its frontier passes.                                                    *)
LEMMA FrontierMoves ==
  ASSUME IInv, TypeOK', source' = source, handled' = handled, read <= read',
         dropped \subseteq dropped', Frontier <= Frontier',
         \A b \in 0 .. Len(source) - 1 :
           IsBegin(source, b) /\ Frontier <= 2 * b /\ 2 * b < Frontier' => Settled(b)'
  PROVE  HandledOnce' /\ TakenAreSettled' /\ AllSettled'
<1>1. TypeOK /\ Frontier \in Nat /\ Frontier' \in Nat
  BY Offsets DEF IInv, TypeOK, Frontier
<1>2. Taken' = Taken
  BY DEF Taken
<1>3. HandledOnce'
  BY DEF IInv, HandledOnce
<1>4. ASSUME NEW p \in Taken
      PROVE  ParseOk(source, p) /\ Told(p)' /\ 2 * EndOf(source, p) <= Frontier'
  <2>1. ParseOk(source, p) /\ Told(p) /\ 2 * EndOf(source, p) <= Frontier
    BY DEF IInv, TakenAreSettled
  <2>2. p \in 0 .. Len(source) - 1 /\ EndOf(source, p) \in Nat
    BY <1>1, <2>1, MessageIsTold
  <2>3. Told(p)'
    BY <1>1, <2>1, <2>2, ToldGrows
  <2> QED  BY <1>1, <2>1, <2>2, <2>3
<1>5. ASSUME NEW b \in 0 .. Len(source) - 1, IsBegin(source, b), 2 * b < Frontier'
      PROVE  Settled(b)'
  <2>1. CASE Frontier <= 2 * b
    BY <1>5, <2>1
  <2>2. CASE 2 * b < Frontier
    <3>1. Settled(b)
      BY <1>5, <2>2 DEF IInv, AllSettled
    <3> QED  BY <1>1, <1>2, <3>1, SettledStays
  <2> QED  BY <1>1, <2>1, <2>2
<1>6. TakenAreSettled'
  BY <1>2, <1>4 DEF TakenAreSettled
<1>7. AllSettled'
  BY <1>5 DEF AllSettled
<1> QED  BY <1>3, <1>6, <1>7

LEMMA InvInit == Init => IInv
<1> SUFFICES ASSUME Init PROVE IInv
  OBVIOUS
<1>1. TypeOK /\ DOMAIN handled = {} /\ Frontier = 0
  BY TypeInit DEF Init, Frontier
<1>2. Taken = {}
  BY <1>1 DEF Taken, ToSet
<1>3. HandledOnce /\ TakenAreSettled
  BY <1>1, <1>2 DEF HandledOnce, TakenAreSettled
<1>4. AllSettled
  BY <1>1 DEF AllSettled
<1>5. LastDrain
  BY DEF Init, LastDrain
<1> QED  BY <1>1, <1>3, <1>4, <1>5 DEF IInv

(* A chunk moves no frontier: the drain starts where the buffer does.      *)
LEMMA ReadStep ==
  ASSUME IInv, TypeOK', ReadEof \/ \E n \in 1 .. ReadChunk : ReadSome(n)
  PROVE  IInv'
<1>1. /\ pc = "read" /\ pc' \in {"drain", "last"} /\ cursor' = base /\ base' = base
      /\ UNCHANGED <<source, handled, dropped>>
      /\ pc' = "last" => read' = read /\ read = Size
  BY DEF ReadEof, ReadSome
<1>2. read <= read'
  BY Offsets, ConstantsAssumption DEF IInv, ReadEof, ReadSome
<1>3. Frontier' = Frontier /\ Frontier \in Nat
  BY <1>1, Offsets DEF IInv, Frontier
<1>4. HandledOnce' /\ TakenAreSettled' /\ AllSettled'
  BY <1>1, <1>2, <1>3, FrontierMoves
<1>5. base' <= cursor'
  BY <1>1, Offsets DEF IInv
<1>6. LastDrain'
  BY <1>1, <1>5 DEF LastDrain, Size
<1> QED  BY <1>4, <1>6 DEF IInv

(* Of the markers up to the first one found, that one alone is not settled.*)
LEMMA FirstUnsettled ==
  ASSUME TypeOK, NEW o \in 0 .. Len(source) - 1, FirstFound(o)
  PROVE  /\ cursor <= 2 * o /\ 2 * o < read /\ IsBegin(source, o)
         /\ \A b \in 0 .. Len(source) - 1 :
              IsBegin(source, b) /\ cursor <= 2 * b => o <= b
<1>1. cursor <= 2 * o /\ 2 * o < read /\ IsBegin(source, o)
  BY DEF FirstFound, Found
<1>2. ASSUME NEW b \in 0 .. Len(source) - 1, IsBegin(source, b), cursor <= 2 * b, b < o
      PROVE  FALSE
  <2>1. 2 * b < read /\ b \in 0 .. o - 1
    BY <1>1, <1>2, Offsets
  <2> QED  BY <1>2, <2>1 DEF FirstFound, Found
<1> QED  BY <1>1, <1>2

(* A message handled begins at or after the end of all before it.          *)
LEMMA HandleStep ==
  ASSUME IInv, TypeOK', NEW o \in 0 .. Len(source) - 1, HandleMessage(o)
  PROVE  IInv'
<1> DEFINE n == Len(handled)
<1>1. /\ pc \in {"drain", "last"} /\ FirstFound(o) /\ Told(o) /\ ParseOk(source, o)
      /\ handled' = Append(handled, o) /\ cursor' = 2 * EndOf(source, o)
      /\ UNCHANGED <<source, base, read, pc, dropped>>
  BY DEF HandleMessage
<1>2. /\ TypeOK /\ handled \in Seq(Nat) /\ n \in Nat /\ o \in Nat
      /\ Frontier = cursor /\ Frontier' = cursor'
      /\ cursor \in Nat /\ base <= cursor
  BY <1>1, Offsets DEF IInv, TypeOK, Frontier
<1>3. /\ EndOf(source, o) \in Nat /\ o + 2 <= EndOf(source, o)
      /\ 2 * EndOf(source, o) <= read
  BY <1>1, <1>2, MessageIsTold
<1>4. /\ cursor <= 2 * o
      /\ \A b \in 0 .. Len(source) - 1 : IsBegin(source, b) /\ cursor <= 2 * b => o <= b
  BY <1>1, <1>2, FirstUnsettled
<1>5. /\ DOMAIN handled = 1 .. n /\ DOMAIN handled' = 1 .. n + 1
      /\ handled'[n + 1] = o
      /\ \A i \in 1 .. n : handled'[i] = handled[i]
  BY <1>1, <1>2
<1> HIDE DEF n
<1>6. Taken' = Taken \cup {o}
  <2>1. \A i \in 1 .. n + 1 : i \in 1 .. n \/ i = n + 1
    BY <1>2
  <2>2. 1 .. n \subseteq 1 .. n + 1 /\ n + 1 \in 1 .. n + 1
    BY <1>2
  <2>3. Taken' = {handled'[i] : i \in 1 .. n + 1} /\ Taken = {handled[i] : i \in 1 .. n}
    BY <1>5 DEF Taken, ToSet
  <2> QED  BY <1>5, <2>1, <2>2, <2>3
<1>7. \A p \in Taken : /\ ParseOk(source, p) /\ Told(p)
                       /\ EndOf(source, p) \in Nat /\ 2 * EndOf(source, p) <= cursor
  BY <1>2, MessageIsTold DEF IInv, TakenAreSettled
<1>8. HandledOnce'
  <2>1. \A i \in 1 .. n + 1 : ParseOk(source, handled'[i])
    <3>1. \A i \in 1 .. n : handled[i] \in Taken
      BY <1>5 DEF Taken, ToSet
    <3> QED  BY <1>1, <1>2, <1>5, <1>7, <3>1
  <2>2. ASSUME NEW i \in 1 .. n + 1, NEW j \in 1 .. n + 1, i < j
        PROVE  EndOf(source, handled'[i]) <= handled'[j]
    <3>1. i \in 1 .. n
      BY <1>2, <2>2
    <3>2. CASE j \in 1 .. n
      BY <1>5, <2>2, <3>1, <3>2 DEF IInv, HandledOnce
    <3>3. CASE j = n + 1
      <4>1. handled[i] \in Taken
        BY <1>5, <3>1 DEF Taken, ToSet
      <4>2. EndOf(source, handled[i]) \in Nat /\ 2 * EndOf(source, handled[i]) <= cursor
        BY <1>7, <4>1
      <4>3. EndOf(source, handled[i]) <= o
        BY <1>2, <1>4, <4>2
      <4> QED  BY <1>5, <3>1, <3>3, <4>3
    <3> QED  BY <1>2, <2>2, <3>2, <3>3
  <2> QED  BY <1>1, <1>5, <2>1, <2>2 DEF HandledOnce
<1>9. TakenAreSettled'
  <2>1. ASSUME NEW p \in Taken'
        PROVE  ParseOk(source, p) /\ Told(p)' /\ 2 * EndOf(source, p) <= cursor'
    <3>1. Told(p) <=> Told(p)'
      BY <1>1 DEF Told, Noisy
    <3>2. CASE p = o
      BY <1>1, <1>3, <3>1, <3>2
    <3>3. CASE p \in Taken
      <4>1. cursor <= cursor' /\ cursor' \in Nat
        BY <1>1, <1>2, <1>3, <1>4
      <4> QED  BY <1>2, <1>7, <3>1, <3>3, <4>1
    <3> QED  BY <1>6, <2>1, <3>2, <3>3
  <2> QED  BY <1>1, <1>2, <2>1 DEF TakenAreSettled
<1>10. AllSettled'
  <2>1. ASSUME NEW b \in 0 .. Len(source) - 1, IsBegin(source, b), 2 * b < cursor'
        PROVE  Settled(b)'
    <3>1. CASE 2 * b < cursor
      <4>1. Settled(b)
        BY <1>2, <2>1, <3>1 DEF IInv, AllSettled
      <4>2. read <= read'
        BY <1>1, <1>2, Offsets
      <4> QED  BY <1>1, <1>2, <1>6, <4>1, <4>2, SettledStays
    <3>2. CASE cursor <= 2 * b
      <4>1. b = o \/ (o < b /\ b < EndOf(source, o))
        BY <1>1, <1>2, <1>3, <1>4, <2>1, <3>2
      <4> QED  BY <1>1, <1>6, <4>1 DEF Settled
    <3> QED  BY <1>2, <3>1, <3>2
  <2> QED  BY <1>1, <1>2, <2>1 DEF AllSettled
<1>11. LastDrain'
  <2>1. base' <= cursor'
    BY <1>1, <1>2, <1>3, <1>4, Offsets
  <2> QED  BY <1>1, <2>1 DEF IInv, LastDrain, Size
<1> QED  BY <1>8, <1>9, <1>10, <1>11 DEF IInv

LEMMA SkipStep ==
  ASSUME IInv, TypeOK', NEW o \in 0 .. Len(source) - 1, SkipMalformed(o)
  PROVE  IInv'
<1>1. /\ pc \in {"drain", "last"} /\ FirstFound(o) /\ Told(o) /\ ~ ParseOk(source, o)
      /\ cursor' = 2 * o + 1
      /\ UNCHANGED <<source, base, read, pc, handled, dropped>>
  BY DEF SkipMalformed
<1>2. /\ TypeOK /\ Frontier = cursor /\ Frontier' = cursor' /\ read <= read'
      /\ cursor \in Nat /\ base \in Nat /\ base <= cursor /\ o \in Nat
  BY <1>1, Offsets DEF IInv, TypeOK, Frontier
<1>3. /\ cursor <= 2 * o
      /\ \A b \in 0 .. Len(source) - 1 : IsBegin(source, b) /\ cursor <= 2 * b => o <= b
  BY <1>1, <1>2, FirstUnsettled
<1>4. Told(o)'
  BY <1>1, <1>2, ToldGrows DEF IInv
<1>5. ASSUME NEW b \in 0 .. Len(source) - 1, IsBegin(source, b),
             Frontier <= 2 * b, 2 * b < Frontier'
      PROVE  Settled(b)'
  <2>1. b = o
    BY <1>1, <1>2, <1>3, <1>5
  <2> QED  BY <1>1, <1>4, <2>1 DEF Settled
<1>6. Frontier <= Frontier' /\ base' <= cursor'
  BY <1>1, <1>2, <1>3
<1>7. HandledOnce' /\ TakenAreSettled' /\ AllSettled'
  BY <1>1, <1>2, <1>5, <1>6, FrontierMoves
<1>8. LastDrain'
  BY <1>1, <1>6 DEF IInv, LastDrain, Size
<1> QED  BY <1>7, <1>8 DEF IInv

(* What stays in the buffer begins with the first marker not settled.      *)
LEMMA StopStep ==
  ASSUME IInv, TypeOK', StopDrain
  PROVE  IInv'
<1>1. /\ pc = "drain" /\ pc' = "check"
      /\ UNCHANGED <<source, read, cursor, handled, dropped>>
  BY DEF StopDrain
<1>2. /\ TypeOK /\ Frontier = cursor /\ Frontier' = base' /\ read <= read' /\ cursor \in Nat
  BY <1>1, Offsets DEF IInv, TypeOK, Frontier
<1>3. /\ Frontier <= Frontier'
      /\ \A b \in 0 .. Len(source) - 1 :
           ~ (IsBegin(source, b) /\ Frontier <= 2 * b /\ 2 * b < Frontier')
  <2>1. CASE base' = cursor
    BY <1>2, <2>1
  <2>2. ASSUME NEW o \in 0 .. Len(source) - 1, FirstFound(o), base' = 2 * o
        PROVE  /\ Frontier <= Frontier'
               /\ \A b \in 0 .. Len(source) - 1 :
                    ~ (IsBegin(source, b) /\ Frontier <= 2 * b /\ 2 * b < Frontier')
    <3>1. /\ cursor <= 2 * o
          /\ \A b \in 0 .. Len(source) - 1 : IsBegin(source, b) /\ cursor <= 2 * b => o <= b
      BY <1>2, <2>2, FirstUnsettled
    <3> QED  BY <1>2, <2>2, <3>1
  <2> QED  BY <2>1, <2>2 DEF StopDrain, DrainConsumed
<1>4. HandledOnce' /\ TakenAreSettled' /\ AllSettled'
  BY <1>1, <1>2, <1>3, FrontierMoves
<1>5. LastDrain'
  BY <1>1 DEF LastDrain
<1> QED  BY <1>4, <1>5 DEF IInv

LEMMA LastStep ==
  ASSUME IInv, TypeOK', StopLast
  PROVE  IInv'
<1>1. /\ pc = "last" /\ pc' = "done"
      /\ NoneFound \/ Stuck
      /\ UNCHANGED <<source, base, read, cursor, handled, dropped>>
  BY DEF StopLast, Stuck
<1>2. Frontier' = Frontier /\ Frontier \in Nat /\ read <= read'
  BY <1>1, Offsets DEF IInv, Frontier
<1>3. HandledOnce' /\ TakenAreSettled' /\ AllSettled'
  BY <1>1, <1>2, FrontierMoves
<1>4. NoneFound' \/ Stuck'
  BY <1>1 DEF NoneFound, Stuck, FirstFound, Found, Told, Noisy
<1>5. LastDrain'
  BY <1>1, <1>4 DEF IInv, LastDrain, Size
<1> QED  BY <1>3, <1>5 DEF IInv

(* The watchdog moves the frontier, over bytes that it records as dropped. *)
LEMMA CheckStep ==
  ASSUME IInv, TypeOK', CheckBuffer
  PROVE  IInv'
<1>1. /\ pc = "check" /\ pc' = "read" /\ dropped' = dropped \cup base .. base' - 1
      /\ UNCHANGED <<source, read, cursor, handled>>
  BY DEF CheckBuffer
<1>2. base \in Nat /\ read \in Nat /\ Frontier = base /\ Frontier' = base' /\ read <= read'
  BY <1>1, Offsets DEF IInv, Frontier
<1>3. base <= base' /\ base' \in Int
  BY <1>2, HalfOf DEF CheckBuffer
<1>4. ASSUME NEW b \in 0 .. Len(source) - 1, Frontier <= 2 * b, 2 * b < Frontier'
      PROVE  Settled(b)'
  <2>1. base \in Nat /\ base' \in Int /\ 2 * b \in Int /\ base <= 2 * b /\ 2 * b < base'
    BY <1>2, <1>3, <1>4
  <2>2. 2 * b \in base .. base' - 1
    BY <2>1, InInterval, Zenon
  <2> QED  BY <1>1, <2>2 DEF Settled
<1>5. HandledOnce' /\ TakenAreSettled' /\ AllSettled'
  BY <1>1, <1>2, <1>3, <1>4, FrontierMoves
<1>6. LastDrain'
  BY <1>1 DEF LastDrain
<1> QED  BY <1>5, <1>6 DEF IInv

LEMMA InvStep == IInv /\ [Next]_vars => IInv'
<1> SUFFICES ASSUME IInv, [Next]_vars PROVE IInv'
  OBVIOUS
<1>1. TypeOK'
  BY TypeStep DEF IInv
<1>2. CASE ReadEof \/ \E n \in 1 .. ReadChunk : ReadSome(n)
  BY <1>1, <1>2, ReadStep
<1>3. ASSUME NEW o \in 0 .. Len(source) - 1, HandleMessage(o) PROVE IInv'
  BY <1>1, <1>3, HandleStep
<1>4. ASSUME NEW o \in 0 .. Len(source) - 1, SkipMalformed(o) PROVE IInv'
  BY <1>1, <1>4, SkipStep
<1>5. CASE StopDrain
  BY <1>1, <1>5, StopStep
<1>6. CASE StopLast
  BY <1>1, <1>6, LastStep
<1>7. CASE CheckBuffer
  BY <1>1, <1>7, CheckStep
<1>8. CASE UNCHANGED vars
  <2>1. UNCHANGED <<source, base, read, cursor, pc, handled, dropped>>
    BY <1>8 DEF vars
  <2>2. Frontier' = Frontier /\ Frontier \in Nat /\ read <= read'
    BY <2>1, Offsets DEF IInv, Frontier
  <2>3. HandledOnce' /\ TakenAreSettled' /\ AllSettled'
    BY <1>1, <2>1, <2>2, FrontierMoves
  <2>4. (NoneFound <=> NoneFound') /\ (Stuck <=> Stuck')
    BY <2>1 DEF NoneFound, Stuck, FirstFound, Found, Told, Noisy
  <2>5. LastDrain'
    BY <2>1, <2>4 DEF IInv, LastDrain, Size
  <2> QED  BY <1>1, <2>3, <2>5 DEF IInv
<1> QED  BY <1>2, <1>3, <1>4, <1>5, <1>6, <1>7, <1>8 DEF Next, Drain

LEMMA InvHolds == Spec => []IInv
<1>1. QED  BY InvInit, InvStep, PTL DEF Spec

-----------------------------------------------------------------------------
(* No byte is part of two messages handled, although what stays in the     *)
(* buffer is scanned again with every chunk.                               *)
THEOREM NothingHandledTwice == Spec => []HandledOnce
<1>1. IInv => HandledOnce
  BY DEF IInv
<1> QED  BY <1>1, InvHolds, PTL

(* At the end, a marker that is not settled is one behind which the last   *)
(* drain stopped.                                                          *)
LEMMA UnsettledAtEnd ==
  ASSUME IInv, pc = "done", NEW q \in CompleteIn(source), ~ Settled(q)
  PROVE  \E b \in 0 .. q - 1 :
           /\ IsBegin(source, b) /\ ~ Told(b)
           /\ base <= 2 * b
           /\ \A p \in Taken : EndOf(source, p) <= b
<1>1. /\ TypeOK /\ Frontier = cursor /\ read = Size /\ base <= cursor
      /\ NoneFound \/ Stuck
  BY DEF IInv, LastDrain, Frontier
<1>2. /\ ParseOk(source, q) /\ IsBegin(source, q) /\ q \in 0 .. Len(source) - 1
      /\ Len(source) \in Nat /\ Size = 2 * Len(source)
      /\ cursor \in Nat /\ base \in Nat
  BY <1>1, Offsets DEF CompleteIn, ParseOk
<1>3. Told(q) /\ 2 * q < read
  <2>1. /\ EndOf(source, q) \in Nat /\ EndOf(source, q) <= Len(source)
        /\ Told(q) <=> 2 * EndOf(source, q) <= read
    BY <1>1, <1>2, MessageIsTold
  <2> QED  BY <1>1, <1>2, <2>1
<1>4. cursor <= 2 * q
  BY <1>1, <1>2 DEF IInv, AllSettled
<1>5. Found(q)
  BY <1>2, <1>3, <1>4 DEF Found
<1>6. PICK b \in 0 .. Len(source) - 1 : FirstFound(b) /\ ~ Told(b)
  BY <1>1, <1>2, <1>5 DEF NoneFound, Stuck
<1>7. cursor <= 2 * b /\ IsBegin(source, b) /\ b <= q
  BY <1>1, <1>2, <1>4, <1>6, FirstUnsettled
<1>8. b # q
  BY <1>3, <1>6
<1>9. b \in 0 .. q - 1 /\ base <= 2 * b
  BY <1>1, <1>2, <1>7, <1>8
<1>10. ASSUME NEW p \in Taken PROVE EndOf(source, p) <= b
  <2>1. ParseOk(source, p) /\ 2 * EndOf(source, p) <= cursor
    BY <1>1 DEF IInv, TakenAreSettled
  <2>2. EndOf(source, p) \in Nat
    BY <1>1, <2>1, MessageIsTold
  <2> QED  BY <1>2, <1>7, <2>1, <2>2
<1> QED  BY <1>6, <1>7, <1>9, <1>10

(* Nothing gets lost but what the watchdog discards and what the log       *)
(* leaves unfinished.                                                      *)
LEMMA IInvImpliesOnlyDropped == IInv => OnlyDroppedIsLost
<1> SUFFICES ASSUME IInv, pc = "done", NEW q \in CompleteIn(source) \ Taken
             PROVE  \/ \E p \in Taken : p < EndOf(source, q) /\ q < EndOf(source, p)
                    \/ (2 * q .. 2 * EndOf(source, q) - 1) \cap dropped # {}
                    \/ \E b \in 0 .. q - 1 : IsBegin(source, b) /\ base <= 2 * b /\ ~ Told(b)
  BY DEF OnlyDroppedIsLost, Taken
<1>1. /\ TypeOK /\ ParseOk(source, q) /\ q \in Nat
      /\ EndOf(source, q) \in Nat /\ q + 2 <= EndOf(source, q)
  BY MessageIsTold DEF IInv, CompleteIn
<1>2. CASE \E p \in Taken : p < q /\ q < EndOf(source, p)
  <2>1. PICK p \in Taken : p < q /\ q < EndOf(source, p)
    BY <1>2
  <2>2. p \in Nat
    BY DEF IInv, TypeOK, Taken, ToSet
  <2> QED  BY <1>1, <2>1, <2>2
<1>3. CASE 2 * q \in dropped
  <2>1. 2 * q \in 2 * q .. 2 * EndOf(source, q) - 1
    BY <1>1
  <2> QED  BY <1>3, <2>1
<1>4. CASE ~ Settled(q)
  BY <1>4, UnsettledAtEnd
<1> QED  BY <1>1, <1>2, <1>3, <1>4 DEF Settled

(* With the watchdog too, a complete message is left out for a reason.     *)
THEOREM LossIsAccounted == Spec => []OnlyDroppedIsLost
<1>1. QED  BY IInvImpliesOnlyDropped, InvHolds, PTL

LEMMA IInvImpliesChunks == IInv => ChunksDoNotMatter
<1> SUFFICES ASSUME IInv, pc = "done", dropped = {}
             PROVE  Taken = {o \in CompleteIn(source) :
                               Reached(o) /\ \A b \in 0 .. o - 1 : Reached(b) => Told(b)}
  BY DEF ChunksDoNotMatter, Taken
<1>0. ASSUME NEW p \in Taken PROVE p \in CompleteIn(source)
  <2>1. ParseOk(source, p)
    BY DEF IInv, TakenAreSettled
  <2> QED  BY <2>1 DEF CompleteIn, ParseOk, IsBegin
<1> SUFFICES ASSUME NEW o \in CompleteIn(source)
             PROVE  o \in Taken <=>
                      Reached(o) /\ \A b \in 0 .. o - 1 : Reached(b) => Told(b)
  BY <1>0
<1>1. /\ TypeOK /\ ParseOk(source, o) /\ IsBegin(source, o) /\ o \in 0 .. Len(source) - 1
      /\ Len(source) \in Nat /\ Frontier = cursor /\ cursor \in Nat
  BY Offsets DEF IInv, CompleteIn, ParseOk, Frontier
<1>2. ASSUME o \in Taken
      PROVE  Reached(o) /\ \A b \in 0 .. o - 1 : Reached(b) => Told(b)
  <2>1. 2 * EndOf(source, o) <= cursor /\ EndOf(source, o) \in Nat /\ o + 2 <= EndOf(source, o)
    BY <1>1, <1>2, MessageIsTold DEF IInv, TakenAreSettled
  <2>2. ASSUME NEW p \in Taken, p < o PROVE EndOf(source, p) <= o
    <3>1. PICK i \in DOMAIN handled : handled[i] = p
      BY DEF Taken, ToSet
    <3>2. PICK j \in DOMAIN handled : handled[j] = o
      BY <1>2 DEF Taken, ToSet
    <3>3. /\ i \in Nat /\ j \in Nat
          /\ i < j => EndOf(source, p) <= o
          /\ j < i => EndOf(source, o) <= p
      BY <3>1, <3>2 DEF IInv, HandledOnce, TypeOK
    <3>4. p \in Nat
      BY <3>1 DEF IInv, TypeOK
    <3> QED  BY <1>1, <2>1, <2>2, <3>1, <3>2, <3>3, <3>4
  <2>3. Reached(o)
    <3>1. ASSUME NEW p \in Taken, p < o, o < EndOf(source, p) PROVE FALSE
      <4>1. EndOf(source, p) <= o
        BY <2>2, <3>1
      <4>2. EndOf(source, p) \in Nat
        BY <1>1, MessageIsTold DEF IInv, TakenAreSettled
      <4> QED  BY <1>1, <3>1, <4>1, <4>2
    <3> QED  BY <1>1, <3>1 DEF Reached, Taken
  <2>4. ASSUME NEW b \in 0 .. o - 1, Reached(b) PROVE Told(b)
    <3>1. b \in 0 .. Len(source) - 1 /\ 2 * b < cursor
      BY <1>1, <2>1
    <3>2. Settled(b) /\ ~ \E p \in Taken : p < b /\ b < EndOf(source, p)
      BY <1>1, <2>4, <3>1 DEF IInv, AllSettled, Reached, Taken
    <3> QED  BY <3>2 DEF Settled, IInv, TakenAreSettled
  <2> QED  BY <2>3, <2>4
<1>3. ASSUME o \notin Taken, Reached(o), \A b \in 0 .. o - 1 : Reached(b) => Told(b)
      PROVE  FALSE
  <2>1. ~ Settled(o)
    BY <1>1, <1>3 DEF Settled, Reached, Taken
  <2>2. PICK b \in 0 .. o - 1 :
          /\ IsBegin(source, b) /\ ~ Told(b)
          /\ \A p \in Taken : EndOf(source, p) <= b
    BY <2>1, UnsettledAtEnd
  <2>3. Reached(b)
    <3>1. ASSUME NEW p \in Taken PROVE ~ (b < EndOf(source, p))
      <4>1. EndOf(source, p) \in Nat /\ EndOf(source, p) <= b
        BY <1>1, <2>2, MessageIsTold DEF IInv, TakenAreSettled
      <4> QED  BY <4>1
    <3> QED  BY <2>2, <3>1 DEF Reached, Taken
  <2> QED  BY <1>3, <2>2, <2>3
<1> QED  BY <1>2, <1>3

(* Where the chunks end does not matter while the watchdog does not bite.  *)
THEOREM AnyChunks == Spec => []ChunksDoNotMatter
<1>1. QED  BY IInvImpliesChunks, InvHolds, PTL

-----------------------------------------------------------------------------
(* A buffer from a to r gets no longer when it begins later, and what is   *)
(* within MAX_BUFFER is within MAX_BUFFER and a chunk.                     *)
LEMMA ShorterBuffer ==
  ASSUME NEW r \in Nat, NEW a \in Nat, NEW b \in Nat, NEW k \in Nat,
         a <= b, r - a <= k
  PROVE  r - b <= k
OBVIOUS

LEMMA WithChunk ==
  ASSUME NEW r \in Nat, NEW b \in Int, NEW k \in Nat, NEW c \in Nat, r - b <= k
  PROVE  r - b <= k + c
OBVIOUS

LEMMA BoundInit == Init => BufferIsBounded
BY ConstantsAssumption DEF Init, BufferIsBounded

LEMMA BoundStep == TypeOK /\ BufferIsBounded /\ [Next]_vars => BufferIsBounded'
<1> SUFFICES ASSUME TypeOK, BufferIsBounded, [Next]_vars PROVE BufferIsBounded'
  OBVIOUS
<1>1. /\ base \in Nat /\ read \in Nat /\ cursor \in Nat /\ base <= read
      /\ MaxBuffer \in Nat /\ ReadChunk \in Nat /\ read - base <= MaxBuffer + ReadChunk
  BY Offsets, ConstantsAssumption DEF BufferIsBounded
<1>2. ASSUME NEW n \in 1 .. ReadChunk, ReadSome(n) PROVE BufferIsBounded'
  <2>1. pc' = "drain" /\ base' = base /\ read' = read + n /\ read - base <= MaxBuffer
    BY <1>2 DEF ReadSome, BufferIsBounded
  <2> QED  BY <1>1, <2>1 DEF BufferIsBounded
<1>3. CASE StopDrain
  <2>1. pc' = "check" /\ read' = read /\ base' \in base .. read
    BY <1>1, <1>3 DEF StopDrain, DrainConsumed, FirstFound, Found, TypeOK
  <2>2. base <= base' /\ base' \in Nat /\ MaxBuffer + ReadChunk \in Nat
    BY <1>1, <2>1
  <2>3. read - base' <= MaxBuffer + ReadChunk
    BY <1>1, <2>2, ShorterBuffer, Zenon
  <2> QED  BY <2>1, <2>3 DEF BufferIsBounded
<1>4. CASE CheckBuffer
  <2>1. read' = read /\ base' \in Int /\ read - base' <= MaxBuffer
    BY <1>1, <1>4, HalfOf DEF CheckBuffer
  <2>2. read - base' <= MaxBuffer + ReadChunk
    BY <1>1, <2>1, WithChunk, Zenon
  <2> QED  BY <2>1, <2>2 DEF BufferIsBounded
<1>5. CASE ReadEof \/ StopLast \/ UNCHANGED vars
           \/ \E o \in 0 .. Len(source) - 1 : HandleMessage(o) \/ SkipMalformed(o)
  <2>1. base' = base /\ read' = read /\ (pc' = "read" => pc = "read")
    BY <1>5 DEF ReadEof, StopLast, HandleMessage, SkipMalformed, vars
  <2> QED  BY <2>1 DEF BufferIsBounded
<1> QED  BY <1>2, <1>3, <1>4, <1>5 DEF Next, Drain

(* The buffer never holds more than MAX_BUFFER and one chunk, and never    *)
(* more than MAX_BUFFER when the next chunk is read.                       *)
THEOREM MemoryIsBounded == Spec => []BufferIsBounded
<1>1. QED  BY TypeInit, TypeStep, BoundInit, BoundStep, PTL DEF Spec

-----------------------------------------------------------------------------
Message == Seq(Nat \X Nat)

Values == Nat \cup Asked

(* What a message says of a tag is a value or nothing.                     *)
LEMMA FindTagIs ==
  ASSUME NEW msg \in Message, NEW tag
  PROVE  find_tag(msg, tag) \in Nat \cup {None}
<1> DEFINE I == {i \in 1 .. Len(msg) : msg[i][1] = tag}
           at == IF I # {} THEN Min(I) ELSE 0
<1>1. find_tag(msg, tag) = IF at = 0 THEN None ELSE msg[at][2]
  BY DEF find_tag, SelectInSeq
<1>2. Len(msg) \in Nat
  BY DEF Message
<1>3. IsFiniteSet(I) /\ I \in SUBSET Int
  <2>1. IsFiniteSet(1 .. Len(msg))
    BY <1>2, FS_Interval
  <2>2. I \in SUBSET (1 .. Len(msg))
    OBVIOUS
  <2> HIDE DEF I
  <2>3. IsFiniteSet(I)
    BY <2>1, <2>2, FS_Subset
  <2>4. 1 .. Len(msg) \subseteq Int
    BY <1>2
  <2> QED  BY <2>2, <2>3, <2>4
<1>4. I # {} => Min(I) \in I
  <2> HIDE DEF I
  <2> QED  BY <1>3, LeastIs
<1>5. at # 0 => at \in 1 .. Len(msg)
  BY <1>4
<1>6. \A i \in 1 .. Len(msg) : msg[i][2] \in Nat
  BY DEF Message
<1> HIDE DEF at
<1> QED  BY <1>1, <1>5, <1>6

(* The messages of the index are the first ones of the log.                *)
LEMMA IndexIs ==
  ASSUME log \in Logs, NEW n \in 0 .. Len(log)
  PROVE  /\ Len(log) \in Nat /\ n \in Nat
         /\ SubSeq(log, 1, n) \in Seq(Message) /\ Len(SubSeq(log, 1, n)) = n
         /\ \A i \in 1 .. n : SubSeq(log, 1, n)[i] = log[i] /\ log[i] \in Message
<1>1. log \in Seq(Message) /\ Len(log) \in Nat
  BY ReportsAssumption DEF Message
<1>2. \A i \in 1 .. n : log[i] \in Message
  BY <1>1
<1>3. /\ SubSeq(log, 1, n) \in Seq(Message)
      /\ Len(SubSeq(log, 1, n)) = IF 1 <= n THEN n - 1 + 1 ELSE 0
      /\ \A i \in 1 .. n - 1 + 1 : SubSeq(log, 1, n)[i] = log[1 + i - 1]
  BY <1>1, <1>2, SubSeqProperties
<1>4. n \in Nat
  BY <1>1
<1> HIDE DEF Message
<1> QED  BY <1>1, <1>2, <1>3, <1>4

LEMMA OrdinalsAre ==
  ASSUME NEW x \in Seq(Message)
  PROVE  /\ Len(x) \in Nat /\ OrdinalsOf(x) = 0 .. Len(x) - 1
         /\ IsFiniteSet(OrdinalsOf(x)) /\ OrdinalsOf(x) \subseteq Nat
         /\ \A o \in OrdinalsOf(x) : message(x, o) \in Message /\ message(x, o) = x[o + 1]
<1>1. Len(x) \in Nat
  OBVIOUS
<1>2. IsFiniteSet(0 .. Len(x) - 1)
  BY <1>1, FS_Interval
<1>3. \A o \in 0 .. Len(x) - 1 : x[o + 1] \in Message
  BY <1>1
<1> QED  BY <1>1, <1>2, <1>3 DEF OrdinalsOf, message

LEMMA LastAndFront ==
  ASSUME NEW T, NEW s \in Seq(T), s # << >>
  PROVE  /\ Last(s) \in T /\ Front(s) \in Seq(T)
         /\ ToSet(s) = ToSet(Front(s)) \cup {Last(s)}
<1>1. Len(s) \in Nat /\ Len(s) >= 1 /\ DOMAIN s = 1 .. Len(s)
  OBVIOUS
<1>2. /\ Front(s) \in Seq(T) /\ Len(Front(s)) = Len(s) - 1
      /\ \A i \in 1 .. Len(s) - 1 : Front(s)[i] = s[i]
  BY <1>1 DEF Front
<1>3. DOMAIN Front(s) = 1 .. Len(s) - 1
  BY <1>2
<1>4. Last(s) = s[Len(s)]
  BY DEF Last
<1>5. ToSet(s) = {s[i] : i \in 1 .. Len(s)} /\ ToSet(Front(s)) = {s[i] : i \in 1 .. Len(s) - 1}
  BY <1>1, <1>2, <1>3 DEF ToSet
<1> QED  BY <1>1, <1>2, <1>4, <1>5

LEMMA BothTogether ==
  ASSUME NEW T, NEW s \in Seq(T), NEW u \in Seq(T)
  PROVE  s \o u \in Seq(T) /\ ToSet(s \o u) = ToSet(s) \cup ToSet(u)
<1>1. /\ s \o u \in Seq(T) /\ Len(s \o u) = Len(s) + Len(u)
      /\ Len(s) \in Nat /\ Len(u) \in Nat
      /\ \A i \in 1 .. Len(s) : (s \o u)[i] = s[i]
      /\ \A i \in 1 .. Len(u) : (s \o u)[Len(s) + i] = u[i]
  BY ConcatProperties
<1>2. DOMAIN (s \o u) = 1 .. Len(s) + Len(u) /\ DOMAIN s = 1 .. Len(s) /\ DOMAIN u = 1 .. Len(u)
  BY <1>1
<1>3. ToSet(s) \cup ToSet(u) \subseteq ToSet(s \o u)
  <2>1. \A i \in 1 .. Len(s) : i \in 1 .. Len(s) + Len(u)
    BY <1>1
  <2>2. \A i \in 1 .. Len(u) : Len(s) + i \in 1 .. Len(s) + Len(u)
    BY <1>1
  <2> QED  BY <1>1, <1>2, <2>1, <2>2 DEF ToSet
<1>4. ToSet(s \o u) \subseteq ToSet(s) \cup ToSet(u)
  <2> SUFFICES ASSUME NEW i \in 1 .. Len(s) + Len(u)
               PROVE  (s \o u)[i] \in ToSet(s) \cup ToSet(u)
    BY <1>2 DEF ToSet
  <2>1. CASE i <= Len(s)
    BY <1>1, <1>2, <2>1 DEF ToSet
  <2>2. CASE i > Len(s)
    <3>1. i - Len(s) \in 1 .. Len(u) /\ Len(s) + (i - Len(s)) = i
      BY <1>1, <2>2
    <3>2. (s \o u)[i] = u[i - Len(s)]
      BY <1>1, <3>1
    <3> QED  BY <1>2, <3>1, <3>2 DEF ToSet
  <2> QED  BY <1>1, <2>1, <2>2
<1> QED  BY <1>1, <1>3, <1>4

-----------------------------------------------------------------------------
(* The timeline: what is seen and to be looked at lies in every set that    *)
(* the replacements do not leave, and what is seen is replaced by nothing   *)
(* else.                                                                   *)
TimelineType(x) ==
  [pc : {"expand", "found", "not_found"}, clordid : Values, ordinals : SUBSET OrdinalsOf(x),
   seen : SUBSET Values, pending : Seq(Values), order_ids : SUBSET Values,
   events : Seq(OrdinalsOf(x))]

Named(x) == {find_tag(message(x, o), ClOrdID) : o \in OrdinalsOf(x)} \ {None}

Candidates(x, id) == {{id} \cup s : s \in SUBSET Named(x)}

Direct(x, ids) ==
  {o \in OrdinalsOf(x) : \E y \in ids : \/ Mentions(message(x, o), ClOrdID, y)
                                        \/ Mentions(message(x, o), OrigClOrdID, y)}

Touched(t) == t.seen \cup ToSet(t.pending)

Chained(t, x) ==
  /\ t.clordid \in Touched(t)
  /\ Touched(t) \subseteq {t.clordid} \cup Named(x)
  /\ \A ids \in Candidates(x, t.clordid) : Closed(x, ids) => Touched(t) \subseteq ids
  /\ \A o \in OrdinalsOf(x) :
       (\E y \in t.seen : Mentions(message(x, o), OrigClOrdID, y)) =>
         find_tag(message(x, o), ClOrdID) \in Touched(t) \cup {None}
  /\ t.ordinals = Direct(x, t.seen)

LEMMA Starts ==
  ASSUME NEW x \in Seq(Message), NEW id \in Asked
  PROVE  started(id) \in TimelineType(x) /\ Chained(started(id), x)
<1> DEFINE t == started(id)
<1>1. /\ t.pc = "expand" /\ t.clordid = id /\ t.ordinals = {} /\ t.seen = {}
      /\ t.pending = <<id>>
  BY DEF started
<1>2. t \in TimelineType(x)
  <2>1. << >> \in Seq(OrdinalsOf(x)) /\ <<id>> \in Seq(Values) /\ id \in Values
    BY DEF Values
  <2> QED  BY <2>1 DEF started, TimelineType
<1>3. Touched(t) = {id}
  <2>1. ToSet(<<id>>) = {id}
    BY DEF ToSet
  <2> QED  BY <1>1, <2>1 DEF Touched
<1>4. \A ids \in Candidates(x, id) : id \in ids
  BY DEF Candidates
<1> HIDE DEF t
<1>5. Chained(t, x)
  BY <1>1, <1>3, <1>4 DEF Chained, Direct
<1> QED  BY <1>2, <1>5 DEF t

LEMMA SuccessorsAre ==
  ASSUME NEW x \in Seq(Message), NEW referers \in SUBSET OrdinalsOf(x), NEW seen
  PROVE  /\ Successors(x, referers, seen) \in Seq(Nat)
         /\ ToSet(Successors(x, referers, seen)) =
              {find_tag(message(x, o), ClOrdID) : o \in referers} \ (seen \cup {None})
<1> DEFINE new(o) == find_tag(message(x, o), ClOrdID)
           at == {o \in referers : new(o) \notin seen \cup {None}}
           w == Ascending(at)
           s == Successors(x, referers, seen)
<1>1. IsFiniteSet(at) /\ at \subseteq Nat
  BY OrdinalsAre, FS_Subset
<1>2. w \in Seq(at) /\ ToSet(w) = at
  <2> HIDE DEF at
  <2> QED  BY <1>1, AscendingIs
<1>3. s = [k \in DOMAIN w |-> new(w[k])]
  BY DEF Successors
<1>4. \A o \in at : new(o) \in Nat
  BY OrdinalsAre, FindTagIs
<1> HIDE DEF w
<1>5. DOMAIN w = 1 .. Len(w) /\ Len(w) \in Nat /\ \A k \in 1 .. Len(w) : w[k] \in at
  <2> HIDE DEF at
  <2> QED  BY <1>2
<1>6. s \in [1 .. Len(w) -> Nat] /\ \A k \in 1 .. Len(w) : s[k] = new(w[k])
  <2> HIDE DEF s, new, at
  <2> QED  BY <1>3, <1>4, <1>5
<1>7. s \in Seq(Nat) /\ DOMAIN s = 1 .. Len(w)
  <2> HIDE DEF s
  <2> QED  BY <1>5, <1>6
<1>8. ToSet(s) = {new(w[k]) : k \in 1 .. Len(w)}
  <2> HIDE DEF s, new
  <2> QED  BY <1>6, <1>7 DEF ToSet
<1>9. at = {w[k] : k \in 1 .. Len(w)}
  <2> HIDE DEF at
  <2> QED  BY <1>2, <1>5 DEF ToSet
<1>10. ToSet(s) = {new(o) : o \in at}
  <2> HIDE DEF s, new, at
  <2> QED  BY <1>8, <1>9
<1> QED  BY <1>7, <1>10

LEMMA LookupIs ==
  ASSUME NEW x, NEW tag \in {ClOrdID, OrigClOrdID, OrderID}, NEW y
  PROVE  lookup(x, tag, y) = {o \in OrdinalsOf(x) : Mentions(message(x, o), tag, y)}
BY DEF lookup, HotTags

LEMMA Expands ==
  ASSUME NEW x \in Seq(Message), NEW t \in TimelineType(x), Chained(t, x), t.pending # << >>,
         NEW u, u = expanded(t, x)
  PROVE  u \in TimelineType(x) /\ Chained(u, x) /\ u.pc = t.pc
<1> DEFINE cid == Last(t.pending)
           referers == lookup(x, OrigClOrdID, cid)
           seen == t.seen \cup {cid}
           succ == Successors(x, referers, seen)
<1>1. /\ cid \in Values /\ Front(t.pending) \in Seq(Values)
      /\ ToSet(t.pending) = ToSet(Front(t.pending)) \cup {cid}
  BY LastAndFront DEF TimelineType
<1>2. CASE cid \in t.seen
  <2>1. u = [t EXCEPT !.pending = Front(@)]
    BY <1>2 DEF expanded
  <2>2. /\ u \in TimelineType(x) /\ u.pc = t.pc /\ u.clordid = t.clordid /\ u.seen = t.seen
        /\ u.ordinals = t.ordinals /\ u.pending = Front(t.pending)
    BY <1>1, <2>1 DEF TimelineType
  <2>3. Touched(u) = Touched(t)
    BY <1>1, <1>2, <2>2 DEF Touched
  <2> QED  BY <2>2, <2>3 DEF Chained
<1>3. CASE cid \notin t.seen
  <2>1. u = [t EXCEPT !.seen = seen,
                      !.ordinals = @ \cup lookup(x, ClOrdID, cid) \cup referers,
                      !.pending = Front(@) \o succ]
    BY <1>3 DEF expanded
  <2>2. /\ referers = {o \in OrdinalsOf(x) : Mentions(message(x, o), OrigClOrdID, cid)}
        /\ lookup(x, ClOrdID, cid) = {o \in OrdinalsOf(x) : Mentions(message(x, o), ClOrdID, cid)}
    BY LookupIs
  <2>3. /\ succ \in Seq(Nat)
        /\ ToSet(succ) = {find_tag(message(x, o), ClOrdID) : o \in referers} \ (seen \cup {None})
    <3> HIDE DEF seen
    <3> QED  BY <2>2, SuccessorsAre
  <2>4. succ \in Seq(Values)
    BY <2>3 DEF Values
  <2>5. /\ Front(t.pending) \o succ \in Seq(Values)
        /\ ToSet(Front(t.pending) \o succ) = ToSet(Front(t.pending)) \cup ToSet(succ)
    <3> HIDE DEF succ
    <3> QED  BY <1>1, <2>4, BothTogether
  <2> HIDE DEF succ, referers, cid
  <2>6. /\ u \in TimelineType(x) /\ u.pc = t.pc /\ u.clordid = t.clordid /\ u.seen = seen
        /\ u.ordinals = t.ordinals \cup lookup(x, ClOrdID, cid) \cup referers
        /\ u.pending = Front(t.pending) \o succ
    <3> DEFINE ordinals == t.ordinals \cup lookup(x, ClOrdID, cid) \cup referers
               pending == Front(t.pending) \o succ
    <3>1. seen \in SUBSET Values /\ ordinals \in SUBSET OrdinalsOf(x) /\ pending \in Seq(Values)
      BY <1>1, <2>2, <2>5 DEF TimelineType
    <3>2. u = [t EXCEPT !.seen = seen, !.ordinals = ordinals, !.pending = pending]
      BY <2>1
    <3> HIDE DEF seen, ordinals, pending
    <3>3. /\ u \in TimelineType(x) /\ u.pc = t.pc /\ u.clordid = t.clordid /\ u.seen = seen
          /\ u.ordinals = ordinals /\ u.pending = pending
      BY <3>1, <3>2 DEF TimelineType
    <3> QED  BY <3>3 DEF ordinals, pending
  <2>7. Touched(u) = Touched(t) \cup ToSet(succ)
    BY <1>1, <2>5, <2>6 DEF Touched
  <2>8. ToSet(succ) \subseteq Named(x)
    BY <2>2, <2>3 DEF Named
  <2>9. ASSUME NEW ids \in Candidates(x, t.clordid), Closed(x, ids)
        PROVE  Touched(u) \subseteq ids
    <3>1. Touched(t) \subseteq ids
      BY <2>9 DEF Chained
    <3>2. cid \in ids
      BY <1>1, <3>1 DEF Touched
    <3>3. \A o \in referers : find_tag(message(x, o), ClOrdID) \in ids \cup {None}
      BY <2>2, <2>9, <3>2 DEF Closed
    <3>4. ToSet(succ) \subseteq ids
      BY <2>3, <3>3
    <3> QED  BY <2>7, <3>1, <3>4
  <2>10. ASSUME NEW o \in OrdinalsOf(x), NEW y \in u.seen, Mentions(message(x, o), OrigClOrdID, y)
         PROVE  find_tag(message(x, o), ClOrdID) \in Touched(u) \cup {None}
    <3>1. CASE y \in t.seen
      BY <2>7, <2>10, <3>1 DEF Chained
    <3>2. CASE y = cid
      <4>1. o \in referers
        BY <2>2, <2>10, <3>2
      <4>2. find_tag(message(x, o), ClOrdID) \in ToSet(succ) \cup seen \cup {None}
        BY <2>3, <4>1
      <4>3. seen \subseteq Touched(u)
        BY <2>6 DEF Touched
      <4> QED  BY <2>7, <4>2, <4>3
    <3> QED  BY <2>6, <2>10, <3>1, <3>2
  <2>11. u.ordinals = Direct(x, u.seen)
    BY <2>2, <2>6 DEF Chained, Direct
  <2> QED  BY <2>6, <2>7, <2>8, <2>9, <2>10, <2>11 DEF Chained
<1> QED  BY <1>2, <1>3

LEMMA FamilyIs ==
  ASSUME NEW x \in Seq(Message), NEW t \in TimelineType(x), Chained(t, x), t.pending = << >>
  PROVE  Family(x, t.clordid) = t.seen
<1> DEFINE id == t.clordid
           C == Candidates(x, id)
           L == {ids \in C : /\ Closed(x, ids)
                             /\ \A less \in C : Closed(x, less) => ids \subseteq less}
<1>1. Touched(t) = t.seen
  BY DEF Touched, ToSet
<1>2. t.seen \in C
  <2>1. t.seen = {id} \cup (t.seen \cap Named(x))
    BY <1>1 DEF Chained
  <2> QED  BY <2>1 DEF Candidates
<1>3. Closed(x, t.seen)
  BY <1>1 DEF Chained, Closed
<1>4. L = {t.seen}
  <2>1. t.seen \in L
    BY <1>1, <1>2, <1>3 DEF Chained
  <2>2. \A ids \in L : ids = t.seen
    BY <1>1, <1>2, <1>3 DEF Chained
  <2> QED  BY <2>1, <2>2
<1>5. Family(x, id) = UNION L
  BY DEF Family, Candidates, Named
<1> QED  BY <1>4, <1>5

LEMMA Finishes ==
  ASSUME NEW x \in Seq(Message), NEW t \in TimelineType(x), Chained(t, x), t.pending = << >>,
         NEW u, u = finished(t, x)
  PROVE  /\ u \in TimelineType(x) /\ u.pc # "expand" /\ u.clordid = t.clordid
         /\ u.pc = "found" =>
              /\ ToSet(u.events) = Reported(x, u.clordid)
              /\ \A i, j \in DOMAIN u.events : i < j => u.events[i] < u.events[j]
         /\ u.pc = "not_found" => Reported(x, u.clordid) = {}
<1> DEFINE ids == OrderIdsOf(x, t.ordinals)
           all == t.ordinals \cup UNION {lookup(x, OrderID, y) : y \in ids}
<1>1. t.ordinals = Direct(x, Family(x, t.clordid))
  BY FamilyIs DEF Chained
<1>2. all = t.ordinals \cup {o \in OrdinalsOf(x) : \E y \in ids : Mentions(message(x, o), OrderID, y)}
  <2>1. \A y : lookup(x, OrderID, y) = {o \in OrdinalsOf(x) : Mentions(message(x, o), OrderID, y)}
    BY LookupIs
  <2> HIDE DEF ids
  <2> QED  BY <2>1
<1>3. Reported(x, t.clordid) = all
  BY <1>1, <1>2 DEF Reported, Direct
<1>4. t.ordinals \subseteq OrdinalsOf(x)
  BY DEF TimelineType
<1>5. all \subseteq OrdinalsOf(x) /\ IsFiniteSet(all) /\ all \subseteq Nat
  <2>1. all \subseteq OrdinalsOf(x)
    BY <1>2, <1>4
  <2> HIDE DEF all
  <2> QED  BY <2>1, OrdinalsAre, FS_Subset
<1>6. ids \subseteq Values
  <2>1. \A o \in t.ordinals : find_tag(message(x, o), OrderID) \in Nat \cup {None}
    BY <1>4, OrdinalsAre, FindTagIs
  <2> QED  BY <2>1 DEF OrderIdsOf, Values
<1>7. CASE t.ordinals = {}
  <2>1. u = [t EXCEPT !.pc = "not_found"]
    BY <1>7 DEF finished
  <2>2. ids = {}
    BY <1>7 DEF OrderIdsOf
  <2>3. all = {}
    BY <1>7, <2>2
  <2>4. u \in TimelineType(x) /\ u.pc = "not_found" /\ u.clordid = t.clordid
    BY <2>1 DEF TimelineType
  <2> QED  BY <1>3, <2>3, <2>4
<1>8. CASE t.ordinals # {}
  <2>1. u = [t EXCEPT !.pc = "found", !.order_ids = ids, !.ordinals = all,
                      !.events = Ascending(all)]
    BY <1>8 DEF finished
  <2> HIDE DEF all, ids
  <2>2. /\ Ascending(all) \in Seq(all) /\ ToSet(Ascending(all)) = all
        /\ \A i, j \in 1 .. Len(Ascending(all)) : i < j => Ascending(all)[i] < Ascending(all)[j]
    BY <1>5, AscendingIs
  <2>3. Ascending(all) \in Seq(OrdinalsOf(x)) /\ DOMAIN Ascending(all) = 1 .. Len(Ascending(all))
    <3>1. Len(Ascending(all)) \in Nat /\ Ascending(all) \in [1 .. Len(Ascending(all)) -> all]
      BY <2>2
    <3>2. Ascending(all) \in [1 .. Len(Ascending(all)) -> OrdinalsOf(x)]
      BY <1>5, <3>1
    <3> QED  BY <3>1, <3>2
  <2>4. /\ u \in TimelineType(x) /\ u.pc = "found" /\ u.clordid = t.clordid
        /\ u.events = Ascending(all)
    BY <1>5, <1>6, <2>1, <2>3 DEF TimelineType
  <2> QED  BY <1>3, <2>2, <2>3, <2>4
<1> QED  BY <1>7, <1>8

-----------------------------------------------------------------------------
(* The session map: append_internal goes from ordinal to ordinal.          *)
IsRun(f, map, x, from, to) ==
  f = [n \in from .. to |-> IF n = from THEN map ELSE add(f[n - 1], x, n - 1)]

LEMMA RunExists ==
  ASSUME NEW map, NEW x, NEW from \in Nat, NEW to \in Nat, from <= to
  PROVE  \E f : IsRun(f, map, x, from, to)
<1> DEFINE B == {n \in from .. to : ~ \E f : IsRun(f, map, x, from, n)}
<1>1. ASSUME B # {} PROVE FALSE
  <2>1. PICK n \in B : \A m \in B : n <= m
    <3>1. B \subseteq Nat
      OBVIOUS
    <3> HIDE DEF B
    <3> QED  BY <1>1, <3>1, NatMinimum
  <2>2. CASE n = from
    <3> DEFINE f == [m \in from .. from |-> map]
    <3>1. f = [m \in from .. from |-> IF m = from THEN map ELSE add(f[m - 1], x, m - 1)]
      OBVIOUS
    <3>2. IsRun(f, map, x, from, from)
      <4> HIDE DEF f
      <4> QED  BY <3>1 DEF IsRun
    <3> HIDE DEF f
    <3> QED  BY <2>1, <2>2, <3>2
  <2>3. CASE n # from
    <3>1. n - 1 \in from .. to /\ n - 1 \notin B
      BY <2>1, <2>3
    <3>2. PICK f : IsRun(f, map, x, from, n - 1)
      BY <3>1
    <3> DEFINE g == [m \in from .. n |-> IF m = n THEN add(f[n - 1], x, n - 1) ELSE f[m]]
               h == [m \in from .. n |-> IF m = from THEN map ELSE add(g[m - 1], x, m - 1)]
    <3>3. ASSUME NEW m \in from .. n PROVE g[m] = h[m]
      <4>1. CASE m = n
        <5>1. n - 1 \in from .. n /\ n - 1 # n
          BY <3>1
        <5>2. g[n - 1] = f[n - 1]
          BY <5>1
        <5>3. g[n] = add(f[n - 1], x, n - 1) /\ n \in from .. n
          BY <3>1
        <5>4. h[n] = add(g[n - 1], x, n - 1)
          <6> HIDE DEF g
          <6> QED  BY <2>3, <5>3
        <5> HIDE DEF g, h
        <5> QED  BY <4>1, <5>2, <5>3, <5>4
      <4>2. CASE m # n
        <5>1. m \in from .. n - 1
          BY <3>1, <4>2
        <5>2. g[m] = f[m]
          BY <4>2
        <5>3. f[m] = IF m = from THEN map ELSE add(f[m - 1], x, m - 1)
          <6> DEFINE k == [j \in from .. n - 1 |-> IF j = from THEN map ELSE add(f[j - 1], x, j - 1)]
          <6>1. f = k
            BY <3>2 DEF IsRun
          <6>2. k[m] = IF m = from THEN map ELSE add(f[m - 1], x, m - 1)
            BY <5>1
          <6> HIDE DEF k
          <6> QED  BY <6>1, <6>2
        <5>4. m # from => m - 1 \in from .. n /\ m - 1 # n
          BY <5>1
        <5>5. m # from => g[m - 1] = f[m - 1]
          BY <5>4
        <5>6. h[m] = IF m = from THEN map ELSE add(g[m - 1], x, m - 1)
          <6> HIDE DEF g
          <6> QED  OBVIOUS
        <5> HIDE DEF g, h
        <5> QED  BY <5>2, <5>3, <5>5, <5>6
      <4> QED  BY <4>1, <4>2
    <3>4. g = h
      <4>1. g = [m \in from .. n |-> g[m]] /\ h = [m \in from .. n |-> h[m]]
        OBVIOUS
      <4> HIDE DEF g, h
      <4> QED  BY <3>3, <4>1
    <3>5. IsRun(g, map, x, from, n)
      <4> HIDE DEF g
      <4> QED  BY <3>4 DEF IsRun
    <3> HIDE DEF g
    <3> QED  BY <2>1, <3>5
  <2> QED  BY <2>2, <2>3
<1>2. to \notin B
  BY <1>1
<1> QED  BY <1>2

Goes(f, x, from, to) == \A n \in from + 1 .. to : f[n] = add(f[n - 1], x, n - 1)

LEMMA RunValue ==
  ASSUME NEW f, NEW map, NEW x, NEW from \in Nat, NEW to \in Nat, from <= to,
         IsRun(f, map, x, from, to)
  PROVE  f[from] = map /\ Goes(f, x, from, to)
<1> DEFINE k == [n \in from .. to |-> IF n = from THEN map ELSE add(f[n - 1], x, n - 1)]
<1>1. f = k
  BY DEF IsRun
<1>2. k[from] = map /\ \A n \in from + 1 .. to : k[n] = add(f[n - 1], x, n - 1)
  OBVIOUS
<1> HIDE DEF k
<1> QED  BY <1>1, <1>2 DEF Goes

LEMMA AppendIsRun ==
  ASSUME NEW map, NEW x, Len(x) \in Nat, NEW from \in 0 .. Len(x)
  PROVE  \E f : IsRun(f, map, x, from, Len(x)) /\ append_internal(map, x, from) = f[Len(x)]
<1>1. append_internal(map, x, from) = (CHOOSE f : IsRun(f, map, x, from, Len(x)))[Len(x)]
  BY DEF append_internal, IsRun
<1>2. \E f : IsRun(f, map, x, from, Len(x))
  <2>1. from \in Nat /\ from <= Len(x)
    OBVIOUS
  <2> QED  BY <2>1, RunExists
<1> QED  BY <1>1, <1>2

(* What a map has of the first n messages.                                 *)
Key == {key \in [sender : Nat, target : Nat] : key.sender <= key.target}

Maybe == Nat \cup {None}

Gap == [from_seq : Nat, to_seq : Nat, ordinal_before : Nat, ordinal_after : Nat]

Stats ==
  [in_count : Int, out_count : Int, seq_min : Maybe, seq_max : Maybe, gaps : Seq(Gap),
   ordinals : Seq(Nat)]

Sent(x, o) == find_tag(message(x, o), SenderCompID)

To(x, o) == find_tag(message(x, o), TargetCompID)

Of(x, key, n) ==
  {o \in 0 .. n - 1 : /\ Sent(x, o) # None /\ To(x, o) # None
                      /\ canonical(Sent(x, o), To(x, o)) = key}

MapFits(m, x, n) ==
  /\ m = [by_key |-> m.by_key, by_ordinal |-> m.by_ordinal]
  /\ m.by_ordinal \in Seq(Key \cup {None}) /\ Len(m.by_ordinal) = n
  /\ DOMAIN m.by_key \subseteq Key /\ m.by_key \in [DOMAIN m.by_key -> Stats]
  /\ \A key \in DOMAIN m.by_key : ToSet(m.by_key[key].ordinals) = Of(x, key, n)
  /\ \A key \in Key \ DOMAIN m.by_key : Of(x, key, n) = {}

SameStats(a, b) ==
  /\ a.in_count = b.in_count /\ a.out_count = b.out_count
  /\ a.seq_min = b.seq_min /\ a.seq_max = b.seq_max /\ a.ordinals = b.ordinals

Same(m, w) ==
  /\ m.by_ordinal = w.by_ordinal /\ DOMAIN m.by_key = DOMAIN w.by_key
  /\ \A key \in DOMAIN m.by_key : SameStats(m.by_key[key], w.by_key[key])

LEMMA SeqIs ==
  ASSUME NEW msg \in Message
  PROVE  seq(msg) \in (0 .. MaxSeq) \cup {None}
BY DEF seq, parse_u32_ascii

LEMMA CountedIs ==
  ASSUME NEW s \in Stats, NEW msg \in Message, NEW key, NEW o \in Nat,
         NEW c, c = counted(s, key, msg, o)
  PROVE  /\ c \in Stats /\ c.gaps = s.gaps /\ c.ordinals = Append(s.ordinals, o)
         /\ \A r \in Stats : SameStats(r, s) => SameStats(counted(r, key, msg, o), c)
<1> DEFINE n == seq(msg)
           b == IF is_in(key, find_tag(msg, SenderCompID)) THEN 1 ELSE 0
           low(y) == IF n = None THEN y ELSE IF y = None THEN n ELSE Min({y, n})
           high(y) == IF n = None THEN y ELSE IF y = None THEN n ELSE Max({y, n})
<1>1. n \in Maybe
  BY SeqIs, MaxSeqAssumption DEF Maybe
<1>2. b \in Int
  OBVIOUS
<1>3. ASSUME NEW y \in Maybe PROVE low(y) \in Maybe /\ high(y) \in Maybe
  <2>1. CASE n = None
    BY <1>3, <2>1
  <2>2. CASE y = None
    BY <1>1, <2>2
  <2>3. CASE n # None /\ y # None
    <3>1. n \in Int /\ y \in Int
      BY <1>1, <1>3, <2>3 DEF Maybe
    <3>2. Min({y, n}) = (IF y <= n THEN y ELSE n) /\ Max({y, n}) = (IF y <= n THEN n ELSE y)
      <4> HIDE DEF n
      <4> QED  BY <3>1, OfTwo
    <3> HIDE DEF n
    <3> QED  BY <1>1, <1>3, <3>2
  <2> QED  BY <2>1, <2>2, <2>3
<1>4. ASSUME NEW r \in Stats
      PROVE  /\ counted(r, key, msg, o) \in Stats
             /\ counted(r, key, msg, o).in_count = r.in_count + b
             /\ counted(r, key, msg, o).out_count = r.out_count + 1 - b
             /\ counted(r, key, msg, o).seq_min = low(r.seq_min)
             /\ counted(r, key, msg, o).seq_max = high(r.seq_max)
             /\ counted(r, key, msg, o).gaps = r.gaps
             /\ counted(r, key, msg, o).ordinals = Append(r.ordinals, o)
  <2> DEFINE d == counted(r, key, msg, o)
             ins == r.in_count + b
             outs == r.out_count + 1 - b
             lo == low(r.seq_min)
             hi == high(r.seq_max)
             os == Append(r.ordinals, o)
  <2>1. d = [r EXCEPT !.in_count = ins, !.out_count = outs, !.seq_min = lo, !.seq_max = hi,
                      !.ordinals = os]
    BY DEF counted
  <2>2. /\ r.seq_min \in Maybe /\ r.seq_max \in Maybe /\ r.in_count \in Int
        /\ r.out_count \in Int /\ r.ordinals \in Seq(Nat)
    BY DEF Stats
  <2>3. ins \in Int /\ outs \in Int
    <3> HIDE DEF b
    <3> QED  BY <1>2, <2>2
  <2>4. os \in Seq(Nat)
    BY <2>2
  <2>5. lo \in Maybe /\ hi \in Maybe
    <3> HIDE DEF low, high
    <3> QED  BY <1>3, <2>2
  <2> HIDE DEF d, ins, outs, lo, hi, os
  <2>6. /\ d \in Stats /\ d.in_count = ins /\ d.out_count = outs /\ d.seq_min = lo
        /\ d.seq_max = hi /\ d.gaps = r.gaps /\ d.ordinals = os
    BY <2>1, <2>3, <2>4, <2>5 DEF Stats
  <2> QED  BY <2>6 DEF d, ins, outs, lo, hi, os
<1> HIDE DEF low, high, b
<1>5. c \in Stats /\ c.gaps = s.gaps /\ c.ordinals = Append(s.ordinals, o)
  BY <1>4
<1>6. ASSUME NEW r \in Stats, SameStats(r, s)
      PROVE  SameStats(counted(r, key, msg, o), c)
  <2> DEFINE d == counted(r, key, msg, o)
  <2>1. /\ d.in_count = r.in_count + b /\ d.out_count = r.out_count + 1 - b
        /\ d.seq_min = low(r.seq_min) /\ d.seq_max = high(r.seq_max)
        /\ d.ordinals = Append(r.ordinals, o)
    BY <1>4
  <2>2. /\ c.in_count = s.in_count + b /\ c.out_count = s.out_count + 1 - b
        /\ c.seq_min = low(s.seq_min) /\ c.seq_max = high(s.seq_max)
        /\ c.ordinals = Append(s.ordinals, o)
    BY <1>4
  <2>3. /\ r.in_count = s.in_count /\ r.out_count = s.out_count /\ r.seq_min = s.seq_min
        /\ r.seq_max = s.seq_max /\ r.ordinals = s.ordinals
    BY <1>6 DEF SameStats
  <2>4. low(r.seq_min) = low(s.seq_min) /\ high(r.seq_max) = high(s.seq_max)
    BY <2>3
  <2> HIDE DEF d
  <2>5. SameStats(d, c)
    BY <2>1, <2>2, <2>3, <2>4 DEF SameStats
  <2> QED  BY <2>5 DEF d
<1> QED  BY <1>5, <1>6

(* What add does with a message that has both CompIDs and with one that    *)
(* has not.                                                                *)
KeyOf(x, o) == canonical(Sent(x, o), To(x, o))

Held(m, key) == IF key \in DOMAIN m.by_key THEN m.by_key[key] ELSE EmptyStats

With(m, key, c) == [k \in DOMAIN m.by_key \cup {key} |-> IF k = key THEN c ELSE m.by_key[k]]

LEMMA AddSkips ==
  ASSUME NEW x, NEW n, NEW m, m = [by_key |-> m.by_key, by_ordinal |-> m.by_ordinal],
         Sent(x, n) = None \/ To(x, n) = None
  PROVE  add(m, x, n) = [by_key |-> m.by_key, by_ordinal |-> Append(m.by_ordinal, None)]
<1>1. add(m, x, n) = [m EXCEPT !.by_ordinal = Append(@, None)]
  BY DEF add, Sent, To
<1> QED  BY <1>1

LEMMA AddCounts ==
  ASSUME NEW x, NEW n, NEW m, Sent(x, n) # None, To(x, n) # None
  PROVE  add(m, x, n) =
           [by_key |-> With(m, KeyOf(x, n), counted(Held(m, KeyOf(x, n)), KeyOf(x, n),
                                                    message(x, n), n)),
            by_ordinal |-> Append(m.by_ordinal, KeyOf(x, n))]
BY DEF add, Sent, To, With, Held, KeyOf

LEMMA HeldIs ==
  ASSUME NEW x \in Seq(Message), NEW n \in Nat, NEW m, MapFits(m, x, n), NEW key \in Key
  PROVE  Held(m, key) \in Stats /\ ToSet(Held(m, key).ordinals) = Of(x, key, n)
<1>1. CASE key \in DOMAIN m.by_key
  BY <1>1 DEF MapFits, Held
<1>2. CASE key \notin DOMAIN m.by_key
  <2>1. << >> \in Seq(Gap) /\ << >> \in Seq(Nat)
    OBVIOUS
  <2>2. EmptyStats \in Stats /\ EmptyStats.ordinals = << >>
    BY <2>1 DEF EmptyStats, Stats, Maybe
  <2>3. ToSet(<< >>) = {}
    BY DEF ToSet
  <2>4. Held(m, key) = EmptyStats
    BY <1>2 DEF Held
  <2> QED  BY <1>2, <2>2, <2>3, <2>4 DEF MapFits
<1> QED  BY <1>1, <1>2

LEMMA KeyIs ==
  ASSUME NEW x \in Seq(Message), NEW n \in OrdinalsOf(x), Sent(x, n) # None, To(x, n) # None
  PROVE  KeyOf(x, n) \in Key
<1>1. Sent(x, n) \in Maybe /\ To(x, n) \in Maybe
  BY OrdinalsAre, FindTagIs DEF Sent, To, Maybe
<1> QED  BY <1>1 DEF canonical, Key, KeyOf, Maybe

LEMMA WithIs ==
  ASSUME NEW m, m.by_key \in [DOMAIN m.by_key -> Stats], NEW key, NEW c \in Stats
  PROVE  /\ DOMAIN With(m, key, c) = DOMAIN m.by_key \cup {key} /\ With(m, key, c)[key] = c
         /\ \A k \in DOMAIN m.by_key : k # key => With(m, key, c)[k] = m.by_key[k]
         /\ With(m, key, c) \in [DOMAIN With(m, key, c) -> Stats]
BY DEF With

LEMMA MoreOf ==
  ASSUME NEW x \in Seq(Message), NEW n \in Nat
  PROVE  /\ Sent(x, n) # None /\ To(x, n) # None =>
              /\ Of(x, KeyOf(x, n), n + 1) = Of(x, KeyOf(x, n), n) \cup {n}
              /\ \A k : k # KeyOf(x, n) => Of(x, k, n + 1) = Of(x, k, n)
         /\ Sent(x, n) = None \/ To(x, n) = None => \A k : Of(x, k, n + 1) = Of(x, k, n)
<1>1. 0 .. n + 1 - 1 = (0 .. n - 1) \cup {n}
  OBVIOUS
<1> QED  BY <1>1 DEF Of, KeyOf

LEMMA OneMore ==
  ASSUME NEW T, NEW s \in Seq(T), NEW e \in T
  PROVE  ToSet(Append(s, e)) = ToSet(s) \cup {e}
<1>1. /\ DOMAIN Append(s, e) = 1 .. Len(s) + 1 /\ DOMAIN s = 1 .. Len(s) /\ Len(s) \in Nat
      /\ \A i \in 1 .. Len(s) : Append(s, e)[i] = s[i]
      /\ Append(s, e)[Len(s) + 1] = e
  OBVIOUS
<1>2. 1 .. Len(s) + 1 = (1 .. Len(s)) \cup {Len(s) + 1}
  BY <1>1
<1> QED  BY <1>1, <1>2 DEF ToSet

LEMMA AddFits ==
  ASSUME NEW x \in Seq(Message), NEW n \in OrdinalsOf(x), NEW m, MapFits(m, x, n)
  PROVE  MapFits(add(m, x, n), x, n + 1)
<1> DEFINE key == KeyOf(x, n)
           c == counted(Held(m, key), key, message(x, n), n)
           by == With(m, key, c)
           w == add(m, x, n)
<1>1. n \in Nat /\ message(x, n) \in Message
  BY OrdinalsAre
<1>2. /\ m = [by_key |-> m.by_key, by_ordinal |-> m.by_ordinal]
      /\ m.by_ordinal \in Seq(Key \cup {None}) /\ Len(m.by_ordinal) = n
      /\ DOMAIN m.by_key \subseteq Key /\ m.by_key \in [DOMAIN m.by_key -> Stats]
  BY DEF MapFits
<1>3. CASE Sent(x, n) = None \/ To(x, n) = None
  <2>1. w = [by_key |-> m.by_key, by_ordinal |-> Append(m.by_ordinal, None)]
    BY <1>2, <1>3, AddSkips
  <2>2. \A k : Of(x, k, n + 1) = Of(x, k, n)
    BY <1>1, <1>3, MoreOf
  <2>3. w.by_key = m.by_key /\ w.by_ordinal = Append(m.by_ordinal, None)
    BY <2>1
  <2>4. /\ Append(m.by_ordinal, None) \in Seq(Key \cup {None})
        /\ Len(Append(m.by_ordinal, None)) = n + 1
    BY <1>2
  <2> HIDE DEF w
  <2>5. MapFits(w, x, n + 1)
    BY <2>1, <2>2, <2>3, <2>4 DEF MapFits
  <2> QED  BY <2>5 DEF w
<1>4. CASE Sent(x, n) # None /\ To(x, n) # None
  <2>1. key \in Key
    BY <1>4, KeyIs
  <2>2. w = [by_key |-> by, by_ordinal |-> Append(m.by_ordinal, key)]
    BY <1>4, AddCounts
  <2> HIDE DEF key
  <2>3. Held(m, key) \in Stats /\ ToSet(Held(m, key).ordinals) = Of(x, key, n)
    BY <1>1, <2>1, HeldIs
  <2>4. c \in Stats /\ c.ordinals = Append(Held(m, key).ordinals, n)
    BY <1>1, <2>3, CountedIs
  <2>5. ToSet(c.ordinals) = Of(x, key, n) \cup {n}
    <3>1. Held(m, key).ordinals \in Seq(Nat)
      BY <2>3 DEF Stats
    <3>2. ToSet(Append(Held(m, key).ordinals, n)) = ToSet(Held(m, key).ordinals) \cup {n}
      BY <1>1, <3>1, OneMore
    <3> HIDE DEF c
    <3> QED  BY <2>3, <2>4, <3>2
  <2> HIDE DEF c
  <2>6. /\ Of(x, key, n + 1) = Of(x, key, n) \cup {n}
        /\ \A k : k # key => Of(x, k, n + 1) = Of(x, k, n)
    BY <1>1, <1>4, MoreOf DEF key
  <2>7. /\ DOMAIN by = DOMAIN m.by_key \cup {key} /\ by[key] = c
        /\ \A k \in DOMAIN m.by_key : k # key => by[k] = m.by_key[k]
        /\ by \in [DOMAIN by -> Stats]
    BY <1>2, <2>4, WithIs
  <2> HIDE DEF by
  <2>8. w.by_key = by /\ w.by_ordinal = Append(m.by_ordinal, key)
    BY <2>2
  <2>9. /\ Append(m.by_ordinal, key) \in Seq(Key \cup {None})
        /\ Len(Append(m.by_ordinal, key)) = n + 1
    BY <1>2, <2>1
  <2>10. \A k \in DOMAIN by : ToSet(by[k].ordinals) = Of(x, k, n + 1)
    BY <2>5, <2>6, <2>7 DEF MapFits
  <2>11. \A k \in Key \ DOMAIN by : Of(x, k, n + 1) = {}
    BY <2>6, <2>7 DEF MapFits
  <2>12. DOMAIN by \subseteq Key
    BY <1>2, <2>1, <2>7
  <2> HIDE DEF w
  <2>13. MapFits(w, x, n + 1)
    BY <2>2, <2>7, <2>8, <2>9, <2>10, <2>11, <2>12 DEF MapFits
  <2> QED  BY <2>13 DEF w
<1> QED  BY <1>3, <1>4

(* The gaps that are kept do not change what is counted.                   *)
LEMMA AddSame ==
  ASSUME NEW x \in Seq(Message), NEW n \in OrdinalsOf(x), NEW m, NEW w,
         MapFits(m, x, n), MapFits(w, x, n), Same(m, w)
  PROVE  Same(add(m, x, n), add(w, x, n))
<1> DEFINE key == KeyOf(x, n)
           c == counted(Held(m, key), key, message(x, n), n)
           d == counted(Held(w, key), key, message(x, n), n)
           am == add(m, x, n)
           aw == add(w, x, n)
<1>1. n \in Nat /\ message(x, n) \in Message
  BY OrdinalsAre
<1>2. /\ m = [by_key |-> m.by_key, by_ordinal |-> m.by_ordinal]
      /\ w = [by_key |-> w.by_key, by_ordinal |-> w.by_ordinal]
      /\ m.by_key \in [DOMAIN m.by_key -> Stats] /\ w.by_key \in [DOMAIN w.by_key -> Stats]
  BY DEF MapFits
<1>3. CASE Sent(x, n) = None \/ To(x, n) = None
  <2>1. /\ am = [by_key |-> m.by_key, by_ordinal |-> Append(m.by_ordinal, None)]
        /\ aw = [by_key |-> w.by_key, by_ordinal |-> Append(w.by_ordinal, None)]
    BY <1>2, <1>3, AddSkips
  <2>2. /\ am.by_key = m.by_key /\ am.by_ordinal = Append(m.by_ordinal, None)
        /\ aw.by_key = w.by_key /\ aw.by_ordinal = Append(w.by_ordinal, None)
    BY <2>1
  <2> HIDE DEF am, aw
  <2>3. Same(am, aw)
    BY <2>2 DEF Same
  <2> QED  BY <2>3 DEF am, aw
<1>4. CASE Sent(x, n) # None /\ To(x, n) # None
  <2>1. key \in Key
    BY <1>4, KeyIs
  <2>2. /\ am = [by_key |-> With(m, key, c), by_ordinal |-> Append(m.by_ordinal, key)]
        /\ aw = [by_key |-> With(w, key, d), by_ordinal |-> Append(w.by_ordinal, key)]
    BY <1>4, AddCounts
  <2> HIDE DEF key
  <2>3. Held(m, key) \in Stats /\ Held(w, key) \in Stats
    BY <1>1, <2>1, HeldIs
  <2>4. SameStats(Held(m, key), Held(w, key))
    BY DEF Same, Held, SameStats
  <2>5. c \in Stats /\ d \in Stats
    BY <1>1, <2>3, CountedIs
  <2>6. SameStats(c, d)
    BY <1>1, <2>3, <2>4, CountedIs
  <2> HIDE DEF c, d
  <2>7. /\ DOMAIN With(m, key, c) = DOMAIN m.by_key \cup {key} /\ With(m, key, c)[key] = c
        /\ \A k \in DOMAIN m.by_key : k # key => With(m, key, c)[k] = m.by_key[k]
        /\ With(m, key, c) \in [DOMAIN With(m, key, c) -> Stats]
    <3>1. m.by_key \in [DOMAIN m.by_key -> Stats] /\ c \in Stats
      BY <1>2, <2>5
    <3> QED  BY <3>1, WithIs
  <2>8. /\ DOMAIN With(w, key, d) = DOMAIN w.by_key \cup {key} /\ With(w, key, d)[key] = d
        /\ \A k \in DOMAIN w.by_key : k # key => With(w, key, d)[k] = w.by_key[k]
        /\ With(w, key, d) \in [DOMAIN With(w, key, d) -> Stats]
    <3>1. w.by_key \in [DOMAIN w.by_key -> Stats] /\ d \in Stats
      BY <1>2, <2>5
    <3> QED  BY <3>1, WithIs
  <2>9. /\ am.by_key = With(m, key, c) /\ am.by_ordinal = Append(m.by_ordinal, key)
        /\ aw.by_key = With(w, key, d) /\ aw.by_ordinal = Append(w.by_ordinal, key)
    BY <2>2
  <2> HIDE DEF am, aw
  <2>10. \A k \in DOMAIN m.by_key \cup {key} : SameStats(With(m, key, c)[k], With(w, key, d)[k])
    BY <2>6, <2>7, <2>8 DEF Same
  <2>11. Same(am, aw)
    BY <2>7, <2>8, <2>9, <2>10 DEF Same
  <2> QED  BY <2>11 DEF am, aw
<1> QED  BY <1>3, <1>4


(* A run is determined by its first map and by the messages that it reads. *)
LEMMA RunFits ==
  ASSUME NEW x \in Seq(Message), NEW from \in Nat, NEW to \in Nat, from <= to, to <= Len(x),
         NEW map, MapFits(map, x, from), NEW f, IsRun(f, map, x, from, to)
  PROVE  \A n \in from .. to : MapFits(f[n], x, n)
<1>1. f[from] = map /\ Goes(f, x, from, to)
  BY RunValue
<1> DEFINE B == {n \in from .. to : ~ MapFits(f[n], x, n)}
<1>2. ASSUME B # {} PROVE FALSE
  <2>1. PICK n \in B : \A k \in B : n <= k
    <3>1. B \subseteq Nat
      OBVIOUS
    <3> HIDE DEF B
    <3> QED  BY <1>2, <3>1, NatMinimum
  <2>2. n # from
    BY <1>1, <2>1
  <2>3. n \in from + 1 .. to /\ n - 1 \in from .. to /\ n - 1 \notin B /\ n - 1 + 1 = n
    BY <2>1, <2>2
  <2>4. MapFits(f[n - 1], x, n - 1)
    BY <2>3
  <2>5. n - 1 \in OrdinalsOf(x)
    BY <2>3, OrdinalsAre
  <2>6. MapFits(add(f[n - 1], x, n - 1), x, n - 1 + 1)
    BY <2>4, <2>5, AddFits
  <2>7. f[n] = add(f[n - 1], x, n - 1)
    BY <1>1, <2>3 DEF Goes
  <2> QED  BY <2>1, <2>3, <2>6, <2>7
<1> QED  BY <1>2

LEMMA RunsSame ==
  ASSUME NEW x \in Seq(Message), NEW from \in Nat, NEW to \in Nat, from <= to, to <= Len(x),
         NEW f, \A n \in from .. to : MapFits(f[n], x, n),
         NEW g, \A n \in from .. to : MapFits(g[n], x, n),
         Goes(f, x, from, to), Goes(g, x, from, to),
         Same(f[from], g[from])
  PROVE  Same(f[to], g[to])
<1> DEFINE B == {n \in from .. to : ~ Same(f[n], g[n])}
<1>1. ASSUME B # {} PROVE FALSE
  <2>1. PICK n \in B : \A k \in B : n <= k
    <3>1. B \subseteq Nat
      OBVIOUS
    <3> HIDE DEF B
    <3> QED  BY <1>1, <3>1, NatMinimum
  <2>2. n # from
    BY <2>1
  <2>3. n \in from + 1 .. to /\ n - 1 \in from .. to /\ n - 1 \notin B
    BY <2>1, <2>2
  <2>4. Same(f[n - 1], g[n - 1]) /\ MapFits(f[n - 1], x, n - 1) /\ MapFits(g[n - 1], x, n - 1)
    BY <2>3
  <2>5. n - 1 \in OrdinalsOf(x)
    BY <2>3, OrdinalsAre
  <2>6. Same(add(f[n - 1], x, n - 1), add(g[n - 1], x, n - 1))
    BY <2>4, <2>5, AddSame
  <2>7. f[n] = add(f[n - 1], x, n - 1) /\ g[n] = add(g[n - 1], x, n - 1)
    BY <2>3 DEF Goes
  <2> QED  BY <2>1, <2>6, <2>7
<1>2. to \in from .. to
  OBVIOUS
<1> QED  BY <1>1, <1>2

LEMMA RunsEqual ==
  ASSUME NEW x, NEW y, NEW to \in Nat, \A o \in 0 .. to - 1 : message(x, o) = message(y, o),
         NEW f, NEW g, f[0] = g[0], Goes(f, x, 0, to), Goes(g, y, 0, to)
  PROVE  f[to] = g[to]
<1> DEFINE B == {n \in 0 .. to : f[n] # g[n]}
<1>1. ASSUME B # {} PROVE FALSE
  <2>1. PICK n \in B : \A k \in B : n <= k
    <3>1. B \subseteq Nat
      OBVIOUS
    <3> HIDE DEF B
    <3> QED  BY <1>1, <3>1, NatMinimum
  <2>2. n # 0
    BY <2>1
  <2>3. n \in 1 .. to /\ n - 1 \in 0 .. to - 1 /\ n - 1 \in 0 .. to /\ n - 1 \notin B
    BY <2>1, <2>2
  <2>4. f[n - 1] = g[n - 1]
    BY <2>3
  <2>5. message(x, n - 1) = message(y, n - 1)
    BY <2>3
  <2>6. add(f[n - 1], x, n - 1) = add(g[n - 1], y, n - 1)
    BY <2>4, <2>5 DEF add
  <2>7. f[n] = add(f[n - 1], x, n - 1) /\ g[n] = add(g[n - 1], y, n - 1)
    BY <2>3 DEF Goes
  <2> QED  BY <2>1, <2>6, <2>7
<1>2. to \in 0 .. to
  OBVIOUS
<1> QED  BY <1>1, <1>2

-----------------------------------------------------------------------------
(* The gaps of a direction: one between each two neighbours whose numbers  *)
(* are not neighbours.                                                     *)
LEMMA SortedIs ==
  ASSUME NEW pairs, pairs \subseteq Nat \X Nat, IsFiniteSet(pairs), NEW p, p = sorted(pairs)
  PROVE  /\ p \in Seq(pairs) /\ ToSet(p) = pairs /\ IsInjective(p)
         /\ DOMAIN p = 1 .. Len(p) /\ Len(p) \in Nat
         /\ \A i, j \in 1 .. Len(p) : i < j => NumberLess(p[i], p[j])
<1> DEFINE less == {e \in pairs \X pairs : NumberLess(e[1], e[2])}
<1>1. \A a, b \in pairs : <<a, b>> \in less <=> NumberLess(a, b)
  OBVIOUS
<1>2. \A a \in pairs : a = <<a[1], a[2]>> /\ a[1] \in Nat /\ a[2] \in Nat
  OBVIOUS
<1>3. p = Ranked(pairs, less)
  BY DEF sorted
<1> HIDE DEF less
<1>4. Totally(less, pairs)
  <2>1. \A a \in pairs : <<a, a>> \notin less
    BY <1>1, <1>2 DEF NumberLess
  <2>2. ASSUME NEW a \in pairs, NEW b \in pairs, NEW c \in pairs,
               <<a, b>> \in less, <<b, c>> \in less
        PROVE  <<a, c>> \in less
    BY <1>1, <1>2, <2>2 DEF NumberLess
  <2>3. ASSUME NEW a \in pairs, NEW b \in pairs, a # b
        PROVE  <<a, b>> \in less \/ <<b, a>> \in less
    <3>1. a[1] # b[1] \/ a[2] # b[2]
      BY <1>2, <2>3
    <3> QED  BY <1>1, <1>2, <3>1 DEF NumberLess
  <2> QED  BY <2>1, <2>2, <2>3 DEF Totally
<1>5. /\ p \in Seq(pairs) /\ ToSet(p) = pairs /\ IsInjective(p)
      /\ DOMAIN p = 1 .. Len(p) /\ Len(p) \in Nat
      /\ \A i, j \in 1 .. Len(p) : i < j => <<p[i], p[j]>> \in less
  BY <1>3, <1>4, RankedIsSorted
<1>6. \A i \in 1 .. Len(p) : p[i] \in pairs
  BY <1>5
<1> QED  BY <1>1, <1>5, <1>6

GapAt(p, i) ==
  [from_seq |-> p[i][1], to_seq |-> p[i + 1][1],
   ordinal_before |-> p[i][2], ordinal_after |-> p[i + 1][2]]

GapPlaces(p) == {i \in 1 .. Len(p) - 1 : p[i + 1][1] > seq_after(p[i][1])}

GapsAt(g, p) ==
  /\ ToSet(g) = {GapAt(p, i) : i \in GapPlaces(p)}
  /\ \A k \in 1 .. Len(g) : \E i \in GapPlaces(p) : g[k] = GapAt(p, i)
  /\ \A k, m \in 1 .. Len(g) : k # m =>
       \E i, j \in GapPlaces(p) : i # j /\ g[k] = GapAt(p, i) /\ g[m] = GapAt(p, j)

LEMMA DetectIs ==
  ASSUME NEW pairs, pairs \subseteq Nat \X Nat, IsFiniteSet(pairs),
         NEW p, p = sorted(pairs), NEW g, g = detect_gaps(pairs)
  PROVE  g \in Seq(Gap) /\ GapsAt(g, p)
<1> DEFINE all == [i \in 1 .. Len(p) - 1 |-> GapAt(p, i)]
<1>1. p \in Seq(pairs) /\ Len(p) \in Nat /\ \A i \in 1 .. Len(p) : p[i] \in Nat \X Nat
  <2>1. p \in Seq(pairs)
    BY SortedIs
  <2> QED  BY <2>1
<1>2. g = Chosen(all, GapPlaces(p))
  BY DEF detect_gaps, GapAt, GapPlaces
<1>3. \A i \in 1 .. Len(p) - 1 : GapAt(p, i) \in Gap
  <2> SUFFICES ASSUME NEW i \in 1 .. Len(p) - 1 PROVE GapAt(p, i) \in Gap
    OBVIOUS
  <2>1. i \in 1 .. Len(p) /\ i + 1 \in 1 .. Len(p)
    BY <1>1
  <2>2. p[i][1] \in Nat /\ p[i][2] \in Nat /\ p[i + 1][1] \in Nat /\ p[i + 1][2] \in Nat
    BY <1>1, <2>1
  <2> QED  BY <2>2 DEF GapAt, Gap
<1>4. /\ all \in Seq(Gap) /\ DOMAIN all = 1 .. Len(p) - 1
      /\ \A i \in 1 .. Len(p) - 1 : all[i] = GapAt(p, i)
  <2>1. CASE Len(p) = 0
    <3>1. 1 .. Len(p) - 1 = 1 .. 0
      BY <2>1
    <3> QED  BY <1>3, <3>1
  <2>2. CASE Len(p) # 0
    <3>1. Len(p) - 1 \in Nat
      BY <1>1, <2>2
    <3> QED  BY <1>3, <3>1
  <2> QED  BY <2>1, <2>2
<1>5. GapPlaces(p) \in SUBSET DOMAIN all
  BY <1>4 DEF GapPlaces
<1> HIDE DEF all
<1>6. /\ g \in Seq(Gap) /\ ToSet(g) = {all[i] : i \in GapPlaces(p)}
      /\ \A k \in 1 .. Len(g) : \E i \in GapPlaces(p) : g[k] = all[i]
      /\ PickedOnce(g, all, GapPlaces(p))
  <2>1. all \in Seq(Gap)
    BY <1>4
  <2> DEFINE P == GapPlaces(p)
  <2>2. P \in SUBSET DOMAIN all /\ g = Chosen(all, P)
    BY <1>2, <1>5
  <2> HIDE DEF P
  <2>3. /\ g \in Seq(Gap) /\ ToSet(g) = {all[i] : i \in P}
        /\ \A k \in 1 .. Len(g) : \E i \in P : g[k] = all[i]
        /\ PickedOnce(g, all, P)
    BY <2>1, <2>2, ChosenIs
  <2> QED  BY <2>3 DEF P
<1>7. \A i \in GapPlaces(p) : all[i] = GapAt(p, i)
  BY <1>4, <1>5
<1>8. \A k, m \in 1 .. Len(g) : k # m =>
        \E i, j \in GapPlaces(p) : i # j /\ g[k] = GapAt(p, i) /\ g[m] = GapAt(p, j)
  BY <1>6, <1>7 DEF PickedOnce
<1> QED  BY <1>6, <1>7, <1>8 DEF GapsAt


LEMMA DirectionIs ==
  ASSUME NEW x \in Seq(Message), NEW key, NEW s, ToSet(s.ordinals) \subseteq OrdinalsOf(x),
         NEW in
  PROVE  /\ Direction(x, key, s, in) \subseteq Nat \X Nat
         /\ IsFiniteSet(Direction(x, key, s, in))
<1> DEFINE D == {o \in ToSet(s.ordinals) : /\ seq(message(x, o)) # None
                                          /\ is_in(key, Sent(x, o)) = in}
<1>1. Direction(x, key, s, in) = {<<seq(message(x, o)), o>> : o \in D}
  BY DEF Direction, Sent
<1>2. D \subseteq OrdinalsOf(x)
  OBVIOUS
<1>3. D \subseteq Nat /\ IsFiniteSet(D) /\ \A o \in D : seq(message(x, o)) # None
  <2>1. \A o \in D : seq(message(x, o)) # None
    OBVIOUS
  <2> HIDE DEF D
  <2> QED  BY <1>2, <2>1, OrdinalsAre, FS_Subset
<1> HIDE DEF D
<1>4. \A o \in D : seq(message(x, o)) \in Nat
  BY <1>2, <1>3, OrdinalsAre, SeqIs, MaxSeqAssumption
<1>5. IsFiniteSet({<<seq(message(x, o)), o>> : o \in D})
  <2> DEFINE f == [o \in D |-> <<seq(message(x, o)), o>>]
             T == {<<seq(message(x, o)), o>> : o \in D}
  <2>1. f \in [D -> T] /\ \A t \in T : \E o \in D : f[o] = t
    OBVIOUS
  <2> HIDE DEF f, T
  <2>2. f \in Surjection(D, T)
    BY <2>1 DEF Surjection
  <2>3. IsFiniteSet(T)
    BY <1>3, <2>2, FS_Surjection
  <2> QED  BY <2>3 DEF T
<1> QED  BY <1>1, <1>3, <1>4, <1>5

GapsOf(x, key, s) ==
  detect_gaps(Direction(x, key, s, TRUE)) \o detect_gaps(Direction(x, key, s, FALSE))

LEMMA GapsOfIs ==
  ASSUME NEW x \in Seq(Message), NEW key, NEW s, ToSet(s.ordinals) \subseteq OrdinalsOf(x)
  PROVE  GapsOf(x, key, s) \in Seq(Gap)
<1>1. \A in \in BOOLEAN : /\ Direction(x, key, s, in) \subseteq Nat \X Nat
                          /\ IsFiniteSet(Direction(x, key, s, in))
  BY DirectionIs
<1>2. \A in \in BOOLEAN : detect_gaps(Direction(x, key, s, in)) \in Seq(Gap)
  BY <1>1, DetectIs
<1>3. /\ detect_gaps(Direction(x, key, s, TRUE)) \in Seq(Gap)
      /\ detect_gaps(Direction(x, key, s, FALSE)) \in Seq(Gap)
  BY <1>2
<1> QED  BY <1>3, BothTogether DEF GapsOf

(* The gaps are found anew, from what was counted and nothing else.        *)
LEMMA RecomputeIs ==
  ASSUME NEW x, NEW m, m = [by_key |-> m.by_key, by_ordinal |-> m.by_ordinal]
  PROVE  recompute_gaps(m, x) =
           [by_key |-> [key \in DOMAIN m.by_key |->
                          [m.by_key[key] EXCEPT !.gaps = GapsOf(x, key, m.by_key[key])]],
            by_ordinal |-> m.by_ordinal]
<1> DEFINE new == [key \in DOMAIN m.by_key |->
                     [m.by_key[key] EXCEPT !.gaps = GapsOf(x, key, m.by_key[key])]]
<1>1. recompute_gaps(m, x) = [m EXCEPT !.by_key = new]
  BY DEF recompute_gaps, GapsOf
<1> HIDE DEF new
<1>2. recompute_gaps(m, x) = [by_key |-> new, by_ordinal |-> m.by_ordinal]
  BY <1>1
<1> QED  BY <1>2 DEF new

LEMMA RecomputeFits ==
  ASSUME NEW x \in Seq(Message), NEW m, MapFits(m, x, Len(x)), NEW r, r = recompute_gaps(m, x)
  PROVE  /\ MapFits(r, x, Len(x)) /\ Same(r, m)
         /\ \A key \in DOMAIN m.by_key : r.by_key[key].gaps = GapsOf(x, key, m.by_key[key])
<1> DEFINE new == [key \in DOMAIN m.by_key |->
                     [m.by_key[key] EXCEPT !.gaps = GapsOf(x, key, m.by_key[key])]]
<1>1. r = [by_key |-> new, by_ordinal |-> m.by_ordinal]
  BY RecomputeIs DEF MapFits
<1>2. ASSUME NEW key \in DOMAIN m.by_key
      PROVE  /\ new[key] \in Stats /\ SameStats(new[key], m.by_key[key])
             /\ new[key].gaps = GapsOf(x, key, m.by_key[key])
  <2>1. m.by_key[key] \in Stats /\ ToSet(m.by_key[key].ordinals) = Of(x, key, Len(x))
    BY DEF MapFits
  <2>2. Of(x, key, Len(x)) \subseteq OrdinalsOf(x)
    BY DEF Of, OrdinalsOf
  <2>3. GapsOf(x, key, m.by_key[key]) \in Seq(Gap)
    BY <2>1, <2>2, GapsOfIs
  <2>4. new[key] = [m.by_key[key] EXCEPT !.gaps = GapsOf(x, key, m.by_key[key])]
    OBVIOUS
  <2> HIDE DEF new
  <2> QED  BY <2>1, <2>3, <2>4 DEF Stats, SameStats
<1>3. DOMAIN new = DOMAIN m.by_key
  OBVIOUS
<1>4. new = [key \in DOMAIN new |-> new[key]]
  OBVIOUS
<1> HIDE DEF new
<1>5. r.by_key = new /\ r.by_ordinal = m.by_ordinal
  BY <1>1
<1>6. new \in [DOMAIN new -> Stats]
  BY <1>2, <1>3, <1>4
<1>7. \A key \in DOMAIN new : ToSet(new[key].ordinals) = Of(x, key, Len(x))
  BY <1>2, <1>3 DEF MapFits, SameStats
<1>8. MapFits(r, x, Len(x))
  BY <1>1, <1>3, <1>5, <1>6, <1>7 DEF MapFits
<1>9. Same(r, m)
  BY <1>2, <1>3, <1>5 DEF Same
<1> QED  BY <1>2, <1>5, <1>8, <1>9

LEMMA RecomputeSame ==
  ASSUME NEW x, NEW n, NEW m, NEW w, MapFits(m, x, n), MapFits(w, x, n), Same(m, w)
  PROVE  recompute_gaps(m, x) = recompute_gaps(w, x)
<1>1. ASSUME NEW key \in DOMAIN m.by_key
      PROVE  [m.by_key[key] EXCEPT !.gaps = GapsOf(x, key, m.by_key[key])]
               = [w.by_key[key] EXCEPT !.gaps = GapsOf(x, key, w.by_key[key])]
  <2>1. m.by_key[key] \in Stats /\ w.by_key[key] \in Stats
    BY DEF MapFits, Same
  <2>2. SameStats(m.by_key[key], w.by_key[key])
    BY DEF Same
  <2>3. GapsOf(x, key, m.by_key[key]) = GapsOf(x, key, w.by_key[key])
    BY <2>2 DEF GapsOf, Direction, SameStats
  <2> QED  BY <2>1, <2>2, <2>3 DEF Stats, SameStats
<1>2. DOMAIN m.by_key = DOMAIN w.by_key /\ m.by_ordinal = w.by_ordinal
  BY DEF Same
<1>3. [key \in DOMAIN m.by_key |-> [m.by_key[key] EXCEPT !.gaps = GapsOf(x, key, m.by_key[key])]]
        = [key \in DOMAIN w.by_key |->
             [w.by_key[key] EXCEPT !.gaps = GapsOf(x, key, w.by_key[key])]]
  BY <1>1, <1>2
<1>4. /\ m = [by_key |-> m.by_key, by_ordinal |-> m.by_ordinal]
      /\ w = [by_key |-> w.by_key, by_ordinal |-> w.by_ordinal]
  BY DEF MapFits
<1> QED  BY <1>2, <1>3, <1>4, RecomputeIs


(* The map of an index, and that of one with more messages.                *)
LEMMA EmptyFits ==
  ASSUME NEW x \in Seq(Message)
  PROVE  MapFits(EmptyMap, x, 0)
<1>1. EmptyMap.by_key = << >> /\ EmptyMap.by_ordinal = << >> /\ DOMAIN << >> = {}
  BY DEF EmptyMap
<1>2. \A key : Of(x, key, 0) = {}
  <2>1. 0 .. 0 - 1 = {}
    OBVIOUS
  <2> QED  BY <2>1 DEF Of
<1>3. EmptyMap = [by_key |-> EmptyMap.by_key, by_ordinal |-> EmptyMap.by_ordinal]
  BY DEF EmptyMap
<1>4. << >> \in Seq(Key \cup {None}) /\ Len(<< >>) = 0
  OBVIOUS
<1>5. << >> \in [DOMAIN << >> -> Stats]
  BY <1>1
<1> QED  BY <1>1, <1>2, <1>3, <1>4, <1>5 DEF MapFits

LEMMA BuildIs ==
  ASSUME NEW x \in Seq(Message)
  PROVE  \E f : /\ f[0] = EmptyMap /\ Goes(f, x, 0, Len(x))
               /\ \A n \in 0 .. Len(x) : MapFits(f[n], x, n)
               /\ build(x) = recompute_gaps(f[Len(x)], x)
<1>1. Len(x) \in Nat /\ 0 \in 0 .. Len(x) /\ 0 \in Nat /\ 0 <= Len(x)
  OBVIOUS
<1>2. PICK f : IsRun(f, EmptyMap, x, 0, Len(x)) /\ append_internal(EmptyMap, x, 0) = f[Len(x)]
  BY <1>1, AppendIsRun
<1>3. Len(EmptyMap.by_ordinal) = 0
  BY DEF EmptyMap
<1>4. build(x) = recompute_gaps(f[Len(x)], x)
  BY <1>2, <1>3 DEF build, append_from
<1>5. MapFits(EmptyMap, x, 0)
  BY EmptyFits
<1>6. \A n \in 0 .. Len(x) : MapFits(f[n], x, n)
  <2>1. Len(x) <= Len(x)
    BY <1>1
  <2> QED  BY <1>1, <1>2, <1>5, <2>1, RunFits
<1>7. f[0] = EmptyMap /\ Goes(f, x, 0, Len(x))
  BY <1>1, <1>2, RunValue
<1> QED  BY <1>4, <1>6, <1>7

LEMMA BuildFits ==
  ASSUME NEW x \in Seq(Message)
  PROVE  /\ MapFits(build(x), x, Len(x))
         /\ \A key \in DOMAIN build(x).by_key :
              build(x).by_key[key].gaps = GapsOf(x, key, build(x).by_key[key])
<1>1. PICK f : /\ \A n \in 0 .. Len(x) : MapFits(f[n], x, n)
               /\ build(x) = recompute_gaps(f[Len(x)], x)
  BY BuildIs
<1> DEFINE m == f[Len(x)]
<1>2. MapFits(m, x, Len(x)) /\ build(x) = recompute_gaps(m, x)
  <2>1. Len(x) \in 0 .. Len(x)
    OBVIOUS
  <2> QED  BY <1>1, <2>1
<1> HIDE DEF m
<1>3. /\ MapFits(build(x), x, Len(x)) /\ Same(build(x), m)
      /\ \A key \in DOMAIN m.by_key : build(x).by_key[key].gaps = GapsOf(x, key, m.by_key[key])
  BY <1>2, RecomputeFits
<1>4. ASSUME NEW key \in DOMAIN build(x).by_key
      PROVE  build(x).by_key[key].gaps = GapsOf(x, key, build(x).by_key[key])
  <2>1. key \in DOMAIN m.by_key /\ build(x).by_key[key].ordinals = m.by_key[key].ordinals
    BY <1>3 DEF Same, SameStats
  <2>2. GapsOf(x, key, build(x).by_key[key]) = GapsOf(x, key, m.by_key[key])
    BY <2>1 DEF GapsOf, Direction
  <2> QED  BY <1>3, <2>1, <2>2
<1> QED  BY <1>3, <1>4

LEMMA EmptyBuild ==
  ASSUME NEW x \in Seq(Message)
  PROVE  Len(x) = 0 => build(x) = EmptyMap
<1>1. PICK f : /\ f[0] = EmptyMap /\ Goes(f, x, 0, Len(x))
               /\ \A n \in 0 .. Len(x) : MapFits(f[n], x, n)
               /\ build(x) = recompute_gaps(f[Len(x)], x)
  BY BuildIs
<1> HAVE Len(x) = 0
<1>2. build(x) = recompute_gaps(EmptyMap, x)
  BY <1>1
<1>3. EmptyMap.by_key = << >> /\ EmptyMap.by_ordinal = << >> /\ DOMAIN << >> = {}
  BY DEF EmptyMap
<1>4. EmptyMap = [by_key |-> EmptyMap.by_key, by_ordinal |-> EmptyMap.by_ordinal]
  BY DEF EmptyMap
<1>5. recompute_gaps(EmptyMap, x) =
        [by_key |-> [key \in DOMAIN EmptyMap.by_key |->
                       [EmptyMap.by_key[key] EXCEPT
                          !.gaps = GapsOf(x, key, EmptyMap.by_key[key])]],
         by_ordinal |-> EmptyMap.by_ordinal]
  BY <1>4, RecomputeIs
<1>6. [key \in DOMAIN EmptyMap.by_key |->
         [EmptyMap.by_key[key] EXCEPT !.gaps = GapsOf(x, key, EmptyMap.by_key[key])]] = << >>
  BY <1>3
<1> QED  BY <1>2, <1>3, <1>5, <1>6 DEF EmptyMap

LEMMA AppendAgrees ==
  ASSUME NEW x \in Seq(Message), NEW y \in Seq(Message), Len(x) <= Len(y),
         \A i \in 1 .. Len(x) : x[i] = y[i]
  PROVE  append_from(build(x), y) = build(y)
<1> DEFINE a == Len(x)
           b == Len(y)
           m == build(x)
<1>1. a \in Nat /\ b \in Nat /\ a <= b /\ a \in 0 .. a /\ a \in 0 .. b /\ a \in a .. b /\ b \in a .. b
  OBVIOUS
<1>2. \A o \in 0 .. a - 1 : message(x, o) = message(y, o)
  <2>1. \A o \in 0 .. a - 1 : o + 1 \in 1 .. a
    BY <1>1
  <2> QED  BY <2>1 DEF message
<1>3. PICK f : /\ f[0] = EmptyMap /\ Goes(f, x, 0, a)
               /\ \A n \in 0 .. a : MapFits(f[n], x, n)
               /\ m = recompute_gaps(f[a], x)
  BY BuildIs
<1>4. PICK h : /\ h[0] = EmptyMap /\ Goes(h, y, 0, b)
               /\ \A n \in 0 .. b : MapFits(h[n], y, n)
               /\ build(y) = recompute_gaps(h[b], y)
  BY BuildIs
<1>5. f[a] = h[a]
  <2>1. Goes(h, y, 0, a)
    BY <1>1, <1>4 DEF Goes
  <2> HIDE DEF a
  <2> QED  BY <1>1, <1>2, <1>3, <1>4, <2>1, RunsEqual
<1>6. MapFits(m, x, a) /\ Same(m, h[a])
  <2>1. MapFits(h[a], x, a) /\ m = recompute_gaps(h[a], x)
    BY <1>1, <1>3, <1>5
  <2> HIDE DEF m
  <2> QED  BY <2>1, RecomputeFits
<1> HIDE DEF m
<1>7. MapFits(m, y, a)
  <2>1. \A key : Of(x, key, a) = Of(y, key, a)
    BY <1>2 DEF Of, Sent, To
  <2> QED  BY <1>6, <2>1 DEF MapFits
<1>8. Len(m.by_ordinal) = a
  BY <1>7 DEF MapFits
<1> HIDE DEF a, b
<1>9. PICK k : IsRun(k, m, y, a, b) /\ append_internal(m, y, a) = k[b]
  BY <1>1, AppendIsRun DEF b
<1>10. append_from(m, y) = recompute_gaps(k[b], y)
  BY <1>8, <1>9 DEF append_from
<1>11. k[a] = m /\ Goes(k, y, a, b)
  BY <1>1, <1>9, RunValue
<1>12. \A n \in a .. b : MapFits(k[n], y, n)
  <2>1. b <= Len(y)
    BY <1>1 DEF b
  <2> QED  BY <1>1, <1>7, <1>9, <2>1, RunFits
<1>13. \A n \in a .. b : MapFits(h[n], y, n)
  BY <1>1, <1>4
<1>14. Same(k[b], h[b])
  <2>1. b <= Len(y)
    BY <1>1 DEF b
  <2>2. Same(k[a], h[a])
    BY <1>6, <1>11
  <2>3. Goes(h, y, a, b)
    BY <1>1, <1>4 DEF Goes
  <2> QED  BY <1>1, <1>11, <1>12, <1>13, <2>1, <2>2, <2>3, RunsSame
<1>15. recompute_gaps(k[b], y) = recompute_gaps(h[b], y)
  BY <1>1, <1>12, <1>13, <1>14, RecomputeSame
<1> QED  BY <1>4, <1>10, <1>15 DEF m


(* What the gaps of a direction say of its messages, those with the        *)
(* ordinals D and the numbers num.                                         *)
Within(gap) == gap.from_seq + 1 .. gap.to_seq - 1

Missing(numbers) ==
  {n \in 0 .. MaxSeq : \E a, b \in numbers : a < n /\ n < b} \ numbers

Names(gap, D, num) ==
  /\ gap.ordinal_before \in D /\ num[gap.ordinal_before] = gap.from_seq
  /\ gap.ordinal_after \in D /\ num[gap.ordinal_after] = gap.to_seq

Apart(g) == \A k, m \in 1 .. Len(g) : k # m => Within(g[k]) \cap Within(g[m]) = {}

(* At most one message of the greatest number.                             *)
OneLast(D, num) == \A a, b \in D : num[a] = MaxSeq /\ num[b] = MaxSeq => a = b

AllNamed(g, D, num) == \A k \in 1 .. Len(g) : Names(g[k], D, num)

Covers(g, D, num) ==
  UNION {Within(g[k]) : k \in 1 .. Len(g)} = Missing({num[o] : o \in D}) /\ Apart(g)

LEMMA NoWrap ==
  ASSUME NEW n \in Nat, n < MaxSeq
  PROVE  seq_after(n) = n + 1
<1>1. n + 1 \in Nat /\ MaxSeq + 1 \in Nat /\ n + 1 < MaxSeq + 1 /\ MaxSeq + 1 > 0
  BY MaxSeqAssumption
<1>2. \A c, d \in Nat : d > 0 /\ c < d => c % d = c
  OBVIOUS
<1> QED  BY <1>1, <1>2 DEF seq_after

LEMMA DirectionGaps ==
  ASSUME NEW D, D \subseteq Nat, IsFiniteSet(D), NEW num \in [D -> 0 .. MaxSeq],
         NEW g, g = detect_gaps({<<num[o], o>> : o \in D})
  PROVE  g \in Seq(Gap) /\ AllNamed(g, D, num) /\ (OneLast(D, num) => Covers(g, D, num))
<1> DEFINE pairs == {<<num[o], o>> : o \in D}
           p == sorted(pairs)
           s == [i \in 1 .. Len(p) |-> p[i][1]]
           e == [i \in 1 .. Len(p) |-> p[i][2]]
<1>1. \A o \in D : num[o] \in Nat /\ num[o] <= MaxSeq /\ o \in Nat
  <2>1. \A o \in D : num[o] \in 0 .. MaxSeq /\ o \in Nat
    OBVIOUS
  <2> QED  BY <2>1, MaxSeqAssumption
<1>2. pairs \subseteq Nat \X Nat /\ IsFiniteSet(pairs)
  <2>1. pairs \subseteq Nat \X Nat
    BY <1>1
  <2> DEFINE f == [o \in D |-> <<num[o], o>>]
  <2>2. f \in [D -> pairs] /\ \A t \in pairs : \E o \in D : f[o] = t
    OBVIOUS
  <2> HIDE DEF f, pairs
  <2>3. f \in Surjection(D, pairs)
    BY <2>2 DEF Surjection
  <2> QED  BY <2>1, <2>3, FS_Surjection
<1>3. \A t \in pairs : t[2] \in D /\ t[1] = num[t[2]]
  OBVIOUS
<1>4. \A o \in D : \E t \in pairs : t[2] = o
  <2>1. \A o \in D : <<num[o], o>> \in pairs /\ <<num[o], o>>[2] = o
    OBVIOUS
  <2> HIDE DEF pairs
  <2> QED  BY <2>1
<1>5. g = detect_gaps(pairs)
  OBVIOUS
<1> HIDE DEF pairs
<1>6. /\ p \in Seq(pairs) /\ ToSet(p) = pairs /\ DOMAIN p = 1 .. Len(p) /\ Len(p) \in Nat
      /\ \A i, j \in 1 .. Len(p) : i < j => NumberLess(p[i], p[j])
  BY <1>2, SortedIs
<1>6a. p = sorted(pairs)
  OBVIOUS
<1> HIDE DEF p
<1>7. g \in Seq(Gap) /\ GapsAt(g, p)
  BY <1>2, <1>5, <1>6a, DetectIs
<1>8. /\ \A k \in 1 .. Len(g) : \E i \in GapPlaces(p) : g[k] = GapAt(p, i)
      /\ \A k, m \in 1 .. Len(g) : k # m =>
           \E i, j \in GapPlaces(p) : i # j /\ g[k] = GapAt(p, i) /\ g[m] = GapAt(p, j)
  BY <1>7 DEF GapsAt
<1>9. \A i \in GapPlaces(p) : \E k \in 1 .. Len(g) : g[k] = GapAt(p, i)
  <2>1. ToSet(g) = {GapAt(p, i) : i \in GapPlaces(p)} /\ DOMAIN g = 1 .. Len(g)
    BY <1>7 DEF GapsAt
  <2> QED  BY <2>1 DEF ToSet
<1>10. /\ \A i \in 1 .. Len(p) : /\ s[i] \in Nat /\ s[i] <= MaxSeq /\ e[i] \in D
                                 /\ num[e[i]] = s[i] /\ s[i] = p[i][1] /\ e[i] = p[i][2]
       /\ \A o \in D : \E i \in 1 .. Len(p) : e[i] = o
  <2>1. \A i \in 1 .. Len(p) : p[i] \in pairs
    BY <1>6
  <2>2. \A t \in pairs : \E i \in 1 .. Len(p) : p[i] = t
    BY <1>6 DEF ToSet
  <2>3. \A i \in 1 .. Len(p) : s[i] = p[i][1] /\ e[i] = p[i][2]
    OBVIOUS
  <2> HIDE DEF s, e
  <2>4. \A i \in 1 .. Len(p) : e[i] \in D /\ num[e[i]] = s[i]
    BY <1>3, <2>1, <2>3
  <2>5. \A i \in 1 .. Len(p) : s[i] \in Nat /\ s[i] <= MaxSeq
    BY <1>1, <2>4
  <2>6. ASSUME NEW o \in D PROVE \E i \in 1 .. Len(p) : e[i] = o
    <3>1. PICK t \in pairs : t[2] = o
      BY <1>4
    <3>2. PICK i \in 1 .. Len(p) : p[i] = t
      BY <2>2
    <3> QED  BY <2>3, <3>1, <3>2
  <2> QED  BY <2>3, <2>4, <2>5, <2>6
<1> HIDE DEF s, e
<1>11. \A i, j \in 1 .. Len(p) : i < j => s[i] < s[j] \/ (s[i] = s[j] /\ e[i] < e[j])
  BY <1>6, <1>10 DEF NumberLess
<1>12. ASSUME NEW i \in GapPlaces(p)
       PROVE  /\ i \in 1 .. Len(p) - 1 /\ i \in 1 .. Len(p) /\ i + 1 \in 1 .. Len(p)
              /\ Names(GapAt(p, i), D, num) /\ Within(GapAt(p, i)) = s[i] + 1 .. s[i + 1] - 1
  <2>1. i \in 1 .. Len(p) - 1
    BY DEF GapPlaces
  <2>2. i \in 1 .. Len(p) /\ i + 1 \in 1 .. Len(p)
    BY <1>6, <2>1
  <2>3. /\ GapAt(p, i).from_seq = s[i] /\ GapAt(p, i).to_seq = s[i + 1]
        /\ GapAt(p, i).ordinal_before = e[i] /\ GapAt(p, i).ordinal_after = e[i + 1]
    BY <1>10, <2>2 DEF GapAt
  <2> QED  BY <1>10, <2>1, <2>2, <2>3 DEF Names, Within
<1>13. \A k \in 1 .. Len(g) : Names(g[k], D, num)
  BY <1>8, <1>12
<1>14. SUFFICES ASSUME OneLast(D, num)
                PROVE  Covers(g, D, num)
  BY <1>7, <1>13 DEF AllNamed
<1>15. GapPlaces(p) = {i \in 1 .. Len(p) - 1 : s[i + 1] > s[i] + 1}
  <2>1. ASSUME NEW i \in 1 .. Len(p) - 1
        PROVE  p[i + 1][1] = s[i + 1] /\ p[i][1] = s[i] /\ seq_after(s[i]) = s[i] + 1
    <3>1. i \in 1 .. Len(p) /\ i + 1 \in 1 .. Len(p) /\ i < i + 1
      BY <1>6
    <3>2. s[i] < s[i + 1] \/ (s[i] = s[i + 1] /\ e[i] < e[i + 1])
      BY <1>11, <3>1
    <3>3. /\ s[i] \in Nat /\ s[i + 1] \in Nat /\ s[i] <= MaxSeq /\ s[i + 1] <= MaxSeq
          /\ e[i] \in D /\ e[i + 1] \in D /\ num[e[i]] = s[i] /\ num[e[i + 1]] = s[i + 1]
      BY <1>10, <3>1
    <3>4. s[i] # MaxSeq
      <4> SUFFICES ASSUME s[i] = MaxSeq PROVE FALSE
        OBVIOUS
      <4>1. s[i + 1] = MaxSeq /\ e[i] < e[i + 1]
        BY <3>2, <3>3, MaxSeqAssumption
      <4>2. e[i] = e[i + 1]
        BY <1>14, <3>3, <4>1 DEF OneLast
      <4>3. e[i] \in Nat
        BY <1>1, <3>3
      <4> QED  BY <4>1, <4>2, <4>3
    <3>5. s[i] < MaxSeq
      BY <3>3, <3>4, MaxSeqAssumption
    <3>6. p[i + 1][1] = s[i + 1] /\ p[i][1] = s[i]
      BY <1>10, <3>1
    <3> QED  BY <3>3, <3>5, <3>6, NoWrap
  <2> QED  BY <2>1 DEF GapPlaces
<1>16. ASSUME NEW i \in 1 .. Len(p), NEW j \in 1 .. Len(p), i <= j
       PROVE  s[i] \in Nat /\ s[j] \in Nat /\ s[i] <= s[j]
  <2>1. s[i] \in Nat /\ s[j] \in Nat
    BY <1>10
  <2>2. i = j \/ i < j
    BY <1>6, <1>16
  <2> QED  BY <1>11, <2>1, <2>2
<1>17. Apart(g)
  <2>1. ASSUME NEW i \in GapPlaces(p), NEW j \in GapPlaces(p), i < j
        PROVE  Within(GapAt(p, i)) \cap Within(GapAt(p, j)) = {}
    <3>1. /\ Within(GapAt(p, i)) = s[i] + 1 .. s[i + 1] - 1
          /\ Within(GapAt(p, j)) = s[j] + 1 .. s[j + 1] - 1
      BY <1>12
    <3>2. i + 1 \in 1 .. Len(p) /\ j \in 1 .. Len(p) /\ i + 1 <= j
      BY <1>6, <1>12, <2>1
    <3>3. s[i + 1] \in Nat /\ s[j] \in Nat /\ s[i + 1] <= s[j]
      BY <1>16, <3>2
    <3>4. s[i] \in Nat /\ s[j + 1] \in Nat
      BY <1>10, <1>12
    <3> QED  BY <3>1, <3>3, <3>4
  <2>2. ASSUME NEW k \in 1 .. Len(g), NEW m \in 1 .. Len(g), k # m
        PROVE  Within(g[k]) \cap Within(g[m]) = {}
    <3>1. PICK i \in GapPlaces(p), j \in GapPlaces(p) :
            i # j /\ g[k] = GapAt(p, i) /\ g[m] = GapAt(p, j)
      BY <1>8, <2>2
    <3>2. i \in Nat /\ j \in Nat
      BY <1>6, <1>12
    <3>3. i < j \/ j < i
      BY <3>1, <3>2
    <3>4. Within(GapAt(p, i)) \cap Within(GapAt(p, j)) = {}
      BY <2>1, <3>3
    <3> QED  BY <3>1, <3>4
  <2> QED  BY <2>2 DEF Apart
<1> DEFINE N == {num[o] : o \in D}
<1>18. N = {s[i] : i \in 1 .. Len(p)}
  <2>1. \A i \in 1 .. Len(p) : e[i] \in D /\ s[i] = num[e[i]]
    BY <1>10
  <2>2. \A o \in D : \E i \in 1 .. Len(p) : e[i] = o
    BY <1>10
  <2>3. {s[i] : i \in 1 .. Len(p)} \subseteq N
    BY <2>1
  <2>4. N \subseteq {s[i] : i \in 1 .. Len(p)}
    BY <2>1, <2>2
  <2> QED  BY <2>3, <2>4
<1> HIDE DEF N
<1>19. ASSUME NEW k \in 1 .. Len(g), NEW n \in Within(g[k]) PROVE n \in Missing(N)
  <2>1. PICK i \in GapPlaces(p) : g[k] = GapAt(p, i)
    BY <1>8
  <2>2. i \in 1 .. Len(p) /\ i + 1 \in 1 .. Len(p) /\ n \in s[i] + 1 .. s[i + 1] - 1
    BY <1>12, <2>1
  <2>3. s[i] \in Nat /\ s[i + 1] \in Nat /\ s[i + 1] <= MaxSeq
    BY <1>10, <2>2
  <2>4. n \in 0 .. MaxSeq /\ s[i] < n /\ n < s[i + 1]
    BY <2>2, <2>3, MaxSeqAssumption
  <2>5. n \notin N
    <3> SUFFICES ASSUME NEW j \in 1 .. Len(p), s[j] = n PROVE FALSE
      BY <1>18
    <3>1. CASE j <= i
      <4>1. s[j] <= s[i] /\ s[j] \in Nat
        BY <1>16, <2>2, <3>1
      <4> QED  BY <2>3, <2>4, <4>1
    <3>2. CASE j >= i + 1
      <4>1. s[i + 1] <= s[j] /\ s[j] \in Nat
        BY <1>16, <2>2, <3>2
      <4> QED  BY <2>3, <2>4, <4>1
    <3> QED  BY <1>6, <2>2, <3>1, <3>2
  <2> QED  BY <1>18, <2>2, <2>4, <2>5 DEF Missing
<1>20. ASSUME NEW n \in Missing(N) PROVE \E k \in 1 .. Len(g) : n \in Within(g[k])
  <2>1. PICK a \in 1 .. Len(p), c \in 1 .. Len(p) : s[a] < n /\ n < s[c]
    BY <1>18 DEF Missing
  <2>2. n \in Nat /\ n \notin N
    BY MaxSeqAssumption DEF Missing
  <2> DEFINE B == {i \in 1 .. Len(p) : n < s[i]}
  <2>3. PICK j \in B : \A i \in B : j <= i
    <3>1. B \subseteq Nat /\ B # {}
      BY <1>6, <2>1
    <3> HIDE DEF B
    <3> QED  BY <3>1, NatMinimum
  <2>4. j \in 1 .. Len(p) /\ n < s[j]
    BY <2>3
  <2>5. a < j
    <3> SUFFICES ASSUME j <= a PROVE FALSE
      BY <1>6, <2>1, <2>4
    <3>1. s[j] <= s[a] /\ s[j] \in Nat /\ s[a] \in Nat
      BY <1>16, <2>1, <2>4
    <3> QED  BY <2>1, <2>2, <2>4, <3>1
  <2>6. j - 1 \in 1 .. Len(p) - 1 /\ j - 1 \in 1 .. Len(p) /\ j - 1 + 1 = j /\ ~ j <= j - 1
    BY <1>6, <2>1, <2>4, <2>5
  <2>7. ~ n < s[j - 1]
    BY <2>3, <2>6
  <2>8. s[j - 1] \in N /\ s[j - 1] \in Nat /\ s[j] \in Nat
    BY <1>10, <1>18, <2>4, <2>6
  <2>9. s[j - 1] < n
    BY <2>2, <2>7, <2>8
  <2>10. j - 1 \in GapPlaces(p)
    <3>1. s[j] > s[j - 1] + 1
      BY <2>2, <2>4, <2>8, <2>9
    <3> QED  BY <1>15, <2>6, <3>1
  <2>11. Within(GapAt(p, j - 1)) = s[j - 1] + 1 .. s[j] - 1
    BY <1>12, <2>6, <2>10
  <2>12. n \in Within(GapAt(p, j - 1))
    BY <2>2, <2>4, <2>8, <2>9, <2>11
  <2> QED  BY <1>9, <2>10, <2>12
<1>21. UNION {Within(g[k]) : k \in 1 .. Len(g)} = Missing(N)
  BY <1>19, <1>20
<1> QED  BY <1>17, <1>21 DEF N, Covers


(* The two halves of a session's gaps are those of its two directions.     *)
InWay(x, key, from) ==
  {o \in OrdinalsOf(x) :
     /\ seq(message(x, o)) # None /\ Sent(x, o) = from
     /\ To(x, o) = IF from = key.sender THEN key.target ELSE key.sender}

Num(x, D) == [o \in D |-> seq(message(x, o))]

LEMMA InWayIs ==
  ASSUME NEW x \in Seq(Message), NEW key, NEW from, NEW D, D = InWay(x, key, from)
  PROVE  /\ D \subseteq OrdinalsOf(x) /\ D \subseteq Nat /\ IsFiniteSet(D)
         /\ Num(x, D) \in [D -> 0 .. MaxSeq]
         /\ \A o \in D : Num(x, D)[o] = seq(message(x, o))
<1>1. D \subseteq OrdinalsOf(x) /\ \A o \in D : seq(message(x, o)) # None
  BY DEF InWay
<1>2. D \subseteq Nat /\ IsFiniteSet(D)
  BY <1>1, OrdinalsAre, FS_Subset
<1>3. \A o \in D : seq(message(x, o)) \in 0 .. MaxSeq
  BY <1>1, OrdinalsAre, SeqIs
<1> QED  BY <1>1, <1>2, <1>3 DEF Num

LEMMA DirectionOf ==
  ASSUME NEW x \in Seq(Message), NEW key \in Key, NEW s, ToSet(s.ordinals) = Of(x, key, Len(x))
  PROVE  /\ Direction(x, key, s, TRUE)
              = {<<seq(message(x, o)), o>> : o \in InWay(x, key, key.sender)}
         /\ Direction(x, key, s, FALSE)
              = IF key.sender = key.target THEN {}
                ELSE {<<seq(message(x, o)), o>> : o \in InWay(x, key, key.target)}
<1>1. key = [sender |-> key.sender, target |-> key.target] /\ key.sender \in Nat
      /\ key.target \in Nat /\ key.sender <= key.target
  BY DEF Key
<1>2. \A o \in OrdinalsOf(x) : Sent(x, o) \in Maybe /\ To(x, o) \in Maybe
  BY OrdinalsAre, FindTagIs DEF Sent, To, Maybe
<1>3. ASSUME NEW f \in Nat, NEW t \in Nat
      PROVE  /\ canonical(f, t) = key /\ f = key.sender <=> f = key.sender /\ t = key.target
             /\ canonical(f, t) = key /\ f # key.sender
                  <=> f = key.target /\ t = key.sender /\ key.sender # key.target
  <2>1. canonical(f, t).sender = (IF f <= t THEN f ELSE t)
        /\ canonical(f, t).target = (IF f <= t THEN t ELSE f)
        /\ canonical(f, t) = [sender |-> canonical(f, t).sender, target |-> canonical(f, t).target]
    BY DEF canonical
  <2>2. canonical(f, t) = key <=> /\ (IF f <= t THEN f ELSE t) = key.sender
                                  /\ (IF f <= t THEN t ELSE f) = key.target
    BY <1>1, <2>1
  <2> QED  BY <1>1, <2>2
<1>4. \A o \in Of(x, key, Len(x)) : /\ o \in OrdinalsOf(x) /\ Sent(x, o) \in Nat
                                    /\ To(x, o) \in Nat /\ canonical(Sent(x, o), To(x, o)) = key
  BY <1>2 DEF Of, OrdinalsOf, Maybe
<1>5. \A o \in OrdinalsOf(x) : Sent(x, o) \in Nat /\ To(x, o) \in Nat /\ canonical(Sent(x, o), To(x, o)) = key
                               => o \in Of(x, key, Len(x))
  BY ReportsAssumption DEF Of, OrdinalsOf
<1>6. {o \in Of(x, key, Len(x)) : seq(message(x, o)) # None /\ is_in(key, Sent(x, o)) = TRUE}
        = InWay(x, key, key.sender)
  BY <1>1, <1>3, <1>4, <1>5 DEF InWay, is_in
<1>7. {o \in Of(x, key, Len(x)) : seq(message(x, o)) # None /\ is_in(key, Sent(x, o)) = FALSE}
        = IF key.sender = key.target THEN {} ELSE InWay(x, key, key.target)
  BY <1>1, <1>3, <1>4, <1>5 DEF InWay, is_in
<1>8. \A in \in BOOLEAN : Direction(x, key, s, in) =
        {<<seq(message(x, o)), o>> : o \in
           {o \in Of(x, key, Len(x)) : seq(message(x, o)) # None /\ is_in(key, Sent(x, o)) = in}}
  BY DEF Direction, Sent
<1> QED  BY <1>6, <1>7, <1>8


LEMMA HalfGaps ==
  ASSUME NEW x \in Seq(Message), NEW key, NEW from, NEW D, D = InWay(x, key, from),
         NEW g, g = detect_gaps({<<seq(message(x, o)), o>> : o \in D})
  PROVE  /\ g \in Seq(Gap) /\ AllNamed(g, D, Num(x, D))
         /\ OneLast(D, Num(x, D)) => Covers(g, D, Num(x, D))
<1> DEFINE num == Num(x, D)
<1>1. /\ D \subseteq Nat /\ IsFiniteSet(D) /\ num \in [D -> 0 .. MaxSeq]
      /\ \A o \in D : num[o] = seq(message(x, o))
  BY InWayIs
<1> HIDE DEF num
<1>2. g = detect_gaps({<<num[o], o>> : o \in D})
  <2>1. {<<num[o], o>> : o \in D} = {<<seq(message(x, o)), o>> : o \in D}
    BY <1>1
  <2> QED  BY <2>1
<1>3. g \in Seq(Gap) /\ AllNamed(g, D, num) /\ (OneLast(D, num) => Covers(g, D, num))
  BY <1>1, <1>2, DirectionGaps
<1> QED  BY <1>3 DEF num

(* A stretch of the gaps that is those of one direction.                   *)
Stretch(gaps, g, shift) == \A k \in 1 .. Len(g) : gaps[shift + k] = g[k]

Fills(gaps, mine, D, num) ==
  /\ UNION {Within(gaps[i]) : i \in mine} = Missing({num[o] : o \in D})
  /\ \A i, j \in mine : i # j => Within(gaps[i]) \cap Within(gaps[j]) = {}

LEMMA StretchIs ==
  ASSUME NEW gaps, NEW g, Len(g) \in Nat, NEW shift \in Nat, Stretch(gaps, g, shift),
         NEW mine, mine = {shift + k : k \in 1 .. Len(g)}, NEW D, NEW num, Covers(g, D, num)
  PROVE  Fills(gaps, mine, D, num)
<1>1. \A i \in mine : \E k \in 1 .. Len(g) : i = shift + k /\ gaps[i] = g[k]
  BY DEF Stretch
<1>2. \A k \in 1 .. Len(g) : \E i \in mine : gaps[i] = g[k]
  BY DEF Stretch
<1>3. UNION {Within(gaps[i]) : i \in mine} = UNION {Within(g[k]) : k \in 1 .. Len(g)}
  <2>1. \A i \in mine : \E k \in 1 .. Len(g) : Within(gaps[i]) = Within(g[k])
    BY <1>1
  <2>2. \A k \in 1 .. Len(g) : \E i \in mine : Within(gaps[i]) = Within(g[k])
    BY <1>2
  <2>3. {Within(gaps[i]) : i \in mine} \subseteq {Within(g[k]) : k \in 1 .. Len(g)}
    BY <2>1
  <2>4. {Within(g[k]) : k \in 1 .. Len(g)} \subseteq {Within(gaps[i]) : i \in mine}
    BY <2>2
  <2> QED  BY <2>3, <2>4
<1>4. ASSUME NEW i \in mine, NEW j \in mine, i # j
      PROVE  Within(gaps[i]) \cap Within(gaps[j]) = {}
  <2>1. PICK k \in 1 .. Len(g) : i = shift + k /\ gaps[i] = g[k]
    BY <1>1
  <2>2. PICK m \in 1 .. Len(g) : j = shift + m /\ gaps[j] = g[m]
    BY <1>1
  <2>3. k # m
    BY <1>4, <2>1, <2>2
  <2> QED  BY <2>1, <2>2, <2>3 DEF Apart, Covers
<1> QED  BY <1>3, <1>4 DEF Covers, Fills

LEMMA KeyGaps ==
  ASSUME NEW x \in Seq(Message), NEW key \in Key,
         NEW s, ToSet(s.ordinals) = Of(x, key, Len(x)), NEW gaps, gaps = GapsOf(x, key, s),
         NEW from \in {key.sender, key.target}, NEW D, D = InWay(x, key, from),
         OneLast(D, Num(x, D)), NEW mine, mine = {i \in DOMAIN gaps : gaps[i].ordinal_before \in D}
  PROVE  Fills(gaps, mine, D, Num(x, D)) /\ \A i \in mine : Names(gaps[i], D, Num(x, D))
<1> DEFINE S == InWay(x, key, key.sender)
           T == IF key.sender = key.target THEN {} ELSE InWay(x, key, key.target)
           g == detect_gaps(Direction(x, key, s, TRUE))
           h == detect_gaps(Direction(x, key, s, FALSE))
<1>1. S \cap T = {}
  BY DEF InWay
<1>2. /\ Direction(x, key, s, TRUE) = {<<seq(message(x, o)), o>> : o \in S}
      /\ Direction(x, key, s, FALSE) = {<<seq(message(x, o)), o>> : o \in T}
  <2>1. /\ Direction(x, key, s, TRUE) = {<<seq(message(x, o)), o>> : o \in S}
        /\ Direction(x, key, s, FALSE)
              = IF key.sender = key.target THEN {}
                ELSE {<<seq(message(x, o)), o>> : o \in InWay(x, key, key.target)}
    BY DirectionOf
  <2>2. CASE key.sender = key.target
    BY <2>1, <2>2
  <2>3. CASE key.sender # key.target
    BY <2>1, <2>3
  <2> QED  BY <2>2, <2>3
<1>3. /\ g \in Seq(Gap) /\ AllNamed(g, S, Num(x, S))
      /\ OneLast(S, Num(x, S)) => Covers(g, S, Num(x, S))
  <2>1. S = InWay(x, key, key.sender) /\ g = detect_gaps({<<seq(message(x, o)), o>> : o \in S})
    BY <1>2
  <2> HIDE DEF S, g
  <2> QED  BY <2>1, HalfGaps
<1>4. /\ h \in Seq(Gap) /\ AllNamed(h, T, Num(x, T))
      /\ key.sender # key.target /\ OneLast(T, Num(x, T)) => Covers(h, T, Num(x, T))
  <2>1. h = detect_gaps({<<seq(message(x, o)), o>> : o \in T})
    BY <1>2
  <2>2. CASE key.sender # key.target
    <3>1. T = InWay(x, key, key.target)
      BY <2>2
    <3> HIDE DEF T, h
    <3> QED  BY <2>1, <3>1, HalfGaps
  <2>3. CASE key.sender = key.target
    <3>1. T = {}
      BY <2>3
    <3> HIDE DEF T, h
    <3>2. Num(x, T) \in [T -> 0 .. MaxSeq]
      BY <3>1 DEF Num
    <3>3. h = detect_gaps({<<Num(x, T)[o], o>> : o \in T})
      BY <2>1, <3>1
    <3>4. T \subseteq Nat /\ IsFiniteSet(T)
      BY <3>1, FS_EmptySet
    <3>5. h \in Seq(Gap) /\ AllNamed(h, T, Num(x, T))
      BY <3>2, <3>3, <3>4, DirectionGaps
    <3> QED  BY <2>3, <3>5
  <2> QED  BY <2>2, <2>3
<1>5. /\ gaps \in Seq(Gap) /\ Len(gaps) = Len(g) + Len(h) /\ Len(g) \in Nat /\ Len(h) \in Nat
      /\ \A k \in 1 .. Len(g) : gaps[k] = g[k]
      /\ \A k \in 1 .. Len(h) : gaps[Len(g) + k] = h[k]
  <2>1. gaps = g \o h
    BY DEF GapsOf
  <2> HIDE DEF g, h
  <2> QED  BY <1>3, <1>4, <2>1, ConcatProperties
<1>6. DOMAIN gaps = 1 .. Len(g) + Len(h)
  <2> HIDE DEF g, h
  <2> QED  BY <1>5
<1> HIDE DEF g, h
<1>7. /\ \A k \in 1 .. Len(g) : gaps[k].ordinal_before \in S
      /\ \A k \in 1 .. Len(h) : gaps[Len(g) + k].ordinal_before \in T
  BY <1>3, <1>4, <1>5 DEF AllNamed, Names
<1>8. \A i \in DOMAIN gaps : i \in 1 .. Len(g) \/ \E k \in 1 .. Len(h) : i = Len(g) + k
  <2> SUFFICES ASSUME NEW i \in DOMAIN gaps, i \notin 1 .. Len(g)
               PROVE  \E k \in 1 .. Len(h) : i = Len(g) + k
    OBVIOUS
  <2>1. i - Len(g) \in 1 .. Len(h) /\ i = Len(g) + (i - Len(g))
    BY <1>5, <1>6
  <2> QED  BY <2>1
<1>9. /\ \A k \in 1 .. Len(g) : k \in DOMAIN gaps
      /\ \A k \in 1 .. Len(h) : Len(g) + k \in DOMAIN gaps
  BY <1>5, <1>6
<1>10. CASE from = key.sender
  <2>1. D = S
    BY <1>10
  <2> HIDE DEF S, T
  <2>2. mine = {0 + k : k \in 1 .. Len(g)}
    <3>1. mine = 1 .. Len(g)
      BY <1>1, <1>7, <1>8, <1>9, <2>1
    <3>2. 1 .. Len(g) = {0 + k : k \in 1 .. Len(g)}
      BY <1>5
    <3> QED  BY <3>1, <3>2
  <2>3. Covers(g, D, Num(x, D))
    BY <1>3, <2>1
  <2>4. Stretch(gaps, g, 0)
    BY <1>5 DEF Stretch
  <2>5. Fills(gaps, mine, D, Num(x, D))
    BY <1>5, <2>2, <2>3, <2>4, StretchIs
  <2>6. \A i \in mine : Names(gaps[i], D, Num(x, D))
    BY <1>3, <1>5, <2>1, <2>2, <2>4 DEF AllNamed, Stretch
  <2> QED  BY <2>5, <2>6
<1>11. CASE from # key.sender
  <2>1. D = T /\ key.sender # key.target
    BY <1>11
  <2> HIDE DEF S, T
  <2>2. mine = {Len(g) + k : k \in 1 .. Len(h)}
    BY <1>1, <1>7, <1>8, <1>9, <2>1
  <2>3. Covers(h, D, Num(x, D))
    BY <1>4, <2>1
  <2>4. Stretch(gaps, h, Len(g))
    BY <1>5 DEF Stretch
  <2>5. Fills(gaps, mine, D, Num(x, D))
    BY <1>5, <2>2, <2>3, <2>4, StretchIs
  <2>6. \A i \in mine : Names(gaps[i], D, Num(x, D))
    BY <1>4, <1>5, <2>1, <2>2 DEF AllNamed
  <2> QED  BY <2>5, <2>6
<1> QED  BY <1>10, <1>11


-----------------------------------------------------------------------------
(* The index grows only while no timeline is built, so what a build has    *)
(* seen is of the index that it ends with.                                 *)
ReportsInv ==
  /\ log \in Logs /\ indexed \in 0 .. Len(log)
  /\ AppendEqualsBuild
  /\ timeline.pc \in {"none", "expand", "found", "not_found"}
  /\ timeline.pc # "none" => timeline \in TimelineType(index)
  /\ timeline.pc = "expand" => Chained(timeline, index)
  /\ TimelineIsClosure

LEMMA ReportsInvInit == ReportsInit => ReportsInv
<1> SUFFICES ASSUME ReportsInit PROVE ReportsInv
  OBVIOUS
<1>1. log \in Logs /\ indexed = 0 /\ sessions = EmptyMap /\ timeline.pc = "none"
  BY DEF ReportsInit, NoTimeline
<1>2. Len(log) \in Nat /\ 0 \in 0 .. Len(log)
  BY <1>1, ReportsAssumption
<1>3. index \in Seq(Message) /\ Len(index) = 0
  BY <1>1, <1>2, IndexIs DEF index
<1>4. build(index) = EmptyMap
  BY <1>3, EmptyBuild
<1> QED  BY <1>1, <1>2, <1>4 DEF ReportsInv, AppendEqualsBuild, TimelineIsClosure

LEMMA ReportsInvStep == ReportsInv /\ [ReportsNext]_reports => ReportsInv'
<1> SUFFICES ASSUME ReportsInv, [ReportsNext]_reports PROVE ReportsInv'
  OBVIOUS
<1>1. /\ index \in Seq(Message) /\ Len(index) = indexed /\ Len(log) \in Nat /\ indexed \in Nat
      /\ \A i \in 1 .. indexed : index[i] = log[i]
  BY IndexIs DEF ReportsInv, index
<1>2. ASSUME UNCHANGED <<log, indexed, sessions>>,
             timeline'.pc \in {"none", "expand", "found", "not_found"},
             timeline'.pc # "none" => timeline' \in TimelineType(index),
             timeline'.pc = "expand" => Chained(timeline', index),
             timeline'.pc = "found" =>
               /\ ToSet(timeline'.events) = Reported(index, timeline'.clordid)
               /\ \A i, j \in DOMAIN timeline'.events :
                    i < j => timeline'.events[i] < timeline'.events[j],
             timeline'.pc = "not_found" => Reported(index, timeline'.clordid) = {}
      PROVE  ReportsInv'
  <2>1. index' = index
    BY <1>2 DEF index
  <2>2. log' \in Logs /\ indexed' \in 0 .. Len(log') /\ AppendEqualsBuild'
    BY <1>2, <2>1 DEF ReportsInv, AppendEqualsBuild
  <2>3. TimelineIsClosure'
    BY <1>2, <2>1 DEF TimelineIsClosure
  <2> QED  BY <1>2, <2>1, <2>2, <2>3 DEF ReportsInv
<1>3. ASSUME UNCHANGED <<log, indexed, sessions>>, timeline'.pc = "none" PROVE ReportsInv'
  BY <1>2, <1>3
<1>4. CASE GrowIndex
  <2>1. PICK n \in indexed + 1 .. Len(log) :
          indexed' = n /\ sessions' = append_from(sessions, SubSeq(log, 1, n))
    BY <1>4 DEF GrowIndex
  <2>2. log' = log /\ timeline'.pc = "none" /\ n \in 0 .. Len(log)
    BY <1>1, <1>4 DEF GrowIndex, NoTimeline
  <2>3. index' = SubSeq(log, 1, n)
    BY <2>1, <2>2 DEF index
  <2> DEFINE y == SubSeq(log, 1, n)
  <2>4. y \in Seq(Message) /\ Len(y) = n /\ \A i \in 1 .. n : y[i] = log[i]
    BY <2>2, IndexIs DEF ReportsInv
  <2> HIDE DEF y
  <2>5. Len(index) <= Len(y) /\ \A i \in 1 .. Len(index) : index[i] = y[i]
    BY <1>1, <2>1, <2>4
  <2>6. append_from(build(index), y) = build(y)
    BY <1>1, <2>4, <2>5, AppendAgrees
  <2>7. sessions' = build(index')
    BY <2>1, <2>3, <2>6 DEF ReportsInv, AppendEqualsBuild, y
  <2> QED  BY <2>1, <2>2, <2>7 DEF ReportsInv, AppendEqualsBuild, TimelineIsClosure
<1>5. ASSUME NEW id \in Asked, StartTimeline(id) PROVE ReportsInv'
  <2>1. timeline' = started(id) /\ UNCHANGED <<log, indexed, sessions>> /\ timeline'.pc = "expand"
    BY <1>5 DEF StartTimeline, started
  <2>2. timeline' \in TimelineType(index) /\ Chained(timeline', index)
    BY <1>1, <2>1, Starts
  <2> QED  BY <1>2, <2>1, <2>2
<1>6. CASE ExpandTimeline
  <2>1. /\ timeline.pc = "expand" /\ timeline.pending # << >>
        /\ timeline' = expanded(timeline, index) /\ UNCHANGED <<log, indexed, sessions>>
    BY <1>6 DEF ExpandTimeline, Idle
  <2>2. timeline \in TimelineType(index) /\ Chained(timeline, index)
    BY <2>1 DEF ReportsInv
  <2>3. timeline' \in TimelineType(index) /\ Chained(timeline', index) /\ timeline'.pc = "expand"
    BY <1>1, <2>1, <2>2, Expands
  <2> QED  BY <1>2, <2>1, <2>3
<1>7. CASE FinishTimeline
  <2>1. /\ timeline.pc = "expand" /\ timeline.pending = << >>
        /\ timeline' = finished(timeline, index) /\ UNCHANGED <<log, indexed, sessions>>
    BY <1>7 DEF FinishTimeline, Idle
  <2>2. timeline \in TimelineType(index) /\ Chained(timeline, index)
    BY <2>1 DEF ReportsInv
  <2>3. /\ timeline' \in TimelineType(index) /\ timeline'.pc # "expand"
        /\ timeline'.pc = "found" =>
             /\ ToSet(timeline'.events) = Reported(index, timeline'.clordid)
             /\ \A i, j \in DOMAIN timeline'.events :
                  i < j => timeline'.events[i] < timeline'.events[j]
        /\ timeline'.pc = "not_found" => Reported(index, timeline'.clordid) = {}
    BY <1>1, <2>1, <2>2, Finishes
  <2>4. timeline'.pc \in {"expand", "found", "not_found"}
    BY <2>3 DEF TimelineType
  <2> QED  BY <1>2, <2>1, <2>3, <2>4
<1>8. CASE CloseTimeline \/ \E text \in DOMAIN Buckets : OpenHistogram(text)
  <2>1. UNCHANGED <<log, indexed, sessions>> /\ timeline' = NoTimeline
    BY <1>8 DEF CloseTimeline, OpenHistogram
  <2> QED  BY <1>3, <2>1 DEF NoTimeline
<1>9. CASE UNCHANGED reports
  <2>1. UNCHANGED <<log, indexed, sessions, timeline>>
    BY <1>9 DEF reports
  <2>2. timeline.pc = "found" =>
          /\ ToSet(timeline.events) = Reported(index, timeline.clordid)
          /\ \A i, j \in DOMAIN timeline.events : i < j => timeline.events[i] < timeline.events[j]
    BY DEF ReportsInv, TimelineIsClosure
  <2>3. timeline.pc = "not_found" => Reported(index, timeline.clordid) = {}
    BY DEF ReportsInv, TimelineIsClosure
  <2>4. /\ timeline.pc \in {"none", "expand", "found", "not_found"}
        /\ timeline.pc # "none" => timeline \in TimelineType(index)
        /\ timeline.pc = "expand" => Chained(timeline, index)
    BY DEF ReportsInv
  <2>5. timeline' = timeline
    BY <2>1
  <2> QED  BY <1>2, <2>1, <2>2, <2>3, <2>4, <2>5
<1> QED  BY <1>4, <1>5, <1>6, <1>7, <1>8, <1>9 DEF ReportsNext, Ask

LEMMA ReportsInvHolds == ReportsSpec => []ReportsInv
<1>1. QED  BY ReportsInvInit, ReportsInvStep, PTL DEF ReportsSpec

(* A timeline is what the replacements and the OrderIDs reach, in the      *)
(* order of the file, and there is none only of what nothing mentions.     *)
THEOREM TimelinesAreClosures == ReportsSpec => []TimelineIsClosure
<1>1. ReportsInv => TimelineIsClosure
  BY DEF ReportsInv
<1>2. QED  BY <1>1, ReportsInvHolds, PTL

(* A session map that is extended as the index grows is the one that is    *)
(* built of the whole index.                                               *)
THEOREM ExtendedIsBuilt == ReportsSpec => []AppendEqualsBuild
<1>1. ReportsInv => AppendEqualsBuild
  BY DEF ReportsInv
<1>2. QED  BY <1>1, ReportsInvHolds, PTL

LEMMA AtMostOne ==
  ASSUME NEW S, IsFiniteSet(S), Cardinality(S) <= 1
  PROVE  \A a, b \in S : a = b
<1> SUFFICES ASSUME NEW a \in S, NEW b \in S, a # b PROVE FALSE
  OBVIOUS
<1>1. IsFiniteSet({a}) /\ Cardinality({a}) = 1
  BY FS_Singleton
<1>2. IsFiniteSet({a} \cup {b}) /\ Cardinality({a} \cup {b}) = Cardinality({a}) + 1
  BY <1>1, FS_AddElement
<1>3. Cardinality({a} \cup {b}) <= Cardinality(S)
  BY FS_Subset
<1>4. Cardinality(S) \in Nat
  BY FS_CardinalityType
<1> QED  BY <1>1, <1>2, <1>3, <1>4

LEMMA ReportsInvImpliesGaps == ReportsInv => GapsAreMissing
<1> SUFFICES ASSUME ReportsInv, NEW key \in DOMAIN sessions.by_key,
                    NEW from \in {key.sender, key.target},
                    Cardinality({o \in InDirection(key, from) : seq(message(index, o)) = MaxSeq}) <= 1
             PROVE  LET gaps    == sessions.by_key[key].gaps
                        at      == InDirection(key, from)
                        numbers == {seq(message(index, o)) : o \in at}
                        mine    == {i \in DOMAIN gaps : gaps[i].ordinal_before \in at}
                        within(i) == gaps[i].from_seq + 1 .. gaps[i].to_seq - 1
                    IN /\ UNION {within(i) : i \in mine}
                            = {n \in 0 .. MaxSeq : \E a, b \in numbers : a < n /\ n < b} \ numbers
                       /\ \A i, j \in mine : i # j => within(i) \cap within(j) = {}
                       /\ \A i \in mine :
                            /\ gaps[i].ordinal_after \in at
                            /\ seq(message(index, gaps[i].ordinal_before)) = gaps[i].from_seq
                            /\ seq(message(index, gaps[i].ordinal_after)) = gaps[i].to_seq
  BY DEF GapsAreMissing
<1> DEFINE gaps == sessions.by_key[key].gaps
           D == InDirection(key, from)
           num == Num(index, D)
           mine == {i \in DOMAIN gaps : gaps[i].ordinal_before \in D}
<1>1. index \in Seq(Message) /\ sessions = build(index)
  BY IndexIs DEF ReportsInv, AppendEqualsBuild, index
<1>2. MapFits(sessions, index, Len(index)) /\ gaps = GapsOf(index, key, sessions.by_key[key])
  BY <1>1, BuildFits
<1>3. key \in Key /\ ToSet(sessions.by_key[key].ordinals) = Of(index, key, Len(index))
  BY <1>2 DEF MapFits
<1>4. D = InWay(index, key, from)
  BY DEF InDirection, InWay, Sent, To
<1>5. /\ D \subseteq Nat /\ IsFiniteSet(D) /\ num \in [D -> 0 .. MaxSeq]
      /\ \A o \in D : num[o] = seq(message(index, o))
  <2> HIDE DEF D
  <2> QED  BY <1>1, <1>4, InWayIs
<1> HIDE DEF num
<1>6. OneLast(D, num)
  <2> DEFINE L == {o \in D : seq(message(index, o)) = MaxSeq}
  <2>1. L \subseteq D /\ Cardinality(L) <= 1
    OBVIOUS
  <2> HIDE DEF L, D
  <2>2. \A a, b \in L : a = b
    BY <1>5, <2>1, FS_Subset, AtMostOne
  <2> QED  BY <1>5, <2>2 DEF OneLast, L
<1>7. mine = {i \in DOMAIN gaps : gaps[i].ordinal_before \in D}
  OBVIOUS
<1> HIDE DEF D, gaps, mine
<1>8. Fills(gaps, mine, D, num) /\ \A i \in mine : Names(gaps[i], D, num)
  BY <1>1, <1>2, <1>3, <1>4, <1>6, <1>7, KeyGaps DEF num
<1>9. {num[o] : o \in D} = {seq(message(index, o)) : o \in D}
  BY <1>5
<1>10. \A i \in mine : Within(gaps[i]) = gaps[i].from_seq + 1 .. gaps[i].to_seq - 1
  BY DEF Within
<1>11. UNION {gaps[i].from_seq + 1 .. gaps[i].to_seq - 1 : i \in mine}
         = Missing({seq(message(index, o)) : o \in D})
  BY <1>8, <1>9 DEF Fills, Within
<1>12. \A i, j \in mine : i # j => (gaps[i].from_seq + 1 .. gaps[i].to_seq - 1)
                                     \cap (gaps[j].from_seq + 1 .. gaps[j].to_seq - 1) = {}
  BY <1>8 DEF Fills, Within
<1>13. \A i \in mine : /\ gaps[i].ordinal_after \in D
                       /\ seq(message(index, gaps[i].ordinal_before)) = gaps[i].from_seq
                       /\ seq(message(index, gaps[i].ordinal_after)) = gaps[i].to_seq
  BY <1>5, <1>8 DEF Names
<1> QED  BY <1>11, <1>12, <1>13 DEF Missing, D, gaps, mine

(* In each direction of a session the gaps are the numbers that are        *)
(* missing, each in one gap, unless two messages have the greatest u32.    *)
THEOREM MissingAreInGaps == ReportsSpec => []GapsAreMissing
<1>1. QED  BY ReportsInvHolds, ReportsInvImpliesGaps, PTL

-----------------------------------------------------------------------------
(* A set that goes from each of its numbers to the next has all from its    *)
(* first on.                                                               *)
GoesOn(S, a) == \A n \in S : n >= a => n + 1 \in S

HasFrom(S, a) == \A n \in Nat : n >= a => n \in S

LEMMA BySteps ==
  ASSUME NEW S, S \subseteq Nat, NEW a, a \in S, GoesOn(S, a)
  PROVE  HasFrom(S, a)
<1> DEFINE B == {n \in Nat : n >= a /\ n \notin S}
<1>1. ASSUME B # {} PROVE FALSE
  <2>1. PICK n \in B : \A m \in B : n <= m
    <3>1. B \subseteq Nat
      OBVIOUS
    <3> HIDE DEF B
    <3> QED  BY <1>1, <3>1, NatMinimum
  <2>2. n # a /\ n - 1 \in Nat /\ n - 1 >= a /\ n - 1 \notin B
    BY <2>1
  <2>3. n - 1 \in S
    BY <2>2
  <2>4. (n - 1) + 1 \in S
    BY <2>2, <2>3 DEF GoesOn
  <2>5. (n - 1) + 1 = n
    BY <2>1
  <2> QED  BY <2>1, <2>4, <2>5
<1> QED  BY <1>1 DEF HasFrom

(* Quotients and remainders.                                               *)
LEMMA DivMod ==
  ASSUME NEW a \in Int, NEW b \in Nat \ {0}
  PROVE  /\ a \div b \in Int /\ a % b \in 0 .. b - 1
         /\ a = b * (a \div b) + (a % b)
OBVIOUS

(* A quotient is the one number between whose multiples the dividend lies.  *)
LEMMA DivIs ==
  ASSUME NEW a \in Int, NEW b \in Nat \ {0}, NEW q \in Int, b * q <= a, a < b * q + b
  PROVE  a \div b = q
<1> DEFINE p == a \div b
           r == a % b
<1>1. p \in Int /\ r \in 0 .. b - 1 /\ a = b * p + r
  BY DivMod
<1> HIDE DEF p, r
<1>2. b * p - b * q = b * (p - q) /\ p - q \in Int
  BY <1>1
<1>3. b * (p - q) < b /\ b * (p - q) > -b
  BY <1>1, <1>2
<1>4. p - q < 1 /\ p - q > -1
  BY <1>2, <1>3
<1>5. p = q
  BY <1>1, <1>4
<1> QED  BY <1>5 DEF p

-----------------------------------------------------------------------------
(* The leap years up to a year.                                            *)
Leaps(n) == n \div 4 - n \div 100 + n \div 400

LEMMA LeapsStep ==
  ASSUME NEW n \in Nat
  PROVE  Leaps(n + 1) = Leaps(n) + (IF IsLeap(n + 1) THEN 1 ELSE 0)
<1>1. \A b \in {4, 100, 400} :
        (n + 1) \div b = n \div b + (IF (n + 1) % b = 0 THEN 1 ELSE 0)
  OBVIOUS
<1>2. (n + 1) % 100 = 0 => (n + 1) % 4 = 0
  OBVIOUS
<1>3. (n + 1) % 400 = 0 => (n + 1) % 100 = 0
  OBVIOUS
<1>4. /\ n \div 4 \in Int /\ n \div 100 \in Int /\ n \div 400 \in Int
  OBVIOUS
<1> QED  BY <1>1, <1>2, <1>3, <1>4 DEF Leaps, IsLeap

LeapsBefore(y) == Cardinality({k \in 1970 .. y - 1 : IsLeap(k)})

LEMMA LeapsBeforeStep ==
  ASSUME NEW y \in Nat, y >= 1970
  PROVE  /\ LeapsBefore(y) \in Nat
         /\ LeapsBefore(y + 1) = LeapsBefore(y) + (IF IsLeap(y) THEN 1 ELSE 0)
<1> DEFINE S == {k \in 1970 .. y - 1 : IsLeap(k)}
           T == {k \in 1970 .. (y + 1) - 1 : IsLeap(k)}
<1>1. IsFiniteSet(1970 .. y - 1)
  BY FS_Interval
<1>2. IsFiniteSet(S) /\ Cardinality(S) \in Nat
  BY <1>1, FS_Subset, FS_CardinalityType
<1>3. y \notin S
  OBVIOUS
<1>4. CASE IsLeap(y)
  <2>1. T = S \cup {y}
    <3>1. (y + 1) - 1 = y
      OBVIOUS
    <3>2. \A k \in 1970 .. y : k = y \/ k \in 1970 .. y - 1
      OBVIOUS
    <3>3. y \in 1970 .. y /\ \A k \in 1970 .. y - 1 : k \in 1970 .. y
      OBVIOUS
    <3> QED  BY <1>4, <3>1, <3>2, <3>3
  <2> HIDE DEF S, T
  <2>2. Cardinality(T) = Cardinality(S) + 1
    BY <1>2, <1>3, <2>1, FS_AddElement, y \notin S
  <2> QED  BY <1>2, <1>4, <2>2 DEF LeapsBefore, S, T
<1>5. CASE ~ IsLeap(y)
  <2>1. T = S
    <3>1. \A k \in 1970 .. (y + 1) - 1 : k = y \/ k \in 1970 .. y - 1
      OBVIOUS
    <3>2. \A k \in 1970 .. y - 1 : k \in 1970 .. (y + 1) - 1
      OBVIOUS
    <3> QED  BY <1>5, <3>1, <3>2
  <2>2. LeapsBefore(y) = Cardinality(S) /\ LeapsBefore(y + 1) = Cardinality(T)
    BY DEF LeapsBefore
  <2> HIDE DEF S, T
  <2> QED  BY <1>2, <1>5, <2>1, <2>2
<1> QED  BY <1>4, <1>5

LEMMA LeapsBeforeAre == \A y \in Nat : y >= 1970 => LeapsBefore(y) = Leaps(y - 1) - 477
<1> DEFINE Good == {k \in Nat : k >= 1970 => LeapsBefore(k) = Leaps(k - 1) - 477}
<1>1. LeapsBefore(1970) = 0
  <2>1. {k \in 1970 .. 1970 - 1 : IsLeap(k)} = {}
    OBVIOUS
  <2> QED  BY <2>1, FS_EmptySet DEF LeapsBefore
<1>2. Leaps(1969) = 477
  <2>1. 1969 \div 4 = 492 /\ 1969 \div 100 = 19 /\ 1969 \div 400 = 4
    OBVIOUS
  <2> QED  BY <2>1 DEF Leaps
<1>3. \A k \in 0 .. 1970 : k \in Good
  BY <1>1, <1>2
<1>4. ASSUME NEW k \in Nat, k >= 1970, k \in Good PROVE k + 1 \in Good
  <2>1. LeapsBefore(k) = Leaps(k - 1) - 477
    BY <1>4
  <2>2. k - 1 \in Nat /\ (k - 1) + 1 = k /\ (k + 1) - 1 = k /\ Leaps(k - 1) \in Int
    BY <1>4 DEF Leaps
  <2>3. Leaps(k) = Leaps(k - 1) + (IF IsLeap(k) THEN 1 ELSE 0)
    BY <2>2, LeapsStep
  <2>4. LeapsBefore(k + 1) = LeapsBefore(k) + (IF IsLeap(k) THEN 1 ELSE 0)
    BY <1>4, LeapsBeforeStep
  <2>5. LeapsBefore(k + 1) = Leaps((k + 1) - 1) - 477
    BY <2>1, <2>2, <2>3, <2>4
  <2> QED  BY <2>5
<1> DEFINE first == 1970
<1>5. Good \subseteq Nat /\ first \in Good
  BY <1>3
<1>6. GoesOn(Good, first)
  BY <1>4 DEF GoesOn
<1> HIDE DEF Good, first
<1>7. HasFrom(Good, first)
  BY <1>5, <1>6, BySteps
<1> QED  BY <1>7 DEF HasFrom, first, Good

-----------------------------------------------------------------------------
(* Years that begin in March: the number of one in its era, and the days    *)
(* before it.                                                              *)
InEra(yy) ==
  /\ yy \div 400 \in Nat /\ yy - (yy \div 400) * 400 \in 0 .. 399
  /\ (yy \div 400) * 146097 + (yy - (yy \div 400) * 400) * 365
       + (yy - (yy \div 400) * 400) \div 4 - (yy - (yy \div 400) * 400) \div 100
       = 365 * yy + Leaps(yy)

LEMMA EraIs ==
  ASSUME NEW yy \in Nat
  PROVE  InEra(yy)
<1> DEFINE era == yy \div 400
           yoe == yy - era * 400
<1>1. era \in Nat /\ yoe \in 0 .. 399 /\ yy = 400 * era + yoe
  OBVIOUS
<1> HIDE DEF era
<1>2. yy \div 4 = 100 * era + yoe \div 4
  BY <1>1
<1>3. yy \div 100 = 4 * era + yoe \div 100
  BY <1>1
<1>4. yoe \div 4 \in Int /\ yoe \div 100 \in Int
  BY <1>1
<1>5. era * 146097 + yoe * 365 + yoe \div 4 - yoe \div 100 = 365 * yy + yy \div 4 - yy \div 100 + era
  BY <1>1, <1>2, <1>3, <1>4
<1>6. 365 * yy + yy \div 4 - yy \div 100 + era = 365 * yy + Leaps(yy)
  BY <1>1, <1>2, <1>3, <1>4 DEF Leaps, era
<1> QED  BY <1>1, <1>5, <1>6 DEF era, InEra

(* Months counted from March.                                              *)
FromMarch(m) == IF m > 2 THEN m - 3 ELSE m + 9

IsDayOf(m, d, doy) ==
  /\ doy \in 0 .. 365
  /\ (m = 2 /\ d = 29) <=> (doy = 365)
  /\ (5 * doy + 2) \div 153 = FromMarch(m)
  /\ doy - (153 * FromMarch(m) + 2) \div 5 + 1 = d

LEMMA MonthOfDay ==
  ASSUME NEW m \in 1 .. 12, NEW d \in 1 .. 31, m = 2 => d <= 29,
         m \in {4, 6, 9, 11} => d <= 30,
         NEW doy, doy = (153 * FromMarch(m) + 2) \div 5 + d - 1
  PROVE  IsDayOf(m, d, doy)
<1>1. /\ FromMarch(1) = 10 /\ FromMarch(2) = 11 /\ FromMarch(3) = 0 /\ FromMarch(4) = 1
      /\ FromMarch(5) = 2 /\ FromMarch(6) = 3 /\ FromMarch(7) = 4 /\ FromMarch(8) = 5
      /\ FromMarch(9) = 6 /\ FromMarch(10) = 7 /\ FromMarch(11) = 8 /\ FromMarch(12) = 9
  BY DEF FromMarch
<1>2. \/ m = 1 \/ m = 2 \/ m = 3 \/ m = 4 \/ m = 5 \/ m = 6
      \/ m = 7 \/ m = 8 \/ m = 9 \/ m = 10 \/ m = 11 \/ m = 12
  OBVIOUS
<1> QED  BY <1>1, <1>2 DEF IsDayOf

(* The fourth century of an era has a day more.                            *)
LEMMA CenturyOf ==
  ASSUME NEW c \in 0 .. 3, NEW x \in Nat, x <= 36524, x = 36524 => c = 3,
         NEW doe, doe = 36524 * c + x
  PROVE  doe \in Nat /\ doe <= 146096 /\ doe \div 36524 - doe \div 146096 = c
<1>1. CASE x = 36524
  <2>1. c = 3 /\ doe = 146096
    BY <1>1
  <2>2. 146096 \div 36524 = 4 /\ 146096 \div 146096 = 1
    OBVIOUS
  <2> QED  BY <2>1, <2>2
<1>2. CASE x # 36524
  <2>1. x \in Nat /\ x <= 36523
    BY <1>2
  <2>2. c = 0 \/ c = 1 \/ c = 2 \/ c = 3
    OBVIOUS
  <2>3. doe \in Nat /\ doe <= 146095
    BY <2>1, <2>2
  <2>4. doe \div 36524 = c
    BY <2>1, <2>2
  <2>5. doe \div 146096 = 0
    BY <2>3
  <2> QED  BY <2>3, <2>4, <2>5
<1> QED  BY <1>1, <1>2

(* The year of a day in its era: c centuries, q times four years, r years.  *)
IsInYear(c, q, r, doy) ==
  LET doe == 36524 * c + 1461 * q + 365 * r + doy
  IN
  /\ doe \in Nat /\ doe <= 146096
  /\ (doe - doe \div 1460 + doe \div 36524 - doe \div 146096) \div 365 = 100 * c + 4 * q + r

LEMMA YearOfDay ==
  ASSUME NEW c \in 0 .. 3, NEW q \in 0 .. 24, NEW r \in 0 .. 3, NEW doy \in 0 .. 365,
         doy = 365 => r = 3 /\ (q = 24 => c = 3)
  PROVE  IsInYear(c, q, r, doy)
<1> DEFINE doe == 36524 * c + 1461 * q + 365 * r + doy
           w == 365 * r + doy
           e == IF 24 * c + q + w >= 1460 THEN 1 ELSE 0
<1>1. /\ w \in Nat /\ w <= 1460
      /\ w = 1460 => doy = 365
  OBVIOUS
<1> DEFINE x == 1461 * q + w
<1>2. /\ x \in Nat /\ x <= 36524
      /\ x = 36524 => q = 24 /\ w = 1460
  <2> HIDE DEF w
  <2> QED  BY <1>1
<1>3. x = 36524 => c = 3
  BY <1>1, <1>2
<1>4. doe = 36524 * c + x /\ doe \in Int
  OBVIOUS
<1>6. doe \in Nat /\ doe <= 146096 /\ doe \div 36524 - doe \div 146096 = c
  <2> HIDE DEF x
  <2> QED  BY <1>2, <1>3, <1>4, CenturyOf
<1>7. doe \div 1460 = 25 * c + q + e
  <2> DEFINE y == 24 * c + q + w
             a == 25 * c + q
  <2>1. y \in Nat /\ y <= 1556 /\ a \in Int
    BY <1>1
  <2>2. doe = 1460 * a + y
    BY <1>4
  <2>3. e = (IF y >= 1460 THEN 1 ELSE 0)
    OBVIOUS
  <2> HIDE DEF y, a, e
  <2>4. doe \div 1460 = a + e
    BY <2>1, <2>2, <2>3
  <2> QED  BY <2>4 DEF a
<1>5. w - e \in 365 * r .. 365 * r + 364
  OBVIOUS
<1>8. doe - doe \div 1460 + doe \div 36524 - doe \div 146096 = 365 * (100 * c + 4 * q) + (w - e)
  BY <1>1, <1>4, <1>6, <1>7
<1>9. (365 * (100 * c + 4 * q) + (w - e)) \div 365 = 100 * c + 4 * q + r
  <2> DEFINE z == w - e
             b == 100 * c + 4 * q
  <2>1. z \in 365 * r .. 365 * r + 364 /\ b \in Int
    BY <1>5
  <2> HIDE DEF z, b
  <2>2. (365 * b + z) \div 365 = b + r
    BY <2>1
  <2> QED  BY <2>2 DEF z, b
<1> QED  BY <1>6, <1>8, <1>9 DEF IsInYear

-----------------------------------------------------------------------------
(* The number of a day.                                                    *)
YearStart(y) == 365 * (y - 1970) + LeapsBefore(y)

MonthStart(y, m) == MonthStarts[m] + (IF m > 2 /\ IsLeap(y) THEN 1 ELSE 0)

LEMMA MonthStartIs ==
  ASSUME NEW m \in 1 .. 12
  PROVE  /\ MonthStarts[m] \in Nat /\ FromMarch(m) \in Nat
         /\ (153 * FromMarch(m) + 2) \div 5 = MonthStarts[m] + (IF m > 2 THEN -59 ELSE 306)
<1>1. /\ FromMarch(1) = 10 /\ FromMarch(2) = 11 /\ FromMarch(3) = 0 /\ FromMarch(4) = 1
      /\ FromMarch(5) = 2 /\ FromMarch(6) = 3 /\ FromMarch(7) = 4 /\ FromMarch(8) = 5
      /\ FromMarch(9) = 6 /\ FromMarch(10) = 7 /\ FromMarch(11) = 8 /\ FromMarch(12) = 9
  BY DEF FromMarch
<1>2. /\ MonthStarts[1] = 0 /\ MonthStarts[2] = 31 /\ MonthStarts[3] = 59
      /\ MonthStarts[4] = 90 /\ MonthStarts[5] = 120 /\ MonthStarts[6] = 151
      /\ MonthStarts[7] = 181 /\ MonthStarts[8] = 212 /\ MonthStarts[9] = 243
      /\ MonthStarts[10] = 273 /\ MonthStarts[11] = 304 /\ MonthStarts[12] = 334
  BY DEF MonthStarts
<1>3. \/ m = 1 \/ m = 2 \/ m = 3 \/ m = 4 \/ m = 5 \/ m = 6
      \/ m = 7 \/ m = 8 \/ m = 9 \/ m = 10 \/ m = 11 \/ m = 12
  OBVIOUS
<1> QED  BY <1>1, <1>2, <1>3

MarchYear(y, m) == IF m <= 2 THEN y - 1 ELSE y

MarchDay(m, d) == (153 * FromMarch(m) + 2) \div 5 + d - 1

IsNumbered(y, m, d) ==
  /\ days_from_civil(y, m, d) = YearStart(y) + MonthStart(y, m) + d - 1
  /\ days_from_civil(y, m, d) \in Nat
  /\ MarchYear(y, m) \in Nat /\ MarchDay(m, d) \in Nat
  /\ days_from_civil(y, m, d) + 719468
       = 365 * MarchYear(y, m) + Leaps(MarchYear(y, m)) + MarchDay(m, d)

LEMMA DayNumber ==
  ASSUME NEW y \in Nat, y >= 1970, NEW m \in 1 .. 12, NEW d \in 1 .. 31
  PROVE  IsNumbered(y, m, d)
<1> DEFINE yy   == MarchYear(y, m)
           era  == yy \div 400
           yoe  == yy - era * 400
           doy  == MarchDay(m, d)
           n    == era * 146097 + yoe * 365 + yoe \div 4 - yoe \div 100
           days == n + doy - 719468
           leap == IF IsLeap(y) THEN 1 ELSE 0
<1>1. /\ LeapsBefore(y) = Leaps(y - 1) - 477 /\ LeapsBefore(y) \in Nat
      /\ Leaps(y) = Leaps(y - 1) + leap /\ Leaps(y - 1) \in Int /\ Leaps(y) \in Int
  <2>1. y - 1 \in Nat /\ (y - 1) + 1 = y
    OBVIOUS
  <2>2. Leaps(y - 1) \in Int /\ Leaps(y) \in Int
    BY DEF Leaps
  <2>3. Leaps(y) = Leaps(y - 1) + leap
    BY <2>1, LeapsStep
  <2> QED  BY <2>2, <2>3, LeapsBeforeAre, LeapsBeforeStep
<1>2. yy \in Nat
  BY DEF MarchYear
<1>3. n = 365 * yy + Leaps(yy) /\ Leaps(yy) \in Int
  BY <1>2, EraIs DEF InEra, Leaps
<1>4. doy = MonthStarts[m] + (IF m > 2 THEN -59 ELSE 306) + d - 1 /\ doy \in Nat
      /\ MonthStarts[m] \in Nat
  <2>1. (153 * FromMarch(m) + 2) \div 5 \in Nat
    BY MonthStartIs
  <2> QED  BY <2>1, MonthStartIs DEF MarchDay
<1>5. days = YearStart(y) + MonthStart(y, m) + d - 1
  <2> HIDE DEF n, doy
  <2>1. CASE m > 2
    <3>1. yy = y /\ MonthStart(y, m) = MonthStarts[m] + leap
      BY <2>1 DEF MarchYear, MonthStart
    <3> QED  BY <1>1, <1>3, <1>4, <2>1, <3>1 DEF YearStart
  <2>2. CASE ~ (m > 2)
    <3>1. yy = y - 1 /\ MonthStart(y, m) = MonthStarts[m]
      BY <1>4, <2>2 DEF MarchYear, MonthStart
    <3> QED  BY <1>1, <1>3, <1>4, <2>2, <3>1 DEF YearStart
  <2> QED  BY <2>1, <2>2
<1>6. YearStart(y) + MonthStart(y, m) + d - 1 \in Nat
  BY <1>1, <1>4 DEF YearStart, MonthStart
<1>7. days_from_civil(y, m, d) = days
  <2>1. ~ (days < 0)
    <3> HIDE DEF days
    <3> QED  BY <1>5, <1>6
  <2> QED  BY <2>1 DEF days_from_civil, MarchYear, MarchDay, FromMarch
<1>8. days + 719468 = 365 * yy + Leaps(yy) + doy
  <2> HIDE DEF n, doy
  <2> QED  BY <1>2, <1>3, <1>4
<1> QED
  <2> HIDE DEF n, doy, days, yy
  <2> QED  BY <1>2, <1>4, <1>5, <1>6, <1>7, <1>8 DEF IsNumbered, doy, yy

(* A day of a year that begins in March: where it is in its era, and back.   *)
IsEraDay(x, yy, doy) ==
  LET era  == x \div 146097
      doe  == x - era * 146097
      yoe  == (doe - doe \div 1460 + doe \div 36524 - doe \div 146096) \div 365
  IN /\ yoe + era * 400 = yy
     /\ doe - (365 * yoe + yoe \div 4 - yoe \div 100) = doy

LEMMA EraDay ==
  ASSUME NEW yy \in Nat, NEW doy \in 0 .. 365, NEW x \in Nat, doy = 365 => IsLeap(yy + 1),
         x = 365 * yy + Leaps(yy) + doy
  PROVE  IsEraDay(x, yy, doy)
<1> DEFINE era == yy \div 400
           yoe == yy - era * 400
           c   == yoe \div 100
           q   == (yoe - 100 * c) \div 4
           r   == yoe - 100 * c - 4 * q
           doe == 36524 * c + 1461 * q + 365 * r + doy
<1>4. /\ era \in Nat /\ yoe \in 0 .. 399 /\ yy = 400 * era + yoe
      /\ era * 146097 + yoe * 365 + yoe \div 4 - yoe \div 100 = 365 * yy + Leaps(yy)
  <2>1. InEra(yy)
    BY EraIs
  <2>2. /\ era \in Nat /\ yoe \in 0 .. 399
        /\ era * 146097 + yoe * 365 + yoe \div 4 - yoe \div 100 = 365 * yy + Leaps(yy)
    BY SMT, <2>1 DEF InEra
  <2> QED  BY SMT, <2>2
<1>5. /\ c \in 0 .. 3 /\ q \in 0 .. 24 /\ r \in 0 .. 3 /\ yoe = 100 * c + 4 * q + r
      /\ yoe \div 4 = 25 * c + q
  <2> HIDE DEF yoe
  <2> QED  BY SMT, <1>4
<1>6. doy = 365 => r = 3 /\ (q = 24 => c = 3)
  <2> SUFFICES ASSUME doy = 365 PROVE r = 3 /\ (q = 24 => c = 3)
    BY SMT
  <2>1. (yoe + 1) % 4 = 0 /\ ((yoe + 1) % 100 # 0 \/ (yoe + 1) % 400 = 0)
    <3>1. /\ (yy + 1) % 4 = (yoe + 1) % 4 /\ (yy + 1) % 100 = (yoe + 1) % 100
          /\ (yy + 1) % 400 = (yoe + 1) % 400
      <4> HIDE DEF era, yoe
      <4> QED  BY SMT, <1>4
    <3> QED  BY SMT, <3>1 DEF IsLeap
  <2>4. yoe + 1 = 100 * c + 4 * q + (r + 1)
    BY SMT, <1>4, <1>5
  <2>5. (yoe + 1) % 4 = (r + 1) % 4
    <3> HIDE DEF yoe, c, q, r
    <3> QED  BY SMT, <1>5, <2>4
  <2>6. r = 3
    <3> HIDE DEF yoe, c, q, r
    <3> QED  BY SMT, <1>5, <2>1, <2>5
  <2>7. ASSUME q = 24 PROVE c = 3
    <3>1. yoe + 1 = 100 * c + 100
      <4> HIDE DEF yoe, c, q, r
      <4> QED  BY SMT, <1>5, <2>4, <2>6, <2>7
    <3>2. (yoe + 1) % 100 = 0
      <4> HIDE DEF yoe, c, q, r
      <4> QED  BY SMT, <1>5, <3>1
    <3>3. (yoe + 1) % 400 = 0
      BY SMT, <2>1, <3>2
    <3> HIDE DEF yoe, c, q, r
    <3>4. c = 0 \/ c = 1 \/ c = 2 \/ c = 3
      BY SMT, <1>5
    <3>5. 100 % 400 = 100 /\ 200 % 400 = 200 /\ 300 % 400 = 300
      BY SMT
    <3> QED  BY SMT, <3>1, <3>3, <3>4, <3>5
  <2> QED  BY SMT, <2>6, <2>7
<1>7. /\ doe \in Nat /\ doe <= 146096
      /\ (doe - doe \div 1460 + doe \div 36524 - doe \div 146096) \div 365 = yoe
  <2> HIDE DEF yoe, c, q, r
  <2>1. doe = 36524 * c + 1461 * q + 365 * r + doy
    BY SMT
  <2> HIDE DEF doe
  <2>3. IsInYear(c, q, r, doy)
    <3> HIDE DEF c, q, r
    <3>1. c \in 0 .. 3 /\ q \in 0 .. 24 /\ r \in 0 .. 3
      BY <1>5
    <3>2. doy = 365 => (r = 3 /\ (q = 24 => c = 3))
      BY <1>6
    <3> QED  BY Zenon, <3>1, <3>2, YearOfDay
  <2> QED  BY SMT, <1>5, <2>1, <2>3 DEF IsInYear
<1>8. doe = yoe * 365 + yoe \div 4 - yoe \div 100 + doy
  <2> HIDE DEF yoe, q, r
  <2>1. yoe \div 100 = c
    BY SMT
  <2> HIDE DEF c
  <2> QED  BY SMT, <1>5, <2>1
<1>9. x = era * 146097 + doe
  <2> HIDE DEF era, yoe, doe
  <2>1. yoe \div 4 \in Int /\ yoe \div 100 \in Int
    BY SMT, <1>4
  <2> QED  BY SMT, <1>4, <1>8, <2>1
<1>10. x \div 146097 = era
  <2> HIDE DEF era, doe
  <2>1. doe < 146097 /\ era \in Int /\ x = 146097 * era + doe
    BY SMT, <1>4, <1>7, <1>9
  <2> QED  BY SMT, <1>7, <2>1
<1> HIDE DEF era, doe
<1>11. x - era * 146097 = doe
  BY SMT, <1>4, <1>7, <1>9
<1>12. doe - (365 * yoe + yoe \div 4 - yoe \div 100) = doy
  <2> HIDE DEF yoe
  <2>1. yoe \div 4 \in Int /\ yoe \div 100 \in Int
    BY SMT, <1>4
  <2> QED  BY SMT, <1>4, <1>8, <2>1
<1> DEFINE era2 == x \div 146097
           doe2 == x - era2 * 146097
           yoe2 == (doe2 - doe2 \div 1460 + doe2 \div 36524 - doe2 \div 146096) \div 365
<1> HIDE DEF yoe
<1>13. era2 = era
  BY SMT, <1>10
<1>14. doe2 = doe
  <2> HIDE DEF era2
  <2> QED  BY SMT, <1>11, <1>13
<1>15. yoe2 = yoe
  <2> HIDE DEF doe2
  <2> QED  BY SMT, <1>7, <1>14
<1>16. /\ yoe2 + era2 * 400 = yy
       /\ doe2 - (365 * yoe2 + yoe2 \div 4 - yoe2 \div 100) = doy
  <2> HIDE DEF era2, doe2, yoe2
  <2> QED  BY SMT, <1>4, <1>12, <1>13, <1>14, <1>15
<1> QED  BY <1>16 DEF IsEraDay

(* The day of a number: the way back.                                      *)
LEMMA CivilInverse ==
  ASSUME NEW y \in Nat, NEW m \in 1 .. 12, NEW d \in 1 .. DaysIn(y, m)
  PROVE  y >= 1970 => civil_from_days(days_from_civil(y, m, d))
                        = [year |-> y, month |-> m, day |-> d]
<1>0. SUFFICES ASSUME y >= 1970
               PROVE  civil_from_days(days_from_civil(y, m, d))
                        = [year |-> y, month |-> m, day |-> d]
  OBVIOUS
<1> DEFINE yy  == MarchYear(y, m)
           doy == MarchDay(m, d)
           z   == days_from_civil(y, m, d)
<1>1. d \in 1 .. 31 /\ (m = 2 => d <= 29) /\ (m \in {4, 6, 9, 11} => d <= 30)
      /\ (m = 2 /\ d = 29 => IsLeap(y))
  BY SMT DEF DaysIn
<1>2. /\ doy \in 0 .. 365 /\ (m = 2 /\ d = 29 <=> doy = 365)
      /\ (5 * doy + 2) \div 153 = FromMarch(m)
      /\ doy - (153 * FromMarch(m) + 2) \div 5 + 1 = d
  <2>1. doy = (153 * FromMarch(m) + 2) \div 5 + d - 1
    BY SMT DEF MarchDay
  <2> HIDE DEF doy
  <2>2. IsDayOf(m, d, doy)
    BY SMT, <1>1, <2>1, MonthOfDay
  <2> QED  BY SMT, <2>2 DEF IsDayOf
<1>3. yy \in Nat /\ z \in Nat /\ z + 719468 = 365 * yy + Leaps(yy) + doy
  <2>1. d \in 1 .. 31
    BY SMT, <1>1
  <2>2. IsNumbered(y, m, d)
    BY SMT, <1>0, <2>1, DayNumber
  <2> QED  BY SMT, <2>2 DEF IsNumbered
<1> DEFINE x == z + 719468
<1>4. IsEraDay(x, yy, doy)
  <2>1. doy = 365 => IsLeap(yy + 1)
    BY SMT, <1>1, <1>2 DEF MarchYear
  <2>2. x \in Nat
    BY SMT, <1>3
  <2>3. yy \in Nat /\ doy \in 0 .. 365 /\ x = 365 * yy + Leaps(yy) + doy
    BY SMT, <1>2, <1>3
  <2> HIDE DEF x, yy, doy, z
  <2> QED  BY <2>1, <2>2, <2>3, EraDay
<1>5. /\ (IF FromMarch(m) < 10 THEN FromMarch(m) + 3 ELSE FromMarch(m) - 9) = m
      /\ y = yy + (IF m <= 2 THEN 1 ELSE 0)
  BY SMT DEF FromMarch, MarchYear
<1> HIDE DEF yy, doy, z
<1>6. civil_from_days(z) = [year |-> y, month |-> m, day |-> d]
  <2> DEFINE era == x \div 146097
             doe == x - era * 146097
             yoe == (doe - doe \div 1460 + doe \div 36524 - doe \div 146096) \div 365
             dy  == doe - (365 * yoe + yoe \div 4 - yoe \div 100)
             mp  == (5 * dy + 2) \div 153
  <2>1. yoe + era * 400 = yy /\ dy = doy
    BY <1>4 DEF IsEraDay
  <2>2. civil_from_days(z)
          = [year |-> yoe + era * 400 + IF (IF mp < 10 THEN mp + 3 ELSE mp - 9) <= 2 THEN 1 ELSE 0,
             month |-> IF mp < 10 THEN mp + 3 ELSE mp - 9,
             day |-> dy - (153 * mp + 2) \div 5 + 1]
    BY SMT DEF civil_from_days
  <2> HIDE DEF era, yoe, dy
  <2>3. mp = FromMarch(m)
    BY SMT, <1>2, <2>1
  <2> HIDE DEF mp
  <2> QED  BY SMT, <1>2, <1>5, <2>1, <2>2, <2>3
<1> QED  BY SMT, <1>6 DEF z
-----------------------------------------------------------------------------
(* A time of the calendar, as it is parsed.                                *)
SecondOf(t) == t.hour * 3600 + t.minute * 60 + t.second

LEMMA TextFields ==
  ASSUME NEW t \in Text
  PROVE  /\ t.year \in Nat /\ t.month \in Nat /\ t.day \in Nat /\ t.hour \in Nat
         /\ t.minute \in Nat /\ t.second \in Nat /\ t.frac \in Seq(0 .. 9)
BY DEF Text

IsDated(t) ==
  /\ days_from_civil(t.year, t.month, t.day) = DaysBefore(t)
  /\ DaysBefore(t) = YearStart(t.year) + MonthStart(t.year, t.month) + t.day - 1
  /\ DaysBefore(t) \in Nat

LEMMA DateIs ==
  ASSUME NEW t \in Text, Exists(t)
  PROVE  IsDated(t)
<1> DEFINE y == t.year
           m == t.month
           d == t.day
<1>1. y \in Nat /\ y >= 1970 /\ m \in 1 .. 12 /\ d \in 1 .. DaysIn(y, m)
  BY SMT, TextFields DEF Exists
<1>2. d \in 1 .. 31
  BY SMT, <1>1 DEF DaysIn
<1>3. DaysBefore(t) = YearStart(y) + MonthStart(y, m) + d - 1
  <2>1. MonthStarts[m] \in Nat
    BY <1>1, MonthStartIs
  <2>2. LeapsBefore(y) \in Nat
    BY <1>1, LeapsBeforeStep
  <2>3. DaysBefore(t) = 365 * (y - 1970) + LeapsBefore(y) + MonthStarts[m]
                          + (IF m > 2 /\ IsLeap(y) THEN 1 ELSE 0) + d - 1
    BY SMT DEF DaysBefore, LeapsBefore
  <2> HIDE DEF y, m, d
  <2> QED  BY SMT, <1>1, <2>1, <2>2, <2>3 DEF YearStart, MonthStart
<1> HIDE DEF y, m, d
<1>4. IsNumbered(y, m, d)
  BY SMT, <1>1, <1>2, DayNumber
<1> QED  BY SMT, <1>3, <1>4 DEF IsNumbered, IsDated, y, m, d

IsParsed(t) ==
  /\ parse_sending_time(t) = [day    |-> DaysBefore(t) + SecondOf(t) \div 86400,
                              second |-> SecondOf(t) % 86400, nanos |-> nanos(t.frac)]
  /\ DaysBefore(t) \in Nat

LEMMA ParsedIs ==
  ASSUME NEW t \in Text, Exists(t)
  PROVE  IsParsed(t)
<1>1. IsDated(t)
  BY DateIs
<1>2. Len(t.frac) <= FracDigits /\ t # None
  BY DEF Exists
<1>3. DaysBefore(t) # None
  BY <1>1, ReportsAssumption DEF IsDated
<1>4. days_from_civil(t.year, t.month, t.day) = DaysBefore(t) /\ DaysBefore(t) \in Nat
  BY <1>1 DEF IsDated
<1>5. ~ (Len(t.frac) > FracDigits)
  BY <1>2, TextFields, CalendarAssumption
<1> QED  BY SMT, <1>2, <1>3, <1>4, <1>5 DEF IsParsed, parse_sending_time, SecondOf

(* No minute but one that a leap second ends has more than 60 seconds.      *)
LEMMA SecondIs ==
  ASSUME NEW t \in Text, Exists(t)
  PROVE  /\ t.hour \in 0 .. 23 /\ t.minute \in 0 .. 59 /\ t.second \in 0 .. 60
         /\ SecondOf(t) \in Nat /\ SecondOf(t) <= 86400
         /\ (SecondOf(t) = 86400) <=> (t.second = 60)
<1>1. /\ t.hour \in Nat /\ t.minute \in Nat /\ t.second \in Nat
  BY TextFields
<1>2. /\ t.hour < 24 /\ t.minute < 60
      /\ t.second < 60 \/ (t.second = 60 /\ t.hour = 23 /\ t.minute = 59)
  BY DEF Exists
<1> QED  BY SMT, <1>1, <1>2 DEF SecondOf

IsClock(h, mi, s) ==
  LET n == h * 3600 + mi * 60 + s
  IN /\ n \div 86400 = 0 /\ n % 86400 = n /\ n \in Nat
     /\ n \div 3600 = h /\ (n % 3600) \div 60 = mi /\ n % 60 = s

LEMMA ClockIs ==
  ASSUME NEW h \in 0 .. 23, NEW mi \in 0 .. 59, NEW s \in 0 .. 59
  PROVE  IsClock(h, mi, s)
<1> DEFINE n == h * 3600 + mi * 60 + s
           a == mi * 60 + s
<1>1. a \in 0 .. 3599 /\ n = 3600 * h + a
  OBVIOUS
<1>2. n \div 3600 = h /\ n % 3600 = a
  <2> HIDE DEF n, a
  <2> QED  BY SMT, <1>1
<1>3. a \div 60 = mi
  OBVIOUS
<1>4. n % 60 = s
  <2>1. n = 60 * (h * 60 + mi) + s
    OBVIOUS
  <2> DEFINE b == h * 60 + mi
  <2>2. b \in Int
    OBVIOUS
  <2> HIDE DEF b
  <2> QED  BY SMT, <2>1, <2>2 DEF b
<1>5. n \in Nat /\ n < 86400
  BY SMT
<1>6. n \div 86400 = 0 /\ n % 86400 = n
  BY SMT, <1>5
<1> QED  BY <1>2, <1>3, <1>4, <1>5, <1>6 DEF IsClock

LEMMA TextOfMessage ==
  ASSUME NEW msg
  PROVE  time_text(msg) \in Text \cup {None}
BY CalendarAssumption DEF time_text

(* The day of a time is that of the calendar, and a time is shown as it is  *)
(* written: util.rs, its days_from_civil and civil_from_days, and the       *)
(* numbers that view/orders.rs shows.                                       *)
THEOREM TimesAreKept == ReportsSpec => []TimesRoundTrip
<1>1. ASSUME NEW t \in Text, Exists(t), t.second < 60
      PROVE  /\ parse_sending_time(t).day = DaysBefore(t)
             /\ format_time(parse_sending_time(t)) = numerals(t)
  <2> DEFINE n == SecondOf(t)
             at == parse_sending_time(t)
  <2>1. /\ t.hour \in 0 .. 23 /\ t.minute \in 0 .. 59 /\ t.second \in 0 .. 59
    BY SMT, <1>1, SecondIs
  <2>2. n = t.hour * 3600 + t.minute * 60 + t.second
    BY DEF SecondOf
  <2>3. /\ n \div 86400 = 0 /\ n % 86400 = n /\ n \in Nat
        /\ n \div 3600 = t.hour /\ (n % 3600) \div 60 = t.minute /\ n % 60 = t.second
    <3> HIDE DEF n
    <3>1. IsClock(t.hour, t.minute, t.second)
      BY Zenon, <2>1, ClockIs
    <3> QED  BY SMT, <2>2, <3>1 DEF IsClock
  <2>4. at = [day |-> DaysBefore(t), second |-> n, nanos |-> nanos(t.frac)]
    <3> HIDE DEF n
    <3>1. IsParsed(t)
      BY <1>1, ParsedIs
    <3> QED  BY SMT, <2>3, <3>1 DEF IsParsed, n
  <2>5. civil_from_days(DaysBefore(t)) = [year |-> t.year, month |-> t.month, day |-> t.day]
    <3>1. days_from_civil(t.year, t.month, t.day) = DaysBefore(t)
      BY <1>1, DateIs DEF IsDated
    <3>2. t.year \in Nat /\ t.year >= 1970 /\ t.month \in 1 .. 12 /\ t.day \in 1 .. DaysIn(t.year, t.month)
      BY SMT, <1>1, TextFields DEF Exists
    <3> QED  BY SMT, <3>1, <3>2, CivilInverse
  <2> HIDE DEF n, at
  <2>6. /\ at.day = DaysBefore(t) /\ at.second = n
    BY <2>4
  <2>7. format_time(at) = numerals(t)
    BY SMT, <2>3, <2>5, <2>6 DEF format_time, numerals
  <2> QED  BY <2>6, <2>7 DEF at
<1>2. TimesRoundTrip
  <2> SUFFICES ASSUME NEW o \in OrdinalsOf(index),
                      Exists(time_text(message(index, o))), time_text(message(index, o)).second < 60
               PROVE  /\ sending_time(message(index, o)).day = DaysBefore(time_text(message(index, o)))
                      /\ format_time(sending_time(message(index, o)))
                           = numerals(time_text(message(index, o)))
    BY DEF TimesRoundTrip
  <2>1. time_text(message(index, o)) \in Text
    BY TextOfMessage DEF Exists
  <2> QED  BY <1>1, <2>1 DEF sending_time
<1> QED  BY <1>2, PTL

-----------------------------------------------------------------------------
(* The digits of a fraction: a number that grows tenfold and by a digit.    *)
IsTens(f, z, d, to) ==
  f = [k \in 0 .. to |-> IF k = 0 THEN z ELSE 10 * f[k - 1] + d[k]]

LEMMA TensExist ==
  ASSUME NEW z, NEW d, NEW to \in Nat
  PROVE  \E f : IsTens(f, z, d, to)
<1> DEFINE B == {n \in 0 .. to : ~ \E f : IsTens(f, z, d, n)}
<1>1. ASSUME B # {} PROVE FALSE
  <2>1. PICK n \in B : \A m \in B : n <= m
    <3>1. B \subseteq Nat
      OBVIOUS
    <3> HIDE DEF B
    <3> QED  BY <1>1, <3>1, NatMinimum
  <2>2. CASE n = 0
    <3> DEFINE f == [m \in 0 .. 0 |-> z]
    <3>1. f = [m \in 0 .. 0 |-> IF m = 0 THEN z ELSE 10 * f[m - 1] + d[m]]
      OBVIOUS
    <3>2. IsTens(f, z, d, 0)
      <4> HIDE DEF f
      <4> QED  BY <3>1 DEF IsTens
    <3> HIDE DEF f
    <3> QED  BY <2>1, <2>2, <3>2
  <2>3. CASE n # 0
    <3>1. n \in 1 .. to /\ n - 1 \in 0 .. to /\ n - 1 \notin B
      BY <2>1, <2>3
    <3>2. PICK f : IsTens(f, z, d, n - 1)
      BY <3>1
    <3> DEFINE g == [m \in 0 .. n |-> IF m = n THEN 10 * f[n - 1] + d[n] ELSE f[m]]
               h == [m \in 0 .. n |-> IF m = 0 THEN z ELSE 10 * g[m - 1] + d[m]]
    <3>3. ASSUME NEW m \in 0 .. n PROVE g[m] = h[m]
      <4>1. CASE m = n
        <5>1. n - 1 \in 0 .. n /\ n - 1 # n
          BY <3>1
        <5>2. g[n - 1] = f[n - 1]
          BY <5>1
        <5>3. g[n] = 10 * f[n - 1] + d[n] /\ n \in 0 .. n
          BY <3>1
        <5>4. h[n] = 10 * g[n - 1] + d[n]
          <6> HIDE DEF g
          <6> QED  BY <2>3, <5>3
        <5> HIDE DEF g, h
        <5> QED  BY <4>1, <5>2, <5>3, <5>4
      <4>2. CASE m # n
        <5>1. m \in 0 .. n - 1
          BY <3>1, <4>2
        <5>2. g[m] = f[m]
          BY <4>2
        <5>3. f[m] = IF m = 0 THEN z ELSE 10 * f[m - 1] + d[m]
          <6> DEFINE k == [j \in 0 .. n - 1 |-> IF j = 0 THEN z ELSE 10 * f[j - 1] + d[j]]
          <6>1. f = k
            BY <3>2 DEF IsTens
          <6>2. k[m] = IF m = 0 THEN z ELSE 10 * f[m - 1] + d[m]
            BY <5>1
          <6> HIDE DEF k
          <6> QED  BY <6>1, <6>2
        <5>4. m # 0 => m - 1 \in 0 .. n /\ m - 1 # n
          BY <5>1
        <5>5. m # 0 => g[m - 1] = f[m - 1]
          BY <5>4
        <5>6. h[m] = IF m = 0 THEN z ELSE 10 * g[m - 1] + d[m]
          <6> HIDE DEF g
          <6> QED  OBVIOUS
        <5> HIDE DEF g, h
        <5> QED  BY <5>2, <5>3, <5>5, <5>6
      <4> QED  BY <4>1, <4>2
    <3>4. g = h
      <4>1. g = [m \in 0 .. n |-> g[m]] /\ h = [m \in 0 .. n |-> h[m]]
        OBVIOUS
      <4> HIDE DEF g, h
      <4> QED  BY <3>3, <4>1
    <3>5. IsTens(g, z, d, n)
      <4> HIDE DEF g
      <4> QED  BY <3>4 DEF IsTens
    <3> HIDE DEF g
    <3> QED  BY <2>1, <3>5
  <2> QED  BY <2>2, <2>3
<1>2. to \notin B
  BY <1>1
<1> QED  BY <1>2

(* Its values, and they are numbers.                                       *)
Grows(f, z, d, to) ==
  /\ f[0] = z
  /\ \A k \in 1 .. to : f[k] = 10 * f[k - 1] + d[k]
  /\ \A k \in 0 .. to : f[k] \in Nat

LEMMA TensGrow ==
  ASSUME NEW z \in Nat, NEW d, NEW to \in Nat, \A k \in 1 .. to : d[k] \in Nat,
         NEW f, IsTens(f, z, d, to)
  PROVE  Grows(f, z, d, to)
<1>1. \A k \in 0 .. to : f[k] = IF k = 0 THEN z ELSE 10 * f[k - 1] + d[k]
  <2> DEFINE g == [k \in 0 .. to |-> IF k = 0 THEN z ELSE 10 * f[k - 1] + d[k]]
  <2>1. f = g
    BY DEF IsTens
  <2>2. \A k \in 0 .. to : g[k] = IF k = 0 THEN z ELSE 10 * f[k - 1] + d[k]
    OBVIOUS
  <2> HIDE DEF g
  <2> QED  BY <2>1, <2>2
<1>2. f[0] = z /\ \A k \in 1 .. to : f[k] = 10 * f[k - 1] + d[k]
  BY <1>1
<1> DEFINE B == {k \in 0 .. to : f[k] \notin Nat}
<1>3. ASSUME B # {} PROVE FALSE
  <2>1. PICK n \in B : \A m \in B : n <= m
    <3>1. B \subseteq Nat
      OBVIOUS
    <3> HIDE DEF B
    <3> QED  BY <1>3, <3>1, NatMinimum
  <2>2. n # 0 /\ n \in 1 .. to
    BY <1>2, <2>1
  <2>3. n - 1 \in 0 .. to /\ n - 1 \notin B
    BY <2>1, <2>2
  <2>4. f[n - 1] \in Nat /\ f[n] = 10 * f[n - 1] + d[n]
    BY <1>2, <2>2, <2>3
  <2> QED  BY <2>1, <2>2, <2>4
<1> QED  BY <1>2, <1>3 DEF Grows

Digit(frac) == [k \in 1 .. FracDigits |-> IF k <= Len(frac) THEN frac[k] ELSE 0]

LEMMA DigitIs ==
  ASSUME NEW frac \in Seq(0 .. 9)
  PROVE  \A k \in 1 .. FracDigits :
           /\ Digit(frac)[k] \in 0 .. 9
           /\ Digit(frac)[k] = IF k <= Len(frac) THEN frac[k] ELSE 0
BY CalendarAssumption DEF Digit

LEMMA NanosIs ==
  ASSUME NEW frac \in Seq(0 .. 9)
  PROVE  \E f : Grows(f, 0, Digit(frac), FracDigits) /\ nanos(frac) = f[FracDigits]
<1> DEFINE is(f) == f = [k \in 0 .. FracDigits |->
                           IF k = 0 THEN 0
                           ELSE 10 * f[k - 1] + (IF k <= Len(frac) THEN frac[k] ELSE 0)]
           n == CHOOSE f : is(f)
<1>1. ASSUME NEW f PROVE IsTens(f, 0, Digit(frac), FracDigits) <=> is(f)
  <2>1. [k \in 0 .. FracDigits |-> IF k = 0 THEN 0 ELSE 10 * f[k - 1] + Digit(frac)[k]]
          = [k \in 0 .. FracDigits |->
               IF k = 0 THEN 0 ELSE 10 * f[k - 1] + (IF k <= Len(frac) THEN frac[k] ELSE 0)]
    <3>1. \A k \in 0 .. FracDigits : k # 0 => Digit(frac)[k] = IF k <= Len(frac) THEN frac[k] ELSE 0
      BY CalendarAssumption, DigitIs
    <3> QED  BY <3>1
  <2> QED  BY <2>1 DEF IsTens
<1>2. FracDigits \in Nat /\ \A k \in 1 .. FracDigits : Digit(frac)[k] \in Nat
  BY CalendarAssumption, DigitIs
<1>3. \E f : IsTens(f, 0, Digit(frac), FracDigits)
  BY <1>2, TensExist
<1>4. is(n)
  <2>1. \E f : is(f)
    BY <1>1, <1>3
  <2> HIDE DEF is
  <2> QED  BY <2>1
<1>5. nanos(frac) = n[FracDigits]
  BY DEF nanos
<1> HIDE DEF n, is
<1>6. IsTens(n, 0, Digit(frac), FracDigits)
  BY <1>1, <1>4
<1>7. Grows(n, 0, Digit(frac), FracDigits)
  BY <1>2, <1>6, TensGrow
<1> QED  BY <1>5, <1>7

(* The first digit that is less decides.                                   *)
LEMMA TensOrder ==
  ASSUME NEW d, NEW e, NEW to \in Nat,
         \A k \in 1 .. to : d[k] \in 0 .. 9 /\ e[k] \in 0 .. 9,
         NEW f, NEW g, Grows(f, 0, d, to), Grows(g, 0, e, to),
         \/ \A k \in 1 .. to : d[k] <= e[k]
         \/ \E i \in 1 .. to : d[i] < e[i] /\ \A j \in 1 .. i - 1 : d[j] = e[j]
  PROVE  f[to] <= g[to]
<1>1. \A k \in 1 .. to : /\ f[k] = 10 * f[k - 1] + d[k] /\ g[k] = 10 * g[k - 1] + e[k]
                         /\ k - 1 \in 0 .. to
  BY DEF Grows
<1>2. f[0] = 0 /\ g[0] = 0 /\ \A k \in 0 .. to : f[k] \in Nat /\ g[k] \in Nat
  BY DEF Grows
<1>3. CASE \A k \in 1 .. to : d[k] <= e[k]
  <2> DEFINE B == {k \in 0 .. to : ~ (f[k] <= g[k])}
  <2>1. ASSUME B # {} PROVE FALSE
    <3>1. PICK n \in B : \A m \in B : n <= m
      <4>1. B \subseteq Nat
        OBVIOUS
      <4> HIDE DEF B
      <4> QED  BY <2>1, <4>1, NatMinimum
    <3>2. n # 0 /\ n \in 1 .. to
      BY <1>2, <3>1
    <3>3. n - 1 \in 0 .. to /\ n - 1 \notin B
      BY <3>1, <3>2
    <3>4. f[n - 1] <= g[n - 1] /\ f[n - 1] \in Nat /\ g[n - 1] \in Nat
      BY <1>2, <3>3
    <3>5. f[n] <= g[n]
      BY <1>1, <1>3, <3>2, <3>4
    <3> QED  BY <3>1, <3>5
  <2> QED  BY <2>1
<1>4. ASSUME NEW i \in 1 .. to, d[i] < e[i], \A j \in 1 .. i - 1 : d[j] = e[j]
      PROVE  f[to] <= g[to]
  <2> DEFINE B == {k \in 0 .. i - 1 : f[k] # g[k]}
  <2>1. ASSUME B # {} PROVE FALSE
    <3>1. PICK n \in B : \A m \in B : n <= m
      <4>1. B \subseteq Nat
        OBVIOUS
      <4> HIDE DEF B
      <4> QED  BY <2>1, <4>1, NatMinimum
    <3>2. n # 0 /\ n \in 1 .. i - 1 /\ n \in 1 .. to
      BY <1>2, <3>1
    <3>3. n - 1 \in 0 .. i - 1 /\ n - 1 \notin B
      BY <3>1, <3>2
    <3>4. f[n - 1] = g[n - 1]
      BY <3>3
    <3>5. f[n] = g[n]
      BY <1>1, <1>4, <3>2, <3>4
    <3> QED  BY <3>1, <3>5
  <2>2. f[i - 1] = g[i - 1]
    BY <2>1
  <2>3. f[i] < g[i]
    <3>1. /\ f[i] = 10 * f[i - 1] + d[i] /\ g[i] = 10 * g[i - 1] + e[i]
          /\ f[i - 1] \in Nat /\ d[i] \in 0 .. 9 /\ e[i] \in 0 .. 9
      BY <1>1, <1>2
    <3> QED  BY <1>4, <2>2, <3>1
  <2> DEFINE C == {k \in i .. to : ~ (f[k] < g[k])}
  <2>4. ASSUME C # {} PROVE FALSE
    <3>1. PICK n \in C : \A m \in C : n <= m
      <4>1. C \subseteq Nat
        OBVIOUS
      <4> HIDE DEF C
      <4> QED  BY <2>4, <4>1, NatMinimum
    <3>2. n # i /\ n \in 1 .. to
      BY <2>3, <3>1
    <3>3. n - 1 \in i .. to /\ n - 1 \notin C
      BY <3>1, <3>2
    <3>4. f[n - 1] < g[n - 1] /\ f[n - 1] \in Nat /\ g[n - 1] \in Nat
      BY <1>2, <3>3
    <3>5. d[n] \in 0 .. 9 /\ e[n] \in 0 .. 9 /\ f[n] = 10 * f[n - 1] + d[n] /\ g[n] = 10 * g[n - 1] + e[n]
      BY <1>1, <3>2
    <3>6. f[n] < g[n]
      BY <3>4, <3>5
    <3> QED  BY <3>1, <3>6
  <2>5. f[to] < g[to]
    BY <2>4
  <2> QED  BY <1>2, <2>5
<1> QED  BY <1>3, <1>4

LEMMA NanosOrder ==
  ASSUME NEW a \in Seq(0 .. 9), NEW b \in Seq(0 .. 9), Len(a) <= FracDigits, KeyLess(a, b)
  PROVE  nanos(a) \in Nat /\ nanos(b) \in Nat /\ nanos(a) <= nanos(b)
<1>1. PICK f : Grows(f, 0, Digit(a), FracDigits) /\ nanos(a) = f[FracDigits]
  BY NanosIs
<1>2. PICK g : Grows(g, 0, Digit(b), FracDigits) /\ nanos(b) = g[FracDigits]
  BY NanosIs
<1>3. FracDigits \in Nat
  BY CalendarAssumption
<1>4. nanos(a) \in Nat /\ nanos(b) \in Nat
  BY <1>1, <1>2, <1>3 DEF Grows
<1> DEFINE d == Digit(a)
           e == Digit(b)
<1>5. \A k \in 1 .. FracDigits : /\ d[k] \in 0 .. 9 /\ e[k] \in 0 .. 9
                                 /\ d[k] = IF k <= Len(a) THEN a[k] ELSE 0
                                 /\ e[k] = IF k <= Len(b) THEN b[k] ELSE 0
  BY DigitIs
<1> HIDE DEF d, e
<1>6. CASE IsStrictPrefix(a, b)
  <2>1. Len(a) <= Len(b) /\ \A k \in 1 .. Len(a) : a[k] = b[k]
    <3>1. Len(a) <= Len(b) /\ SubSeq(a, 1, Len(a)) = SubSeq(b, 1, Len(a))
      BY <1>6 DEF IsStrictPrefix, IsPrefix
    <3>2. \A k \in 1 .. Len(a) : SubSeq(a, 1, Len(a))[k] = a[k] /\ SubSeq(b, 1, Len(a))[k] = b[k]
      BY <3>1
    <3> QED  BY <3>1, <3>2
  <2>2. \A k \in 1 .. FracDigits : d[k] <= e[k]
    BY <1>3, <1>5, <2>1
  <2> QED  BY <1>1, <1>2, <1>3, <1>4, <1>5, <2>2, TensOrder DEF d, e
<1>7. CASE \E i \in DOMAIN a \cap DOMAIN b : a[i] < b[i] /\ \A j \in 1 .. i - 1 : a[j] = b[j]
  <2>1. PICK i \in DOMAIN a \cap DOMAIN b : a[i] < b[i] /\ \A j \in 1 .. i - 1 : a[j] = b[j]
    BY <1>7
  <2>2. i \in 1 .. FracDigits /\ i <= Len(a) /\ i <= Len(b)
    BY <1>3, <2>1
  <2>3. d[i] < e[i] /\ \A j \in 1 .. i - 1 : d[j] = e[j]
    BY <1>3, <1>5, <2>1, <2>2
  <2>4. f[FracDigits] <= g[FracDigits]
    BY <1>1, <1>2, <1>3, <1>5, <2>2, <2>3, TensOrder DEF d, e
  <2> QED  BY <1>1, <1>2, <1>4, <2>4
<1> QED  BY <1>6, <1>7 DEF KeyLess
-----------------------------------------------------------------------------
(* Dates in their order have days in their order.                          *)
InMonth(y, m, d) ==
  /\ MonthStart(y, m) \in Nat
  /\ MonthStart(y, m) + d - 1 < 365 + (IF IsLeap(y) THEN 1 ELSE 0)
  /\ \A n \in 1 .. 12 : m < n => MonthStart(y, m) + d - 1 < MonthStart(y, n)

LEMMA MonthEnds ==
  ASSUME NEW y \in Nat, NEW m \in 1 .. 12, NEW d \in 1 .. DaysIn(y, m)
  PROVE  InMonth(y, m, d)
<1> DEFINE leap == IF IsLeap(y) THEN 1 ELSE 0
<1>1. /\ d \in 1 .. 31 /\ (m = 2 => d <= 28 + leap) /\ (m \in {4, 6, 9, 11} => d <= 30)
      /\ leap \in 0 .. 1
  BY SMT DEF DaysIn
<1>2. \A n \in 1 .. 12 : MonthStart(y, n) = MonthStarts[n] + (IF n > 2 THEN leap ELSE 0)
  BY SMT, MonthStartIs DEF MonthStart
<1> HIDE DEF leap
<1>3. /\ MonthStarts[1] = 0 /\ MonthStarts[2] = 31 /\ MonthStarts[3] = 59
      /\ MonthStarts[4] = 90 /\ MonthStarts[5] = 120 /\ MonthStarts[6] = 151
      /\ MonthStarts[7] = 181 /\ MonthStarts[8] = 212 /\ MonthStarts[9] = 243
      /\ MonthStarts[10] = 273 /\ MonthStarts[11] = 304 /\ MonthStarts[12] = 334
  BY DEF MonthStarts
<1>4. \A n \in 1 .. 12 :
        \/ n = 1 \/ n = 2 \/ n = 3 \/ n = 4 \/ n = 5 \/ n = 6
        \/ n = 7 \/ n = 8 \/ n = 9 \/ n = 10 \/ n = 11 \/ n = 12
  OBVIOUS
<1>5. MonthStart(y, m) \in Nat /\ MonthStart(y, m) + d - 1 < 365 + leap
  BY SMT, <1>1, <1>2, <1>3, <1>4
<1>6. ASSUME NEW n \in 1 .. 12, m < n PROVE MonthStart(y, m) + d - 1 < MonthStart(y, n)
  <2>1. MonthStarts[m] + (IF m > 2 THEN leap ELSE 0) + d - 1 < MonthStarts[n] + (IF n > 2 THEN leap ELSE 0)
    BY SMT, <1>1, <1>3, <1>4, <1>6
  <2> QED  BY SMT, <1>2, <2>1
<1> QED  BY <1>5, <1>6 DEF leap, InMonth

LEMMA YearsInOrder ==
  ASSUME NEW y \in Nat, y >= 1970, NEW w \in Nat, y < w
  PROVE  /\ YearStart(y) \in Nat /\ YearStart(w) \in Nat
         /\ YearStart(y) + 365 + (IF IsLeap(y) THEN 1 ELSE 0) <= YearStart(w)
<1>1. LeapsBefore(y) \in Nat /\ LeapsBefore(w) \in Nat
  BY LeapsBeforeStep
<1>2. LeapsBefore(y + 1) = LeapsBefore(y) + (IF IsLeap(y) THEN 1 ELSE 0)
  BY LeapsBeforeStep
<1>3. LeapsBefore(y + 1) <= LeapsBefore(w)
  <2> DEFINE S == {k \in 1970 .. (y + 1) - 1 : IsLeap(k)}
             T == {k \in 1970 .. w - 1 : IsLeap(k)}
  <2>1. S \subseteq T
    <3>1. \A k \in 1970 .. (y + 1) - 1 : k \in 1970 .. w - 1
      OBVIOUS
    <3> QED  BY <3>1
  <2>2. IsFiniteSet(T)
    <3>1. IsFiniteSet(1970 .. w - 1)
      BY FS_Interval
    <3> QED  BY <3>1, FS_Subset
  <2>3. LeapsBefore(y + 1) = Cardinality(S) /\ LeapsBefore(w) = Cardinality(T)
    BY DEF LeapsBefore
  <2> HIDE DEF S, T
  <2> QED  BY <2>1, <2>2, <2>3, FS_Subset
<1> QED  BY SMT, <1>1, <1>2, <1>3 DEF YearStart

DateLess(t, u) ==
  \/ t.year < u.year
  \/ t.year = u.year /\ t.month < u.month
  \/ t.year = u.year /\ t.month = u.month /\ t.day < u.day

LEMMA DatesInOrder ==
  ASSUME NEW t \in Text, NEW u \in Text, Exists(t), Exists(u), DateLess(t, u)
  PROVE  DaysBefore(t) < DaysBefore(u)
<1>1. /\ t.year \in Nat /\ t.year >= 1970 /\ t.month \in 1 .. 12 /\ t.day \in 1 .. DaysIn(t.year, t.month)
      /\ u.year \in Nat /\ u.year >= 1970 /\ u.month \in 1 .. 12 /\ u.day \in 1 .. DaysIn(u.year, u.month)
  BY SMT, TextFields DEF Exists
<1>2. InMonth(t.year, t.month, t.day) /\ InMonth(u.year, u.month, u.day)
  <2>1. /\ t.year \in Nat /\ t.month \in 1 .. 12 /\ t.day \in 1 .. DaysIn(t.year, t.month)
        /\ u.year \in Nat /\ u.month \in 1 .. 12 /\ u.day \in 1 .. DaysIn(u.year, u.month)
    BY <1>1
  <2> QED  BY Zenon, <2>1, MonthEnds
<1>8. /\ DaysBefore(t) = YearStart(t.year) + MonthStart(t.year, t.month) + t.day - 1
      /\ DaysBefore(u) = YearStart(u.year) + MonthStart(u.year, u.month) + u.day - 1
  BY DateIs DEF IsDated
<1>3. /\ MonthStart(t.year, t.month) \in Nat /\ MonthStart(u.year, u.month) \in Nat
      /\ t.day \in Nat /\ u.day \in Nat /\ u.day >= 1
  <2>1. MonthStart(t.year, t.month) \in Nat /\ MonthStart(u.year, u.month) \in Nat
    BY <1>2 DEF InMonth
  <2>2. t.day \in Nat /\ u.day \in Nat /\ u.day >= 1
    BY TextFields DEF Exists
  <2> QED  BY <2>1, <2>2
<1>4. YearStart(t.year) \in Nat /\ YearStart(u.year) \in Nat
  BY SMT, <1>1, LeapsBeforeStep DEF YearStart
<1>5. CASE t.year < u.year
  <2> DEFINE leap == IF IsLeap(t.year) THEN 1 ELSE 0
  <2>1. YearStart(t.year) + 365 + leap <= YearStart(u.year)
    BY <1>1, <1>5, YearsInOrder
  <2>2. MonthStart(t.year, t.month) + t.day - 1 < 365 + leap
    BY <1>2 DEF InMonth
  <2>3. leap \in Int
    OBVIOUS
  <2> HIDE DEF leap
  <2> QED  BY SMT, <1>3, <1>4, <1>8, <2>1, <2>2, <2>3
<1>6. CASE t.year = u.year /\ t.month < u.month
  <2>1. MonthStart(t.year, t.month) + t.day - 1 < MonthStart(t.year, u.month)
    BY <1>1, <1>2, <1>6 DEF InMonth
  <2> QED  BY SMT, <1>3, <1>4, <1>8, <1>6, <2>1
<1>7. CASE t.year = u.year /\ t.month = u.month /\ t.day < u.day
  BY SMT, <1>3, <1>4, <1>8, <1>7
<1> QED  BY <1>5, <1>6, <1>7 DEF DateLess

SameDate(t, u) == t.year = u.year /\ t.month = u.month /\ t.day = u.day

ClockLess(t, u) ==
  \/ t.hour < u.hour
  \/ t.hour = u.hour /\ t.minute < u.minute
  \/ t.hour = u.hour /\ t.minute = u.minute /\ t.second < u.second

SameClock(t, u) == t.hour = u.hour /\ t.minute = u.minute /\ t.second = u.second

LEMMA ClocksInOrder ==
  ASSUME NEW t \in Text, NEW u \in Text, Exists(t), Exists(u), ClockLess(t, u)
  PROVE  SecondOf(t) < SecondOf(u)
<1>1. /\ t.hour \in 0 .. 23 /\ t.minute \in 0 .. 59 /\ t.second \in 0 .. 60
      /\ u.hour \in 0 .. 23 /\ u.minute \in 0 .. 59 /\ u.second \in 0 .. 60
  BY SecondIs
<1>2. t.second < 60 \/ (t.second = 60 /\ t.hour = 23 /\ t.minute = 59)
  BY DEF Exists
<1>3. ClockLess(t, u)
  OBVIOUS
<1> DEFINE h == t.hour
           mi == t.minute
           s == t.second
           k == u.hour
           mj == u.minute
           r == u.second
<1>4. /\ h \in 0 .. 23 /\ mi \in 0 .. 59 /\ s \in 0 .. 60
      /\ k \in 0 .. 23 /\ mj \in 0 .. 59 /\ r \in 0 .. 60
      /\ s < 60 \/ (s = 60 /\ h = 23 /\ mi = 59)
      /\ h < k \/ (h = k /\ mi < mj) \/ (h = k /\ mi = mj /\ s < r)
  BY <1>1, <1>2, <1>3 DEF ClockLess
<1> HIDE DEF h, mi, s, k, mj, r
<1>5. h * 3600 + mi * 60 + s < k * 3600 + mj * 60 + r
  BY SMT, <1>4
<1> QED  BY <1>5 DEF SecondOf, h, mi, s, k, mj, r

IsAppended(p, q) ==
  /\ p \o q \in Seq(Nat) /\ Len(p \o q) = Len(p) + Len(q)
  /\ \A k \in 1 .. Len(p) : (p \o q)[k] = p[k]
  /\ \A k \in 1 .. Len(q) : (p \o q)[Len(p) + k] = q[k]

LEMMA AppendedIs ==
  ASSUME NEW p \in Seq(Nat), NEW q \in Seq(Nat)
  PROVE  IsAppended(p, q)
<1>1. p \o q \in Seq(Nat) /\ Len(p \o q) = Len(p) + Len(q)
  OBVIOUS
<1>2. ASSUME NEW k \in 1 .. Len(p) PROVE (p \o q)[k] = p[k]
  OBVIOUS
<1>3. ASSUME NEW k \in 1 .. Len(q) PROVE (p \o q)[Len(p) + k] = q[k]
  OBVIOUS
<1> QED  BY <1>1, <1>2, <1>3 DEF IsAppended

(* What KeyLess says of two keys.                                          *)
LEMMA KeysInOrder ==
  ASSUME NEW t \in Text, NEW u \in Text, KeyLess(time_key(t), time_key(u))
  PROVE  \/ DateLess(t, u)
         \/ SameDate(t, u) /\ ClockLess(t, u)
         \/ SameDate(t, u) /\ SameClock(t, u) /\ KeyLess(t.frac, u.frac)
<1> DEFINE a == time_key(t)
           b == time_key(u)
<1>1. t.frac \in Seq(0 .. 9) /\ u.frac \in Seq(0 .. 9)
  BY TextFields
<1>2. /\ numerals(t) \in Seq(Nat) /\ Len(numerals(t)) = 6
      /\ numerals(u) \in Seq(Nat) /\ Len(numerals(u)) = 6
  BY TextFields DEF numerals
<1>3. /\ a \in Seq(Nat) /\ Len(a) = 6 + Len(t.frac)
      /\ b \in Seq(Nat) /\ Len(b) = 6 + Len(u.frac)
      /\ \A k \in 1 .. Len(t.frac) : a[6 + k] = t.frac[k]
      /\ \A k \in 1 .. Len(u.frac) : b[6 + k] = u.frac[k]
      /\ \A k \in 1 .. 6 : a[k] = numerals(t)[k] /\ b[k] = numerals(u)[k]
  <2>1. t.frac \in Seq(Nat) /\ u.frac \in Seq(Nat)
    BY <1>1
  <2>2. IsAppended(numerals(t), t.frac) /\ IsAppended(numerals(u), u.frac)
    BY <1>2, <2>1, AppendedIs
  <2>3. /\ a \in Seq(Nat) /\ Len(a) = Len(numerals(t)) + Len(t.frac)
        /\ b \in Seq(Nat) /\ Len(b) = Len(numerals(u)) + Len(u.frac)
        /\ \A k \in 1 .. Len(t.frac) : a[Len(numerals(t)) + k] = t.frac[k]
        /\ \A k \in 1 .. Len(u.frac) : b[Len(numerals(u)) + k] = u.frac[k]
        /\ \A k \in 1 .. Len(numerals(t)) : a[k] = numerals(t)[k]
        /\ \A k \in 1 .. Len(numerals(u)) : b[k] = numerals(u)[k]
    BY <2>2 DEF IsAppended, time_key
  <2> HIDE DEF a, b
  <2> QED  BY <1>2, <2>3
<1>4. /\ a[1] = t.year /\ a[2] = t.month /\ a[3] = t.day /\ a[4] = t.hour /\ a[5] = t.minute /\ a[6] = t.second
      /\ b[1] = u.year /\ b[2] = u.month /\ b[3] = u.day /\ b[4] = u.hour /\ b[5] = u.minute /\ b[6] = u.second
  <2>1. \A k \in 1 .. 6 : a[k] = numerals(t)[k] /\ b[k] = numerals(u)[k]
    BY <1>3
  <2> HIDE DEF a, b
  <2> QED  BY <2>1 DEF numerals
<1>5. KeyLess(a, b)
  OBVIOUS
<1> HIDE DEF a, b
<1>5a. a \in Seq(Nat) /\ b \in Seq(Nat) /\ Len(a) \in Nat /\ Len(b) \in Nat
  <2>1. a \in Seq(Nat)
    BY Zenon, <1>3
  <2>2. b \in Seq(Nat)
    BY Zenon, <1>3
  <2> QED  BY <2>1, <2>2
<1>6. CASE IsStrictPrefix(a, b)
  <2>1. Len(a) <= Len(b) /\ (\A k \in 1 .. Len(a) : a[k] = b[k]) /\ a # b
    <3>1. Len(a) <= Len(b) /\ SubSeq(a, 1, Len(a)) = SubSeq(b, 1, Len(a)) /\ a # b
      BY <1>6 DEF IsStrictPrefix, IsPrefix
    <3>2. \A k \in 1 .. Len(a) : SubSeq(a, 1, Len(a))[k] = a[k] /\ SubSeq(b, 1, Len(a))[k] = b[k]
      <4> DEFINE n == Len(a)
      <4>1. n \in Nat /\ 1 \in Int /\ n - 1 + 1 = n /\ \A k \in 1 .. n : 1 + k - 1 = k
        BY <1>5a
      <4>2. \A k \in 1 .. n : a[k] \in Nat /\ b[k] \in Nat
        <5> SUFFICES ASSUME NEW k \in 1 .. n PROVE a[k] \in Nat /\ b[k] \in Nat
          OBVIOUS
        <5>1. k \in 1 .. Len(a) /\ k \in 1 .. Len(b)
          BY <1>5a, <3>1
        <5> QED  BY <1>5a, <5>1
      <4> HIDE DEF n
      <4>3. /\ \A k \in 1 .. n - 1 + 1 : SubSeq(a, 1, n)[k] = a[1 + k - 1]
            /\ \A k \in 1 .. n - 1 + 1 : SubSeq(b, 1, n)[k] = b[1 + k - 1]
        BY <4>1, <4>2, SubSeqProperties
      <4> QED  BY <4>1, <4>3 DEF n
    <3> QED  BY <3>1, <3>2
  <2>2. SameDate(t, u) /\ SameClock(t, u)
    <3>1. \A k \in 1 .. 6 : a[k] = b[k]
      <4>1. Len(a) = 6 + Len(t.frac) /\ Len(t.frac) \in Nat
        BY <1>1, <1>3
      <4> QED  BY <2>1, <4>1
    <3> QED  BY <1>4, <3>1 DEF SameDate, SameClock
  <2>3. Len(t.frac) <= Len(u.frac) /\ \A k \in 1 .. Len(t.frac) : t.frac[k] = u.frac[k]
    <3>1. Len(t.frac) <= Len(u.frac)
      BY <1>1, <1>3, <2>1
    <3>2. ASSUME NEW k \in 1 .. Len(t.frac) PROVE t.frac[k] = u.frac[k]
      <4>1. /\ Len(t.frac) \in Nat /\ Len(u.frac) \in Nat /\ Len(a) = 6 + Len(t.frac)
            /\ \A j \in 1 .. Len(t.frac) : a[6 + j] = t.frac[j]
            /\ \A j \in 1 .. Len(u.frac) : b[6 + j] = u.frac[j]
        <5>1. Len(t.frac) \in Nat /\ Len(u.frac) \in Nat
          BY <1>1
        <5> QED  BY Zenon, <1>3, <5>1
      <4>2. 6 + k \in 1 .. Len(a) /\ k \in 1 .. Len(u.frac)
        BY <3>1, <4>1
      <4>3. a[6 + k] = b[6 + k]
        BY <2>1, <4>2
      <4> QED  BY <4>1, <4>2, <4>3
    <3> QED  BY <3>1, <3>2
  <2>4. Len(t.frac) # Len(u.frac)
    <3> SUFFICES ASSUME Len(t.frac) = Len(u.frac) PROVE FALSE
      OBVIOUS
    <3>1. a \in Seq(Nat) /\ b \in Seq(Nat) /\ Len(a) = Len(b)
      BY <1>3
    <3>2. a = b
      BY <2>1, <3>1
    <3> QED  BY <2>1, <3>2
  <2>5. IsStrictPrefix(t.frac, u.frac)
    <3>1. SubSeq(t.frac, 1, Len(t.frac)) = SubSeq(u.frac, 1, Len(t.frac))
      BY <1>1, <2>3
    <3> QED  BY <1>1, <2>3, <2>4, <3>1 DEF IsStrictPrefix, IsPrefix
  <2> QED  BY <2>2, <2>5 DEF KeyLess
<1>7. ASSUME NEW i \in DOMAIN a \cap DOMAIN b, a[i] < b[i], \A j \in 1 .. i - 1 : a[j] = b[j]
      PROVE  \/ DateLess(t, u)
             \/ SameDate(t, u) /\ ClockLess(t, u)
             \/ SameDate(t, u) /\ SameClock(t, u) /\ KeyLess(t.frac, u.frac)
  <2>1. i \in Nat /\ i >= 1 /\ i <= 6 + Len(t.frac) /\ i <= 6 + Len(u.frac)
    <3>1. DOMAIN a = 1 .. Len(a) /\ DOMAIN b = 1 .. Len(b)
      <4>1. a \in Seq(Nat) /\ b \in Seq(Nat)
        BY <1>3
      <4> QED  BY <4>1
    <3>2. Len(t.frac) \in Nat /\ Len(u.frac) \in Nat
      BY <1>1
    <3>3. i \in 1 .. Len(a) /\ i \in 1 .. Len(b)
      BY <3>1
    <3>4. Len(a) = 6 + Len(t.frac) /\ Len(b) = 6 + Len(u.frac)
      BY <1>3
    <3> QED  BY <3>2, <3>3, <3>4
  <2>2. CASE i <= 6
    <3>1. i = 1 \/ i = 2 \/ i = 3 \/ i = 4 \/ i = 5 \/ i = 6
      BY <2>1, <2>2
    <3>2. /\ i > 1 => a[1] = b[1]
          /\ i > 2 => a[2] = b[2]
          /\ i > 3 => a[3] = b[3]
          /\ i > 4 => a[4] = b[4]
          /\ i > 5 => a[5] = b[5]
      BY <1>7, <2>1
    <3> QED  BY <1>4, <1>7, <3>1, <3>2 DEF DateLess, SameDate, ClockLess
  <2>3. CASE i > 6
    <3>1. SameDate(t, u) /\ SameClock(t, u)
      <4>1. \A k \in 1 .. 6 : a[k] = b[k]
        BY <1>7, <2>1, <2>3
      <4> QED  BY <1>4, <4>1 DEF SameDate, SameClock
    <3> DEFINE k == i - 6
    <3>2. k \in 1 .. Len(t.frac) /\ k \in 1 .. Len(u.frac) /\ i = 6 + k
      BY <1>1, <2>1, <2>3
    <3>3. t.frac[k] < u.frac[k]
      BY <1>3, <1>7, <3>2
    <3>4. ASSUME NEW j \in 1 .. k - 1 PROVE t.frac[j] = u.frac[j]
      <4>1. 6 + j \in 1 .. i - 1 /\ j \in 1 .. Len(t.frac) /\ j \in 1 .. Len(u.frac)
        BY <1>1, <3>2
      <4> QED  BY <1>3, <1>7, <4>1
    <3>5. k \in DOMAIN t.frac \cap DOMAIN u.frac
      BY <1>1, <3>2
    <3> HIDE DEF k
    <3>6. KeyLess(t.frac, u.frac)
      BY <3>3, <3>4, <3>5 DEF KeyLess
    <3> QED  BY <3>1, <3>6
  <2> QED  BY <2>1, <2>2, <2>3
<1> QED  BY <1>5, <1>6, <1>7 DEF KeyLess

(* The bytes of two times compare as the times do: state.rs sorts the list  *)
(* by them, and they may have fractions of any lengths.                    *)
THEOREM KeysAreInOrder == ReportsSpec => []KeyIsChronological
<1>1. ASSUME NEW t \in Text, NEW u \in Text, Exists(t), Exists(u),
             KeyLess(time_key(t), time_key(u))
      PROVE  NotAfter(parse_sending_time(t), parse_sending_time(u), t.second = 60)
  <2> DEFINE a == parse_sending_time(t)
             b == parse_sending_time(u)
             m == SecondOf(t)
             n == SecondOf(u)
  <2>1. /\ m \in Nat /\ m <= 86400 /\ (m = 86400 <=> t.second = 60)
        /\ n \in Nat /\ n <= 86400
    BY <1>1, SecondIs
  <2>2. DaysBefore(t) \in Nat /\ DaysBefore(u) \in Nat
    BY <1>1, DateIs DEF IsDated
  <2> HIDE DEF m, n
  <2>3. /\ a.day = DaysBefore(t) + m \div 86400 /\ a.second = m % 86400 /\ a.nanos = nanos(t.frac)
        /\ b.day = DaysBefore(u) + n \div 86400 /\ b.second = n % 86400 /\ b.nanos = nanos(u.frac)
    BY SMT, <1>1, ParsedIs DEF IsParsed, m, n
  <2>4. \A k \in Nat : /\ k < 86400 => k \div 86400 = 0 /\ k % 86400 = k
                       /\ k = 86400 => k \div 86400 = 1 /\ k % 86400 = 0
    BY SMT
  <2>5. /\ m < 86400 => a.day = DaysBefore(t) /\ a.second = m
        /\ m = 86400 => a.day = DaysBefore(t) + 1 /\ a.second = 0
        /\ n < 86400 => b.day = DaysBefore(u) /\ b.second = n
        /\ n = 86400 => b.day = DaysBefore(u) + 1 /\ b.second = 0
    BY SMT, <2>1, <2>2, <2>3, <2>4
  <2> HIDE DEF a, b
  <2>6. CASE DateLess(t, u)
    <3>1. DaysBefore(t) < DaysBefore(u)
      BY <1>1, <2>6, DatesInOrder
    <3> QED  BY SMT, <2>1, <2>2, <2>5, <3>1 DEF NotAfter, a, b
  <2>7. CASE SameDate(t, u) /\ ClockLess(t, u)
    <3>1. m < n
      BY <1>1, <2>7, ClocksInOrder DEF m, n
    <3>2. DaysBefore(t) = DaysBefore(u)
      BY <2>7 DEF DaysBefore, SameDate
    <3> QED  BY SMT, <2>1, <2>2, <2>5, <3>1, <3>2 DEF NotAfter, a, b
  <2>8. CASE SameDate(t, u) /\ SameClock(t, u) /\ KeyLess(t.frac, u.frac)
    <3>1. m = n
      BY <2>8 DEF SecondOf, SameClock, m, n
    <3>2. DaysBefore(t) = DaysBefore(u)
      BY <2>8 DEF DaysBefore, SameDate
    <3>3. nanos(t.frac) <= nanos(u.frac)
      <4>1. Len(t.frac) <= FracDigits /\ t.frac \in Seq(0 .. 9) /\ u.frac \in Seq(0 .. 9)
        BY <1>1, TextFields DEF Exists
      <4> QED  BY <2>8, <4>1, NanosOrder
    <3> QED  BY SMT, <2>3, <3>1, <3>2, <3>3 DEF NotAfter, a, b
  <2> QED  BY <1>1, <2>6, <2>7, <2>8, KeysInOrder
<1>2. KeyIsChronological
  <2> SUFFICES ASSUME NEW a \in OrdinalsOf(index), NEW b \in OrdinalsOf(index),
                      Exists(time_text(message(index, a))), Exists(time_text(message(index, b))),
                      KeyLess(time_key(time_text(message(index, a))), time_key(time_text(message(index, b))))
               PROVE  NotAfter(parse_sending_time(time_text(message(index, a))),
                               parse_sending_time(time_text(message(index, b))),
                               time_text(message(index, a)).second = 60)
    BY DEF KeyIsChronological
  <2>1. time_text(message(index, a)) \in Text /\ time_text(message(index, b)) \in Text
    BY TextOfMessage DEF Exists
  <2> QED  BY <1>1, <2>1
<1> QED  BY <1>2, PTL

-----------------------------------------------------------------------------
(* Instants.                                                               *)
LEMMA NanosPerSecondIs == NanosPerSecond \in Nat \ {0}
<1> DEFINE zeros == [k \in 1 .. FracDigits |-> 0]
           is(f) == f = [k \in 0 .. FracDigits |-> IF k = 0 THEN 1 ELSE 10 * f[k - 1]]
           n == CHOOSE f : is(f)
<1>1. FracDigits \in Nat /\ \A k \in 1 .. FracDigits : zeros[k] = 0
  BY CalendarAssumption
<1> HIDE DEF zeros
<1>2. PICK f : IsTens(f, 1, zeros, FracDigits)
  BY <1>1, TensExist
<1>3. Grows(f, 1, zeros, FracDigits)
  BY <1>1, <1>2, TensGrow
<1>4. is(f)
  <2>1. [k \in 0 .. FracDigits |-> IF k = 0 THEN 1 ELSE 10 * f[k - 1] + zeros[k]]
          = [k \in 0 .. FracDigits |-> IF k = 0 THEN 1 ELSE 10 * f[k - 1]]
    <3>1. \A k \in 0 .. FracDigits : k # 0 => 10 * f[k - 1] + zeros[k] = 10 * f[k - 1]
      <4> SUFFICES ASSUME NEW k \in 0 .. FracDigits, k # 0
                   PROVE  10 * f[k - 1] + zeros[k] = 10 * f[k - 1]
        OBVIOUS
      <4>1. k - 1 \in 0 .. FracDigits /\ k \in 1 .. FracDigits
        BY <1>1
      <4>2. f[k - 1] \in Nat /\ zeros[k] = 0
        BY <1>1, <1>3, <4>1 DEF Grows
      <4> QED  BY <4>2
    <3> QED  BY <3>1
  <2> QED  BY <1>2, <2>1 DEF IsTens
<1>5. is(n)
  <2> HIDE DEF is
  <2> QED  BY <1>4
<1>6. NanosPerSecond = n[FracDigits]
  BY DEF NanosPerSecond
<1> HIDE DEF n
<1>7. \A k \in 0 .. FracDigits : n[k] = IF k = 0 THEN 1 ELSE 10 * n[k - 1]
  <2> DEFINE g == [k \in 0 .. FracDigits |-> IF k = 0 THEN 1 ELSE 10 * n[k - 1]]
  <2>1. n = g
    BY <1>5
  <2>2. \A k \in 0 .. FracDigits : g[k] = IF k = 0 THEN 1 ELSE 10 * n[k - 1]
    OBVIOUS
  <2> HIDE DEF g
  <2> QED  BY <2>1, <2>2
<1> DEFINE B == {k \in 0 .. FracDigits : n[k] \notin Nat \ {0}}
<1>8. ASSUME B # {} PROVE FALSE
  <2>1. PICK m \in B : \A k \in B : m <= k
    <3>1. B \subseteq Nat
      OBVIOUS
    <3> HIDE DEF B
    <3> QED  BY <1>8, <3>1, NatMinimum
  <2>2. m # 0
    BY <1>7, <2>1
  <2>3. m - 1 \in 0 .. FracDigits /\ m - 1 \notin B
    BY <1>1, <2>1, <2>2
  <2>4. n[m - 1] \in Nat \ {0} /\ n[m] = 10 * n[m - 1]
    BY <1>7, <2>1, <2>2, <2>3
  <2>5. n[m] \in Nat \ {0}
    BY <2>4
  <2> QED  BY <2>1, <2>5
<1> QED  BY <1>1, <1>6, <1>8

LEMMA NanosAreNat ==
  ASSUME NEW frac \in Seq(0 .. 9)
  PROVE  nanos(frac) \in Nat
<1>1. PICK f : Grows(f, 0, Digit(frac), FracDigits) /\ nanos(frac) = f[FracDigits]
  BY NanosIs
<1>2. FracDigits \in 0 .. FracDigits
  BY CalendarAssumption
<1> QED  BY <1>1, <1>2 DEF Grows

(* A time that a message has is an instant.                                *)
LEMMA InstantIs ==
  ASSUME NEW msg, sending_time(msg) # None
  PROVE  system_time_to_nanos(sending_time(msg)) \in Nat
<1> DEFINE t == time_text(msg)
           days == days_from_civil(t.year, t.month, t.day)
           secs == t.hour * 3600 + t.minute * 60 + t.second
<1>1. t # None /\ t \in Text
  BY TextOfMessage DEF sending_time, parse_sending_time
<1>2. t.hour \in Nat /\ t.minute \in Nat /\ t.second \in Nat /\ t.frac \in Seq(0 .. 9)
  BY <1>1, TextFields
<1> HIDE DEF t
<1>3. /\ days # None
      /\ sending_time(msg) = [day |-> days + secs \div 86400, second |-> secs % 86400,
                              nanos |-> nanos(t.frac)]
  BY SMT, <1>1 DEF sending_time, parse_sending_time, t
<1>4. days \in Int /\ days >= 0
  <2>1. t.year \in Nat /\ t.month \in Nat /\ t.day \in Nat
    BY <1>1, TextFields
  <2>2. ASSUME NEW y \in Nat, NEW m \in Nat, NEW d \in Nat, days_from_civil(y, m, d) # None
        PROVE  days_from_civil(y, m, d) \in Int /\ days_from_civil(y, m, d) >= 0
    <3> DEFINE yy  == IF m <= 2 THEN y - 1 ELSE y
               era == yy \div 400
               yoe == yy - era * 400
               doy == (153 * (IF m > 2 THEN m - 3 ELSE m + 9) + 2) \div 5 + d - 1
               n   == era * 146097 + yoe * 365 + yoe \div 4 - yoe \div 100 + doy - 719468
    <3>1. yy \in Int /\ doy \in Int
      <4> DEFINE k == IF m > 2 THEN m - 3 ELSE m + 9
      <4>1. k \in Int
        OBVIOUS
      <4> HIDE DEF k
      <4>2. (153 * k + 2) \div 5 + d - 1 \in Int
        BY <4>1
      <4> QED  BY <4>2 DEF k
    <3>2. era \in Int
      <4> HIDE DEF yy
      <4> QED  BY <3>1
    <3>3. n \in Int
      <4> HIDE DEF yy, era, doy
      <4>1. yoe \in Int
        BY <3>1, <3>2
      <4> HIDE DEF yoe
      <4>2. yoe \div 4 \in Int /\ yoe \div 100 \in Int
        BY <4>1
      <4> QED  BY SMT, <3>1, <3>2, <4>1, <4>2
    <3>4. days_from_civil(y, m, d) = IF m \notin 1 .. 12 \/ d \notin 1 .. 31 \/ n < 0 THEN None ELSE n
      BY SMT DEF days_from_civil
    <3> HIDE DEF n
    <3> QED  BY SMT, <2>2, <3>3, <3>4
  <2> QED  BY <1>3, <2>1, <2>2
<1>5. /\ sending_time(msg).day \in Nat /\ sending_time(msg).second \in Nat
      /\ sending_time(msg).nanos \in Nat
  <2>1. secs \in Nat
    BY SMT, <1>2
  <2> HIDE DEF secs, days
  <2>2. secs \div 86400 \in Nat /\ secs % 86400 \in Nat
    BY SMT, <2>1
  <2>3. nanos(t.frac) \in Nat
    BY <1>2, NanosAreNat
  <2> QED  BY SMT, <1>3, <1>4, <2>2, <2>3
<1> DEFINE at == sending_time(msg)
<1> HIDE DEF at
<1>6. at.day \in Nat /\ at.second \in Nat /\ at.nanos \in Nat
  BY <1>5 DEF at
<1>7. (at.day * 86400 + at.second) * NanosPerSecond + at.nanos \in Nat
  <2>1. at.day * 86400 + at.second \in Nat
    BY SMT, <1>6
  <2> DEFINE s == at.day * 86400 + at.second
  <2> HIDE DEF s
  <2>2. s * NanosPerSecond \in Nat
    BY SMT, <2>1, NanosPerSecondIs DEF s
  <2>3. s * NanosPerSecond + at.nanos \in Nat
    BY SMT, <1>6, <2>2
  <2> QED  BY <2>3 DEF s
<1> QED  BY <1>7 DEF system_time_to_nanos, at

-----------------------------------------------------------------------------
(* The last position is chosen last.                                       *)
LEMMA LastChosen ==
  ASSUME NEW T, NEW s \in Seq(T), NEW P \in SUBSET DOMAIN s, Len(s) \in P
  PROVE  Chosen(s, P) # << >> /\ Last(Chosen(s, P)) = Last(s)
<1> DEFINE at == Ascending(P)
           c  == Chosen(s, P)
<1>1. IsFiniteSet(P) /\ P \subseteq Nat /\ \A i \in P : i <= Len(s)
  <2>1. DOMAIN s = 1 .. Len(s) /\ Len(s) \in Nat
    OBVIOUS
  <2>2. IsFiniteSet(1 .. Len(s))
    BY <2>1, FS_Interval
  <2>3. P \subseteq 1 .. Len(s)
    BY <2>1
  <2> QED  BY <2>1, <2>2, <2>3, FS_Subset
<1>2. /\ at \in Seq(P) /\ ToSet(at) = P
      /\ \A i, j \in 1 .. Len(at) : i < j => at[i] < at[j]
  BY <1>1, AscendingIs
<1>3. c = [k \in DOMAIN at |-> s[at[k]]]
  BY DEF Chosen
<1> HIDE DEF at, c
<1>4. DOMAIN at = 1 .. Len(at) /\ Len(at) \in Nat /\ \A k \in 1 .. Len(at) : at[k] \in P
  BY <1>2
<1>5. PICK k \in 1 .. Len(at) : at[k] = Len(s)
  BY <1>2, <1>4 DEF ToSet
<1>6. k = Len(at)
  <2> SUFFICES ASSUME k # Len(at) PROVE FALSE
    OBVIOUS
  <2>1. k < Len(at) /\ Len(at) \in 1 .. Len(at)
    <3> DEFINE n == Len(at)
    <3>1. n \in Nat /\ k \in 1 .. n /\ k # n
      BY <1>4
    <3> HIDE DEF n
    <3>2. k < n /\ n \in 1 .. n
      BY <3>1
    <3> QED  BY <3>2 DEF n
  <2>2. at[k] < at[Len(at)] /\ at[Len(at)] \in P
    BY <1>2, <1>4, <2>1
  <2>3. at[Len(at)] \in Nat /\ at[Len(at)] <= Len(s) /\ Len(s) \in Nat
    BY <1>1, <2>2
  <2> QED  BY <1>5, <2>2, <2>3
<1>7. c \in Seq(T) /\ Len(c) = Len(at)
  <2>1. \A j \in 1 .. Len(at) : s[at[j]] \in T
    BY <1>4
  <2>2. c \in [1 .. Len(at) -> T]
    BY <1>3, <1>4, <2>1
  <2> QED  BY <1>4, <2>2
<1>8. c[Len(c)] = s[Len(s)]
  BY <1>3, <1>4, <1>5, <1>6, <1>7
<1>9. Len(c) >= 1
  BY <1>4, <1>5, <1>7
<1>10. c # << >> /\ Last(c) = c[Len(c)]
  BY <1>7, <1>9 DEF Last
<1> QED  BY <1>8, <1>10 DEF Last, c

(* The events with a time.                                                 *)
HasTime(x) == {o \in OrdinalsOf(x) : sending_time(message(x, o)) # None}

LEMMA TimedIs ==
  ASSUME NEW x, NEW events \in Seq(OrdinalsOf(x)), NEW timed, timed = Timed(x, events)
  PROVE  /\ timed \in Seq(HasTime(x))
         /\ timed # << >> => events # << >>
<1> DEFINE P == {i \in DOMAIN events : sending_time(message(x, events[i])) # None}
<1>1. P \in SUBSET DOMAIN events
  OBVIOUS
<1>2. timed = Chosen(events, P)
  BY DEF Timed
<1>3. \A i \in P : events[i] \in HasTime(x)
  BY DEF HasTime
<1> HIDE DEF P
<1>4. timed \in Seq(OrdinalsOf(x)) /\ \A k \in 1 .. Len(timed) : \E i \in P : timed[k] = events[i]
  BY <1>1, <1>2, ChosenIs
<1>5. \A k \in 1 .. Len(timed) : timed[k] \in HasTime(x)
  BY <1>3, <1>4
<1>6. timed \in Seq(HasTime(x))
  <2>1. Len(timed) \in Nat /\ timed \in [1 .. Len(timed) -> OrdinalsOf(x)]
    BY <1>4
  <2>2. timed \in [1 .. Len(timed) -> HasTime(x)]
    BY <1>5, <2>1
  <2> QED  BY <2>1, <2>2
<1>7. timed # << >> => events # << >>
  <2> SUFFICES ASSUME timed # << >>, events = << >> PROVE FALSE
    OBVIOUS
  <2>1. Len(timed) >= 1
    BY <1>4
  <2>2. P = {}
    BY <1>1
  <2> QED  BY <1>4, <2>1, <2>2
<1> QED  BY <1>6, <1>7

(* How far along a bar an instant is: t from the first, total from it to    *)
(* the last, w for the last column.                                        *)
Place(t, w, total) == Min({(t * w) \div total, w})

IsAlong(a, b, w, total) ==
  /\ Place(a, w, total) \in 0 .. w
  /\ a <= b => Place(a, w, total) <= Place(b, w, total)

LEMMA PlaceIsAlong ==
  ASSUME NEW a \in Nat, NEW b \in Nat, NEW w \in Nat, NEW total \in Nat \ {0}
  PROVE  IsAlong(a, b, w, total)
<1> DEFINE x == a * w
           y == b * w
<1>1. x \in Nat /\ y \in Nat
  BY SMT
<1>2. a <= b => x <= y
  <2> SUFFICES ASSUME a <= b PROVE x <= y
    OBVIOUS
  <2>1. b - a \in Nat /\ (b - a) * w \in Nat
    BY SMT
  <2>2. b * w = a * w + (b - a) * w
    BY SMT
  <2> QED  BY SMT, <2>1, <2>2
<1> HIDE DEF x, y
<1> DEFINE p == x \div total
           q == y \div total
<1>3. /\ p \in Int /\ x % total \in 0 .. total - 1 /\ x = total * p + (x % total)
      /\ q \in Int /\ y % total \in 0 .. total - 1 /\ y = total * q + (y % total)
  BY <1>1, DivMod
<1> DEFINE r == x % total
           s == y % total
<1> HIDE DEF p, q, r, s
<1>4. /\ p \in Int /\ r \in 0 .. total - 1 /\ x = total * p + r
      /\ q \in Int /\ s \in 0 .. total - 1 /\ y = total * q + s
  BY <1>3 DEF r, s
<1>5. p \in Nat
  <2> SUFFICES ASSUME p <= -1 PROVE FALSE
    BY <1>4
  <2>1. total * p <= -total
    BY SMT, <1>4
  <2> QED  BY SMT, <1>1, <1>4, <2>1
<1>6. x <= y => p <= q
  <2> SUFFICES ASSUME x <= y, q + 1 <= p PROVE FALSE
    BY <1>4
  <2>1. total * p - total * q = total * (p - q) /\ p - q \in Nat \ {0}
    BY SMT, <1>4
  <2>2. total * (p - q) >= total
    BY SMT, <1>4, <2>1
  <2> QED  BY SMT, <1>1, <1>4, <2>1, <2>2
<1>7. /\ Place(a, w, total) = IF p <= w THEN p ELSE w
      /\ Place(b, w, total) = IF q <= w THEN q ELSE w
  <2>1. Place(a, w, total) = Min({p, w}) /\ Place(b, w, total) = Min({q, w})
    BY DEF Place, p, q, x, y
  <2> QED  BY <1>4, <2>1, OfTwo
<1> QED  BY SMT, <1>2, <1>4, <1>5, <1>6, <1>7 DEF IsAlong

LEMMA PlaceOfAll ==
  ASSUME NEW w \in Nat, NEW total \in Nat \ {0}
  PROVE  Place(total, w, total) = w
<1> DEFINE x == total * w
<1>1. x \in Int /\ total * w <= x /\ x < total * w + total
  BY SMT
<1> HIDE DEF x
<1>2. x \div total = w
  BY <1>1, DivIs
<1>3. Place(total, w, total) = Min({w, w})
  BY <1>2 DEF Place, x
<1> QED  BY <1>3, OfTwo

LEMMA WidthIs ==
  ASSUME NEW asked \in Nat
  PROVE  gantt_width(asked) \in Nat /\ gantt_width(asked) >= 10
<1> DEFINE n == Min({asked, 500})
<1>1. n \in Nat
  BY OfTwo
<1> HIDE DEF n
<1>2. Max({10, n}) = IF 10 <= n THEN n ELSE 10
  <2>1. n \in Int /\ 10 \in Int
    BY <1>1
  <2> QED  BY <2>1, OfTwo
<1>3. Max({10, n}) \in Nat /\ Max({10, n}) >= 10
  BY <1>1, <1>2
<1> QED  BY <1>3 DEF gantt_width, n

(* The bar of the events of a timeline.                                    *)
LEMMA BarIs ==
  ASSUME NEW x, NEW events \in Seq(OrdinalsOf(x)), NEW asked \in Nat,
         NEW timed, timed = Timed(x, events), timed # << >>
  PROVE  LET width == gantt_width(asked)
             bar   == render_gantt(x, events, asked)
             cols  == [o \in ToSet(timed) |-> column(x, timed, width, o)]
             apart == instant(x, Head(timed)) # instant(x, Last(timed))
         IN /\ \A a, b \in ToSet(timed) : instant(x, a) <= instant(x, b) => cols[a] <= cols[b]
            /\ bar[IF apart THEN cols[Last(timed)] ELSE 0] =
                 find_tag(message(x, Last(IF apart THEN timed ELSE events)), MsgType)
            /\ instant(x, Head(timed)) < instant(x, Last(timed)) => cols[Last(timed)] = width - 1
<1> DEFINE width == gantt_width(asked)
           bar   == render_gantt(x, events, asked)
           cols  == [o \in ToSet(timed) |-> column(x, timed, width, o)]
           first == instant(x, Head(timed))
           last  == instant(x, Last(timed))
           total == IF last > first THEN last - first ELSE 1
           off(o) == IF instant(x, o) - first <= 0 THEN 0 ELSE instant(x, o) - first
           w     == width - 1
<1>1. timed \in Seq(HasTime(x)) /\ events # << >>
  BY TimedIs
<1>2. /\ Len(timed) \in Nat /\ Len(timed) >= 1 /\ DOMAIN timed = 1 .. Len(timed)
      /\ Head(timed) \in ToSet(timed) /\ Last(timed) \in ToSet(timed)
      /\ Last(timed) = timed[Len(timed)]
  <2>1. Len(timed) \in Nat /\ Len(timed) >= 1 /\ DOMAIN timed = 1 .. Len(timed)
    BY <1>1
  <2>2. Head(timed) = timed[1] /\ Last(timed) = timed[Len(timed)]
    BY <1>1, <2>1 DEF Last
  <2> QED  BY <2>1, <2>2 DEF ToSet
<1>3. \A o \in ToSet(timed) : instant(x, o) \in Nat
  <2>1. \A o \in ToSet(timed) : o \in HasTime(x)
    BY <1>1, <1>2 DEF ToSet
  <2> QED  BY <2>1, InstantIs DEF HasTime, instant
<1>4. first \in Nat /\ last \in Nat /\ total \in Nat \ {0}
  BY <1>2, <1>3
<1>5. width \in Nat /\ width >= 10 /\ w \in Nat
  <2>1. width \in Nat /\ width >= 10
    BY WidthIs
  <2> HIDE DEF width
  <2> QED  BY <2>1
<1>6. ASSUME NEW o \in ToSet(timed)
      PROVE  off(o) \in Nat /\ column(x, timed, width, o) = Place(off(o), w, total)
  <2>1. instant(x, o) \in Nat
    BY <1>3
  <2>2. Max({instant(x, o) - first, 0}) = off(o) /\ off(o) \in Nat
    <3> HIDE DEF first
    <3> DEFINE d == instant(x, o) - first
    <3>1. d \in Int /\ 0 \in Int
      BY <1>4, <2>1
    <3> HIDE DEF d
    <3>2. Max({d, 0}) = IF d <= 0 THEN 0 ELSE d
      BY <3>1, OfTwo
    <3> QED  BY <3>1, <3>2 DEF d
  <2>3. column(x, timed, width, o)
          = Min({(Max({instant(x, o) - first, 0}) * (width - 1)) \div total, width - 1})
    BY DEF column
  <2> HIDE DEF off, total, first, width
  <2> QED  BY <2>2, <2>3 DEF Place
<1> HIDE DEF first, last, total, off, width
<1>7. \A o \in ToSet(timed) : /\ cols[o] = Place(off(o), w, total)
                              /\ cols[o] = column(x, timed, width, o)
  BY <1>6
<1>8. ASSUME NEW a \in ToSet(timed), NEW b \in ToSet(timed), instant(x, a) <= instant(x, b)
      PROVE  cols[a] <= cols[b]
  <2>1. off(a) <= off(b)
    BY <1>3, <1>4, <1>8 DEF off
  <2>2. IsAlong(off(a), off(b), w, total)
    BY <1>4, <1>5, <1>6, PlaceIsAlong
  <2>3. Place(off(a), w, total) <= Place(off(b), w, total)
    BY <2>1, <2>2 DEF IsAlong
  <2> HIDE DEF cols, w
  <2> QED  BY <1>7, <2>3
<1>9. ASSUME first < last PROVE cols[Last(timed)] = width - 1
  <2>1. total = last - first
    BY <1>4, <1>9 DEF total
  <2>2. off(Last(timed)) = total
    BY <1>4, <1>9, <2>1 DEF off, last
  <2>3. Place(total, w, total) = w
    BY <1>4, <1>5, PlaceOfAll
  <2> HIDE DEF cols
  <2> QED  BY <1>2, <1>7, <2>2, <2>3
<1> DEFINE letter(here) == IF here = << >> THEN None ELSE find_tag(message(x, winner(here)), MsgType)
           at(c) == {i \in DOMAIN timed : column(x, timed, width, timed[i]) = c}
<1>10. bar = IF timed = << >> \/ first = last
             THEN [c \in 0 .. width - 1 |-> letter(IF c = 0 THEN events ELSE << >>)]
             ELSE [c \in 0 .. width - 1 |-> letter(Chosen(timed, at(c)))]
  BY DEF render_gantt, first, last, width
<1>11. ASSUME first = last
       PROVE  bar[0] = find_tag(message(x, Last(events)), MsgType)
  <2>1. bar = [c \in 0 .. width - 1 |-> letter(IF c = 0 THEN events ELSE << >>)]
    BY <1>10, <1>11
  <2>2. 0 \in 0 .. width - 1
    BY <1>5
  <2> HIDE DEF bar
  <2> QED  BY <1>1, <2>1, <2>2 DEF winner
<1>12. ASSUME first # last
       PROVE  bar[cols[Last(timed)]] = find_tag(message(x, Last(timed)), MsgType)
  <2> DEFINE c0 == cols[Last(timed)]
  <2>1. bar = [c \in 0 .. width - 1 |-> letter(Chosen(timed, at(c)))]
    BY <1>10, <1>12
  <2>2. c0 \in 0 .. width - 1
    <3>1. IsAlong(off(Last(timed)), off(Last(timed)), w, total)
      BY <1>2, <1>4, <1>5, <1>6, PlaceIsAlong
    <3>2. Place(off(Last(timed)), w, total) \in 0 .. w
      BY <3>1 DEF IsAlong
    <3> HIDE DEF cols
    <3> QED  BY <1>2, <1>7, <3>2
  <2>3. c0 = column(x, timed, width, timed[Len(timed)])
    <3> HIDE DEF cols
    <3> QED  BY <1>2, <1>7
  <2> HIDE DEF cols, c0
  <2>4. Len(timed) \in at(c0) /\ at(c0) \in SUBSET DOMAIN timed
    BY <1>2, <2>3
  <2>5. Chosen(timed, at(c0)) # << >> /\ Last(Chosen(timed, at(c0))) = Last(timed)
    <3> HIDE DEF at
    <3> QED  BY <1>1, <2>4, LastChosen
  <2> HIDE DEF at, bar
  <2>6. bar[c0] = letter(Chosen(timed, at(c0)))
    <3> HIDE DEF letter
    <3> QED  BY <2>1, <2>2
  <2>7. letter(Chosen(timed, at(c0))) = find_tag(message(x, Last(timed)), MsgType)
    BY <2>5 DEF winner
  <2> HIDE DEF letter
  <2> QED  BY <2>6, <2>7 DEF c0
<1> HIDE DEF bar, cols
<1>13. bar[IF first # last THEN cols[Last(timed)] ELSE 0]
         = find_tag(message(x, Last(IF first # last THEN timed ELSE events)), MsgType)
  BY <1>11, <1>12
<1> QED  BY <1>8, <1>9, <1>13 DEF bar, cols, first, last, width

(* The bar of an order: later events are not left of earlier ones, and the  *)
(* last one is seen; view/orders.rs, render_gantt.                         *)
THEOREM BarsAreDrawn == ReportsSpec => []TimelineIsDrawn
<1>1. ReportsInv => TimelineIsDrawn
  <2> SUFFICES ASSUME ReportsInv, timeline.pc = "found", Timed(index, timeline.events) # << >>,
                      NEW asked \in Widths
               PROVE  LET timed == Timed(index, timeline.events)
                          width == gantt_width(asked)
                          bar   == render_gantt(index, timeline.events, asked)
                          cols  == [o \in ToSet(timed) |-> column(index, timed, width, o)]
                          apart == instant(index, Head(timed)) # instant(index, Last(timed))
                      IN /\ \A a, b \in ToSet(timed) :
                              instant(index, a) <= instant(index, b) => cols[a] <= cols[b]
                         /\ bar[IF apart THEN cols[Last(timed)] ELSE 0] =
                              find_tag(message(index, Last(IF apart THEN timed ELSE timeline.events)), MsgType)
                         /\ instant(index, Head(timed)) < instant(index, Last(timed)) =>
                              cols[Last(timed)] = width - 1
    BY DEF TimelineIsDrawn
  <2>1. timeline.events \in Seq(OrdinalsOf(index))
    BY DEF ReportsInv, TimelineType
  <2>2. asked \in Nat
    BY ReportsAssumption
  <2> QED  BY <2>1, <2>2, BarIs
<1> QED  BY <1>1, ReportsInvHolds, PTL

-----------------------------------------------------------------------------
(* The sum of counts: what grows by each of them.                          *)
SumsUp(g, counts) ==
  /\ g[0] = 0
  /\ \A k \in 1 .. Len(counts) : g[k] = g[k - 1] + counts[k]
  /\ \A k \in 0 .. Len(counts) : g[k] \in Nat

LEMMA TotalIs ==
  ASSUME NEW counts, Len(counts) \in Nat, NEW g, SumsUp(g, counts)
  PROVE  Total(counts) = g[Len(counts)]
<1> DEFINE n == Len(counts)
           is(f) == f = [k \in 0 .. n |-> IF k = 0 THEN 0 ELSE f[k - 1] + counts[k]]
           s == CHOOSE f : is(f)
           h == [k \in 0 .. n |-> g[k]]
<1>1. is(h)
  <2> DEFINE r == [k \in 0 .. n |-> IF k = 0 THEN 0 ELSE h[k - 1] + counts[k]]
  <2>1. ASSUME NEW k \in 0 .. n PROVE h[k] = r[k]
    <3>1. CASE k = 0
      <4>1. h[k] = 0
        BY <3>1 DEF SumsUp
      <4>2. r[k] = 0
        BY <3>1
      <4> QED  BY <4>1, <4>2
    <3>2. CASE k # 0
      <4>1. k \in 1 .. n /\ k - 1 \in 0 .. n
        BY <3>2
      <4>2. h[k] = g[k - 1] + counts[k] /\ h[k - 1] = g[k - 1]
        BY <4>1 DEF SumsUp
      <4>3. r[k] = h[k - 1] + counts[k]
        <5> HIDE DEF h
        <5> QED  BY <3>2
      <4> HIDE DEF h, r
      <4> QED  BY <4>2, <4>3
    <3> QED  BY <3>1, <3>2
  <2>2. h = [k \in 0 .. n |-> h[k]] /\ r = [k \in 0 .. n |-> r[k]]
    OBVIOUS
  <2>3. h = r
    <3> HIDE DEF h, r
    <3> QED  BY <2>1, <2>2
  <2> HIDE DEF h
  <2> QED  BY <2>3
<1>2. is(s)
  <2> HIDE DEF is, h
  <2> QED  BY <1>1
<1>3. Total(counts) = s[n]
  BY DEF Total
<1> HIDE DEF s
<1>4. \A k \in 0 .. n : s[k] = IF k = 0 THEN 0 ELSE s[k - 1] + counts[k]
  <2> DEFINE r == [k \in 0 .. n |-> IF k = 0 THEN 0 ELSE s[k - 1] + counts[k]]
  <2>1. s = r
    BY <1>2
  <2>2. \A k \in 0 .. n : r[k] = IF k = 0 THEN 0 ELSE s[k - 1] + counts[k]
    OBVIOUS
  <2> HIDE DEF r
  <2> QED  BY <2>1, <2>2
<1> HIDE DEF is, h
<1> DEFINE B == {k \in 0 .. n : s[k] # g[k]}
<1>5. ASSUME B # {} PROVE FALSE
  <2>1. PICK m \in B : \A k \in B : m <= k
    <3>1. B \subseteq Nat
      OBVIOUS
    <3> HIDE DEF B
    <3> QED  BY <1>5, <3>1, NatMinimum
  <2>2. m # 0 /\ m \in 1 .. n
    BY <1>4, <2>1 DEF SumsUp
  <2>3. m - 1 \in 0 .. n /\ m - 1 \notin B
    BY <2>1, <2>2
  <2>4. s[m - 1] = g[m - 1] /\ s[m] = s[m - 1] + counts[m] /\ g[m] = g[m - 1] + counts[m]
    BY <1>4, <2>2, <2>3 DEF SumsUp
  <2> QED  BY <2>1, <2>4
<1>6. n \in 0 .. n
  OBVIOUS
<1> QED  BY <1>3, <1>5, <1>6

(* The sum of some of them: by how much that grows meanwhile.              *)
LEMMA TotalWithin ==
  ASSUME NEW counts \in Seq(Nat), NEW g, SumsUp(g, counts),
         NEW a \in 0 .. Len(counts), NEW b \in a .. Len(counts)
  PROVE  /\ Total(SubSeq(counts, a + 1, b)) = g[b] - g[a]
         /\ g[b] - g[a] \in Nat
<1> DEFINE part == SubSeq(counts, a + 1, b)
           h == [k \in 0 .. b - a |-> g[a + k] - g[a]]
<1>1. Len(counts) \in Nat /\ a \in Nat /\ b \in Nat /\ b - a \in Nat
  OBVIOUS
<1>2. Len(part) = b - a /\ \A k \in 1 .. b - a : part[k] = counts[a + k] /\ part[k] \in Nat
  <2>1. /\ a + 1 <= b => (a + 1 \in 1 .. Len(counts) /\ b \in 1 .. Len(counts))
        /\ b - (a + 1) + 1 = b - a
    BY <1>1
  <2>2. Len(part) = b - a
    BY <1>1
  <2>3. ASSUME NEW k \in 1 .. b - a PROVE part[k] = counts[a + k] /\ part[k] \in Nat
    <3>1. a + 1 + k - 1 = a + k /\ a + k \in 1 .. Len(counts)
      BY <1>1
    <3>2. counts[a + k] \in Nat
      BY <3>1
    <3>3. part[k] = counts[a + 1 + k - 1]
      BY <1>1, <2>1, <2>2, <3>1
    <3> QED  BY <3>1, <3>2, <3>3
  <2> QED  BY <2>2, <2>3
<1> HIDE DEF part
<1> DEFINE B == {k \in 0 .. b - a : ~ (g[a + k] - g[a] \in Nat)}
<1>3. ASSUME NEW k \in 0 .. b - a PROVE a + k \in 0 .. Len(counts) /\ g[a + k] \in Nat
  BY <1>1 DEF SumsUp
<1>4. g[a] \in Nat
  BY <1>1 DEF SumsUp
<1>5. ASSUME NEW k \in 1 .. b - a PROVE g[a + k] = g[a + k - 1] + part[k]
  <2>1. a + k \in 1 .. Len(counts)
    BY <1>1
  <2> QED  BY <1>2, <2>1 DEF SumsUp
<1>6. ASSUME B # {} PROVE FALSE
  <2>1. PICK m \in B : \A k \in B : m <= k
    <3>1. B \subseteq Nat
      OBVIOUS
    <3> HIDE DEF B
    <3> QED  BY <1>6, <3>1, NatMinimum
  <2>2. m # 0
    <3>1. a + 0 = a
      OBVIOUS
    <3>2. g[a] - g[a] \in Nat
      BY <1>4
    <3> QED  BY <2>1, <3>1, <3>2
  <2>3. m \in 1 .. b - a /\ m - 1 \in 0 .. b - a /\ m - 1 \notin B
    <3>1. m \in 0 .. b - a
      BY <2>1
    <3>2. m \in 1 .. b - a /\ m - 1 \in 0 .. b - a /\ m - 1 < m
      BY <1>1, <2>2, <3>1
    <3>3. m - 1 \in B => m <= m - 1
      BY <2>1
    <3> HIDE DEF B
    <3> QED  BY <3>1, <3>2, <3>3
  <2>4. a + (m - 1) = a + m - 1
    BY <2>3
  <2>5. g[a + (m - 1)] - g[a] \in Nat
    BY <2>3
  <2>6. g[a + m] = g[a + m - 1] + part[m] /\ part[m] \in Nat
    BY <1>2, <1>5, <2>3
  <2>7. g[a + m - 1] \in Nat
    BY <1>3, <2>3, <2>4
  <2>8. g[a + m] - g[a] \in Nat
    BY <1>4, <2>4, <2>5, <2>6, <2>7
  <2> QED  BY <2>1, <2>8
<1>7. SumsUp(h, part)
  <2>1. h[0] = 0
    <3>1. h[0] = g[a + 0] - g[a] /\ a + 0 = a
      BY <1>1
    <3> QED  BY <1>4, <3>1
  <2>2. \A k \in 0 .. b - a : h[k] \in Nat /\ h[k] = g[a + k] - g[a]
    BY <1>6
  <2>3. ASSUME NEW k \in 1 .. b - a PROVE h[k] = h[k - 1] + part[k]
    <3>1. k - 1 \in 0 .. b - a /\ k \in 0 .. b - a /\ a + (k - 1) = a + k - 1
      BY <1>1
    <3>2. h[k] = g[a + k] - g[a] /\ h[k - 1] = g[a + k - 1] - g[a]
      BY <2>2, <3>1
    <3>3. g[a + k - 1] \in Nat /\ part[k] \in Nat
      BY <1>2, <1>3, <3>1
    <3> QED  BY <1>4, <1>5, <3>2, <3>3
  <2> QED  BY <1>2, <2>1, <2>2, <2>3 DEF SumsUp
<1>8. Total(part) = h[b - a]
  <2> HIDE DEF h
  <2> QED  BY <1>1, <1>2, <1>7, TotalIs
<1>9. h[b - a] = g[b] - g[a] /\ b - a \notin B
  <2>1. b - a \in 0 .. b - a /\ a + (b - a) = b
    BY <1>1
  <2> QED  BY <1>6, <2>1
<1>10. g[b] - g[a] \in Nat
  <2>1. b - a \in 0 .. b - a /\ a + (b - a) = b
    BY <1>1
  <2> QED  BY <1>9, <2>1
<1> QED  BY <1>8, <1>9, <1>10 DEF part

-----------------------------------------------------------------------------
(* As many are told of as there are.                                       *)
LEMMA CountThrough ==
  ASSUME NEW S, IsFiniteSet(S), NEW T, NEW f \in Bijection(S, T),
         NEW A \in SUBSET S, NEW C \in SUBSET T, \A k \in S : k \in A <=> f[k] \in C
  PROVE  Cardinality(A) = Cardinality(C)
<1> DEFINE g == [k \in A |-> f[k]]
<1>1. IsFiniteSet(A)
  BY FS_Subset
<1>2. /\ f \in [S -> T] /\ \A t \in T : \E k \in S : f[k] = t
      /\ \A j, k \in S : f[j] = f[k] => j = k
  BY DEF Bijection, Injection, Surjection, IsInjective
<1>3. g \in [A -> C]
  BY <1>2
<1>4. \A t \in C : \E k \in A : g[k] = t
  BY <1>2
<1>5. \A j, k \in A : g[j] = g[k] => j = k
  BY <1>2
<1>6. g \in Bijection(A, C)
  <2> HIDE DEF g
  <2> QED  BY <1>3, <1>4, <1>5 DEF Bijection, Injection, Surjection, IsInjective
<1>7. ExistsBijection(A, C)
  BY <1>6 DEF ExistsBijection
<1> QED  BY <1>1, <1>7, FS_Bijection

(* The times of an index: one of each message that has one.                *)
Tells(times, at, x) ==
  /\ Len(times) \in Nat /\ DOMAIN times = 1 .. Len(times)
  /\ IsFiniteSet(HasTime(x)) /\ Len(times) = Cardinality(HasTime(x))
  /\ at \in Bijection(1 .. Len(times), HasTime(x))
  /\ \A k \in 1 .. Len(times) : times[k] = instant(x, at[k])
  /\ \A o \in HasTime(x) : instant(x, o) \in Nat

LEMMA TimesAre ==
  ASSUME NEW T, NEW x \in Seq(T)
  PROVE  \E at : Tells(Times(x), at, x)
<1> DEFINE P == {i \in DOMAIN x : sending_time(x[i]) # None}
           w == Ascending(P)
           n == Len(w)
           at == [k \in 1 .. n |-> w[k] - 1]
           c == Chosen(x, P)
           times == [k \in DOMAIN c |-> system_time_to_nanos(sending_time(c[k]))]
<1>1. DOMAIN x = 1 .. Len(x) /\ Len(x) \in Nat
  OBVIOUS
<1>2. IsFiniteSet(P) /\ P \subseteq Nat /\ P \subseteq 1 .. Len(x)
  <2>1. IsFiniteSet(1 .. Len(x))
    BY <1>1, FS_Interval
  <2>2. P \subseteq 1 .. Len(x)
    BY <1>1
  <2> QED  BY <1>1, <2>1, <2>2, FS_Subset
<1>3. \A i \in 1 .. Len(x) : i \in P <=> i - 1 \in HasTime(x)
  <2>1. \A i \in 1 .. Len(x) : i - 1 \in OrdinalsOf(x) /\ message(x, i - 1) = x[i]
    BY <1>1 DEF OrdinalsOf, message
  <2> QED  BY <1>1, <2>1 DEF HasTime
<1>4. /\ w \in Seq(P) /\ n = Cardinality(P) /\ ToSet(w) = P
      /\ \A i, j \in 1 .. n : i < j => w[i] < w[j]
  <2> HIDE DEF P
  <2> QED  BY <1>2, AscendingIs
<1>5. c = [k \in DOMAIN w |-> x[w[k]]]
  BY DEF Chosen
<1> HIDE DEF w, c
<1>6. DOMAIN w = 1 .. n /\ n \in Nat /\ \A k \in 1 .. n : w[k] \in P
  <2> HIDE DEF P
  <2> QED  BY <1>4
<1>7. /\ DOMAIN times = 1 .. n /\ Len(times) = n
      /\ \A k \in 1 .. n : times[k] = instant(x, at[k])
  <2>1. DOMAIN c = 1 .. n
    BY <1>5, <1>6
  <2>2. ASSUME NEW k \in 1 .. n PROVE times[k] = instant(x, at[k])
    <3>1. times[k] = system_time_to_nanos(sending_time(x[w[k]]))
      BY <1>5, <1>6, <2>1
    <3>2. w[k] \in Nat /\ at[k] = w[k] - 1 /\ at[k] + 1 = w[k]
      BY <1>2, <1>6
    <3> HIDE DEF at, times
    <3> QED  BY <3>1, <3>2 DEF instant, message
  <2>3. DOMAIN times = 1 .. n
    BY <2>1
  <2>4. Len(times) = n
    BY <1>6, <2>1
  <2> HIDE DEF times
  <2> QED  BY <2>2, <2>3, <2>4
<1>8. at \in [1 .. n -> HasTime(x)]
  <2>1. \A k \in 1 .. n : w[k] - 1 \in HasTime(x)
    BY <1>2, <1>3, <1>6
  <2> QED  BY <2>1
<1>9. \A j, k \in 1 .. n : at[j] = at[k] => j = k
  <2> SUFFICES ASSUME NEW j \in 1 .. n, NEW k \in 1 .. n, at[j] = at[k], j # k PROVE FALSE
    OBVIOUS
  <2>1. w[j] \in Nat /\ w[k] \in Nat
    BY <1>2, <1>6
  <2>2. w[j] = w[k]
    BY <2>1
  <2>3. j < k \/ k < j
    BY <1>6
  <2>4. w[j] < w[k] \/ w[k] < w[j]
    BY <1>4, <2>3
  <2> QED  BY <2>1, <2>2, <2>4
<1>10. \A o \in HasTime(x) : \E k \in 1 .. n : at[k] = o
  <2> SUFFICES ASSUME NEW o \in HasTime(x) PROVE \E k \in 1 .. n : at[k] = o
    OBVIOUS
  <2>1. o \in 0 .. Len(x) - 1
    BY DEF HasTime, OrdinalsOf
  <2>2. o + 1 \in 1 .. Len(x) /\ (o + 1) - 1 = o
    BY <1>1, <2>1
  <2>3. o + 1 \in P
    BY <1>3, <2>2
  <2>4. PICK k \in 1 .. n : w[k] = o + 1
    BY <1>4, <1>6, <2>3 DEF ToSet
  <2> QED  BY <2>2, <2>4
<1>11. at \in Bijection(1 .. n, HasTime(x))
  <2> HIDE DEF at
  <2> QED  BY <1>8, <1>9, <1>10 DEF Bijection, Injection, Surjection, IsInjective
<1>12. IsFiniteSet(HasTime(x)) /\ Cardinality(HasTime(x)) = n
  <2>1. IsFiniteSet(1 .. n) /\ Cardinality(1 .. n) = n
    <3>1. Cardinality(1 .. n) = (IF 1 > n THEN 0 ELSE n - 1 + 1) /\ IsFiniteSet(1 .. n)
      <4> HIDE DEF n
      <4> QED  BY <1>6, FS_Interval
    <3> HIDE DEF n
    <3> QED  BY <1>6, <3>1
  <2>2. ExistsBijection(1 .. n, HasTime(x))
    BY <1>11 DEF ExistsBijection
  <2> QED  BY <2>1, <2>2, FS_Bijection
<1>13. \A o \in HasTime(x) : instant(x, o) \in Nat
  BY InstantIs DEF HasTime, instant
<1>14. Times(x) = times
  BY DEF Times, c, P
<1> HIDE DEF times, at
<1> QED  BY <1>6, <1>7, <1>11, <1>12, <1>13, <1>14 DEF Tells

-----------------------------------------------------------------------------
(* Multiples of a width.                                                   *)
LEMMA Times1 ==
  ASSUME NEW l \in Int, NEW m \in Int, NEW w \in Int
  PROVE  l * w + m * w = (l + m) * w /\ l * w - m * w = (l - m) * w /\ w * l = l * w
BY SMT

LEMMA QuotientIs ==
  ASSUME NEW a \in Nat, NEW w \in Nat \ {0}
  PROVE  a \div w \in Nat /\ w * (a \div w) <= a /\ a < w * (a \div w) + w
<1> DEFINE q == a \div w
           r == a % w
<1>1. q \in Int /\ r \in 0 .. w - 1 /\ a = w * q + r
  BY DivMod
<1> HIDE DEF q, r
<1>2. q \in Nat
  <2> SUFFICES ASSUME q <= -1 PROVE FALSE
    BY <1>1
  <2>1. w * q <= -w
    BY SMT, <1>1
  <2> QED  BY SMT, <1>1, <2>1
<1>3. w * q \in Int
  BY SMT, <1>1
<1> QED  BY <1>1, <1>2, <1>3 DEF q

LEMMA QuotientsGrow ==
  ASSUME NEW a \in Nat, NEW b \in Nat, NEW w \in Nat \ {0}, a <= b
  PROVE  a \div w <= b \div w
<1> DEFINE p == a \div w
           q == b \div w
<1>1. /\ p \in Nat /\ w * p <= a /\ a < w * p + w
      /\ q \in Nat /\ w * q <= b /\ b < w * q + w
  BY QuotientIs
<1> HIDE DEF p, q
<1> SUFFICES ASSUME q + 1 <= p PROVE FALSE
  BY <1>1 DEF p, q
<1>2. w * p - w * q = w * (p - q) /\ w * (p - q) >= w /\ w * p \in Int /\ w * q \in Int
  <2>1. p - q \in Nat \ {0}
    BY <1>1
  <2> QED  BY SMT, <1>1, <2>1
<1> QED  BY <1>1, <1>2

LEMMA QuotientBack ==
  ASSUME NEW a \in Nat, NEW l \in Nat, NEW w \in Nat \ {0}
  PROVE  (a - l * w) \div w = a \div w - l
<1> DEFINE q == a \div w
           b == a - l * w
           m == q - l
<1>1. q \in Nat /\ w * q <= a /\ a < w * q + w
  BY QuotientIs
<1> HIDE DEF q
<1>2. b \in Int /\ m \in Int /\ w * m = w * q - l * w /\ l * w \in Int /\ w * q \in Int
  BY SMT, <1>1
<1>3. w * m <= b /\ b < w * m + w
  <2> HIDE DEF m
  <2> QED  BY <1>1, <1>2
<1> HIDE DEF b, m
<1>4. b \div w = m
  BY <1>2, <1>3, DivIs
<1> QED  BY <1>4 DEF b, m, q

LEMMA InMultiples ==
  ASSUME NEW a \in Nat, NEW l \in Nat, NEW w \in Nat \ {0}
  PROVE  (l * w <= a /\ a < (l + 1) * w) <=> a \div w = l
<1>1. l * w = w * l /\ (l + 1) * w = w * l + w /\ w * l \in Int
  BY SMT
<1>2. ASSUME l * w <= a, a < (l + 1) * w PROVE a \div w = l
  BY <1>1, <1>2, DivIs
<1>3. ASSUME a \div w = l PROVE l * w <= a /\ a < (l + 1) * w
  <2>1. w * (a \div w) <= a /\ a < w * (a \div w) + w
    BY QuotientIs
  <2>2. w * l <= a /\ a < w * l + w
    BY <1>3, <2>1
  <2> QED  BY <1>1, <2>2
<1> QED  BY <1>2, <1>3

-----------------------------------------------------------------------------
(* The bins: from lo times their width on, each with the messages of its    *)
(* multiple of the width.                                                  *)
InBin(x, w, q) == {o \in HasTime(x) : instant(x, o) \div w = q}

Binned(h, x, w, lo) ==
  /\ h.bucket = w /\ h.dropped + Cardinality(HasTime(x)) = Len(x)
  /\ lo \in Nat /\ Len(h.bins) \in Nat /\ DOMAIN h.bins = 1 .. Len(h.bins)
  /\ Len(h.bins) = 0 <=> HasTime(x) = {}
  /\ \A i \in 1 .. Len(h.bins) :
       /\ h.bins[i].start = (lo + i - 1) * w
       /\ h.bins[i].end = (lo + i) * w
       /\ h.bins[i].count = Cardinality(InBin(x, w, lo + i - 1))
  /\ \A o \in HasTime(x) : instant(x, o) \div w \in lo .. lo + Len(h.bins) - 1
  /\ Len(h.bins) > 0 => InBin(x, w, lo) # {} /\ InBin(x, w, lo + Len(h.bins) - 1) # {}

LEMMA ExtremeTimes ==
  ASSUME NEW x, NEW times, NEW at, Tells(times, at, x), HasTime(x) # {}
  PROVE  \E a, b \in HasTime(x) :
           /\ Min(ToSet(times)) = instant(x, a) /\ Max(ToSet(times)) = instant(x, b)
           /\ \A o \in HasTime(x) : instant(x, a) <= instant(x, o) /\ instant(x, o) <= instant(x, b)
<1> DEFINE S == ToSet(times)
<1>1. S = {instant(x, o) : o \in HasTime(x)}
  <2>1. S = {times[k] : k \in 1 .. Len(times)}
    BY DEF Tells, ToSet
  <2>2. /\ \A k \in 1 .. Len(times) : at[k] \in HasTime(x) /\ times[k] = instant(x, at[k])
        /\ \A o \in HasTime(x) : \E k \in 1 .. Len(times) : at[k] = o
    BY DEF Tells, Bijection, Injection, Surjection
  <2> QED  BY <2>1, <2>2
<1>2. S \in SUBSET Int /\ S # {}
  BY <1>1 DEF Tells
<1>3. IsFiniteSet(S)
  <2> DEFINE f == [o \in HasTime(x) |-> instant(x, o)]
  <2>1. f \in Surjection(HasTime(x), S)
    BY <1>1 DEF Surjection
  <2> HIDE DEF f, S
  <2> QED  BY <2>1, FS_Surjection DEF Tells
<1> HIDE DEF S
<1>4. /\ Min(S) \in S /\ \A t \in S : Min(S) <= t
      /\ Max(S) \in S /\ \A t \in S : Max(S) >= t
  BY <1>2, <1>3, LeastIs, GreatestIs
<1>5. PICK a \in HasTime(x) : Min(S) = instant(x, a)
  BY <1>1, <1>4
<1>6. PICK b \in HasTime(x) : Max(S) = instant(x, b)
  BY <1>1, <1>4
<1>7. \A o \in HasTime(x) : Min(S) <= instant(x, o) /\ instant(x, o) <= Max(S)
  <2> SUFFICES ASSUME NEW o \in HasTime(x)
               PROVE  Min(S) <= instant(x, o) /\ instant(x, o) <= Max(S)
    OBVIOUS
  <2>1. instant(x, o) \in S /\ Max(S) \in Int /\ instant(x, o) \in Int
    BY <1>1, <1>2, <1>4
  <2> QED  BY <1>4, <2>1
<1> QED  BY <1>5, <1>6, <1>7 DEF S

LEMMA BinsAre ==
  ASSUME NEW T, NEW x \in Seq(T), NEW bucket \in Nat, NEW w, w = Max({bucket, 1})
  PROVE  \E lo : Binned(histogram_of(x, bucket), x, w, lo)
<1> DEFINE times == Times(x)
           h == histogram_of(x, bucket)
           tmin == Min(ToSet(times))
           tmax == Max(ToSet(times))
           start == (tmin \div w) * w
           last  == end_of(tmax, w)
           n     == (last - start) \div w
           idx(t) == Min({(t - start) \div w, n - 1})
           bin(i) == [start |-> start + i * w, end |-> start + (i + 1) * w,
                      count |-> Cardinality({k \in DOMAIN times : idx(times[k]) = i})]
<1>1. h = [bucket |-> w, dropped |-> Len(x) - Len(times),
           bins |-> IF times = << >> THEN << >> ELSE [i \in 1 .. n |-> bin(i - 1)]]
  BY DEF histogram_of
<1>2. w \in Nat \ {0}
  <2>1. bucket \in Int /\ 1 \in Int
    OBVIOUS
  <2>2. Max({bucket, 1}) = IF bucket <= 1 THEN 1 ELSE bucket
    BY <2>1, OfTwo
  <2> QED  BY <2>2
<1>3. PICK at : Tells(times, at, x)
  BY TimesAre
<1>4. h.bucket = w /\ h.dropped + Cardinality(HasTime(x)) = Len(x)
  <2>1. h.bucket = w /\ h.dropped = Len(x) - Len(times)
    BY <1>1
  <2>2. Len(x) \in Nat /\ Len(times) \in Nat /\ Len(times) = Cardinality(HasTime(x))
    BY <1>3 DEF Tells
  <2> HIDE DEF h
  <2> QED  BY <2>1, <2>2
<1>5. CASE HasTime(x) = {}
  <2>1. Len(times) = 0
    BY <1>3, <1>5, FS_EmptySet DEF Tells
  <2>2. times = << >>
    <3>1. times = [k \in DOMAIN times |-> times[k]]
      BY DEF Times
    <3>2. DOMAIN times = {}
      BY <1>3, <2>1 DEF Tells
    <3> HIDE DEF times
    <3> QED  BY <3>1, <3>2
  <2>3. h.bins = << >>
    BY <1>1, <2>2
  <2>4. Len(h.bins) = 0 /\ DOMAIN h.bins = {}
    BY <2>3
  <2> HIDE DEF h
  <2>5. Binned(h, x, w, 0)
    BY <1>4, <1>5, <2>4 DEF Binned
  <2> QED  BY <2>5 DEF h
<1>6. CASE HasTime(x) # {}
  <2>1. PICK a \in HasTime(x), b \in HasTime(x) :
           /\ tmin = instant(x, a) /\ tmax = instant(x, b)
           /\ \A o \in HasTime(x) : instant(x, a) <= instant(x, o) /\ instant(x, o) <= instant(x, b)
    <3> HIDE DEF times
    <3> QED  BY <1>3, <1>6, ExtremeTimes
  <2> DEFINE q(t) == t \div w
             lo == q(tmin)
             hi == q(tmax)
             m  == hi + 1 - lo
  <2>2. \A o \in HasTime(x) : instant(x, o) \in Nat
    BY <1>3 DEF Tells
  <2>3. tmin \in Nat /\ tmax \in Nat /\ lo \in Nat /\ hi \in Nat /\ lo <= hi
    <3>1. tmin \in Nat /\ tmax \in Nat /\ tmin <= tmax
      BY <2>1, <2>2
    <3> HIDE DEF tmin, tmax
    <3> QED  BY <1>2, <3>1, QuotientIs, QuotientsGrow
  <2>4. \A o \in HasTime(x) : q(instant(x, o)) \in lo .. hi
    <3> SUFFICES ASSUME NEW o \in HasTime(x) PROVE q(instant(x, o)) \in lo .. hi
      OBVIOUS
    <3>1. /\ instant(x, o) \in Nat /\ tmin <= instant(x, o) /\ instant(x, o) <= tmax
      BY <2>1, <2>2
    <3>2. lo <= q(instant(x, o)) /\ q(instant(x, o)) <= hi /\ q(instant(x, o)) \in Nat
      <4> HIDE DEF tmin, tmax
      <4> QED  BY <1>2, <2>3, <3>1, QuotientIs, QuotientsGrow
    <3> HIDE DEF lo, hi, q
    <3> QED  BY <2>3, <3>2
  <2>5. start = lo * w /\ last = (hi + 1) * w
    BY DEF end_of
  <2> HIDE DEF tmin, tmax, start, last, lo, hi, times
  <2>6. m \in Nat \ {0}
    BY <2>3
  <2>7. n = m
    <3>1. last - start = m * w /\ w * m = m * w
      BY <1>2, <2>3, <2>5, Times1
    <3>2. m * w \in Int /\ w * m <= m * w /\ m * w < w * m + w
      BY SMT, <1>2, <2>3, <3>1
    <3>3. m \in Int
      BY <2>6
    <3> HIDE DEF m
    <3> QED  BY <1>2, <3>1, <3>2, <3>3, DivIs
  <2> HIDE DEF n, m
  <2>8. ASSUME NEW o \in HasTime(x) PROVE idx(instant(x, o)) = q(instant(x, o)) - lo
    <3> DEFINE t == instant(x, o)
               d == (t - start) \div w
    <3>1. t \in Nat /\ q(t) \in lo .. hi
      BY <2>2, <2>4
    <3> HIDE DEF t
    <3>2. d = q(t) - lo
      BY <1>2, <2>3, <2>5, <3>1, QuotientBack
    <3> HIDE DEF d, q
    <3>3. d \in Int /\ n - 1 \in Int /\ d <= n - 1
      BY <2>3, <2>6, <2>7, <3>1, <3>2 DEF m
    <3>4. Min({d, n - 1}) = d
      BY <3>3, OfTwo
    <3> QED  BY <3>2, <3>4 DEF d, t
  <2>9. ASSUME NEW i \in 1 .. m
        PROVE  /\ bin(i - 1).start = (lo + i - 1) * w
               /\ bin(i - 1).end = (lo + i) * w
               /\ bin(i - 1).count = Cardinality(InBin(x, w, lo + i - 1))
    <3> DEFINE A == {k \in DOMAIN times : idx(times[k]) = i - 1}
               C == InBin(x, w, lo + i - 1)
    <3>1. /\ bin(i - 1).start = start + (i - 1) * w
          /\ bin(i - 1).end = start + (i - 1 + 1) * w
          /\ bin(i - 1).count = Cardinality(A)
      OBVIOUS
    <3>2. /\ start + (i - 1) * w = (lo + i - 1) * w
          /\ start + (i - 1 + 1) * w = (lo + i) * w
      <4>1. i - 1 \in Int /\ i - 1 + 1 \in Int /\ lo + (i - 1) = lo + i - 1 /\ lo + (i - 1 + 1) = lo + i
        BY <2>3, <2>6
      <4>2. start + (i - 1) * w = (lo + (i - 1)) * w /\ start + (i - 1 + 1) * w = (lo + (i - 1 + 1)) * w
        BY <1>2, <2>3, <2>5, <4>1, Times1
      <4> QED  BY <4>1, <4>2
    <3>3. Cardinality(A) = Cardinality(C)
      <4>1. /\ DOMAIN times = 1 .. Len(times) /\ Len(times) \in Nat
            /\ at \in Bijection(1 .. Len(times), HasTime(x))
            /\ \A k \in 1 .. Len(times) : times[k] = instant(x, at[k])
        BY <1>3 DEF Tells
      <4>2. ASSUME NEW k \in 1 .. Len(times) PROVE k \in A <=> at[k] \in C
        <5>1. at[k] \in HasTime(x) /\ times[k] = instant(x, at[k])
          BY <4>1 DEF Bijection, Injection
        <5>2. idx(times[k]) = q(instant(x, at[k])) - lo
          <6> HIDE DEF idx, q
          <6> QED  BY <2>8, <5>1
        <5>3. q(instant(x, at[k])) \in Int
          <6> HIDE DEF q
          <6>1. q(instant(x, at[k])) \in lo .. hi
            BY <2>4, <5>1
          <6> QED  BY <2>3, <6>1
        <5>4. k \in A <=> q(instant(x, at[k])) - lo = i - 1
          <6> HIDE DEF idx, q
          <6> QED  BY <4>1, <5>2
        <5>5. at[k] \in C <=> q(instant(x, at[k])) = lo + i - 1
          BY <5>1 DEF InBin
        <5> HIDE DEF q, A, C
        <5> QED  BY <2>3, <2>6, <5>3, <5>4, <5>5
      <4>3. A \in SUBSET (1 .. Len(times)) /\ C \in SUBSET HasTime(x)
        BY <4>1 DEF InBin
      <4>4. IsFiniteSet(1 .. Len(times))
        BY <4>1, FS_Interval
      <4> HIDE DEF A, C
      <4> DEFINE D == 1 .. Len(times)
      <4>5. /\ IsFiniteSet(D) /\ at \in Bijection(D, HasTime(x))
            /\ A \in SUBSET D /\ C \in SUBSET HasTime(x)
            /\ \A k \in D : k \in A <=> at[k] \in C
        BY <4>1, <4>2, <4>3, <4>4
      <4> HIDE DEF D
      <4> QED  BY <4>5, CountThrough
    <3> HIDE DEF bin, A, C
    <3> QED  BY <3>1, <3>2, <3>3 DEF C
  <2>10. times # << >>
    <3> SUFFICES ASSUME times = << >> PROVE FALSE
      OBVIOUS
    <3>1. Len(times) = 0
      OBVIOUS
    <3> QED  BY <1>3, <1>6, <3>1, FS_EmptySet DEF Tells
  <2>11. h.bins = [i \in 1 .. m |-> bin(i - 1)]
    <3> HIDE DEF bin
    <3> QED  BY <1>1, <2>7, <2>10
  <2>12. /\ Len(h.bins) = m /\ DOMAIN h.bins = 1 .. m /\ \A i \in 1 .. m : h.bins[i] = bin(i - 1)
    <3> HIDE DEF bin, h
    <3> QED  BY <2>6, <2>11
  <2>13. InBin(x, w, lo) # {} /\ InBin(x, w, hi) # {}
    BY <2>1 DEF InBin, lo, hi
  <2>14. lo + m - 1 = hi /\ m > 0 /\ m # 0 /\ m \in Nat
    BY <2>3, <2>6 DEF m
  <2> HIDE DEF h, bin, q
  <2>15. Binned(h, x, w, lo)
    <3>1. \A o \in HasTime(x) : instant(x, o) \div w \in lo .. hi
      BY <2>4 DEF q
    <3>2. \A i \in 1 .. m : /\ h.bins[i].start = (lo + i - 1) * w
                            /\ h.bins[i].end = (lo + i) * w
                            /\ h.bins[i].count = Cardinality(InBin(x, w, lo + i - 1))
      BY <2>9, <2>12
    <3> QED  BY <1>4, <1>6, <2>3, <2>12, <2>13, <2>14, <3>1, <3>2 DEF Binned
  <2> QED  BY <2>15 DEF h
<1> QED  BY <1>5, <1>6

-----------------------------------------------------------------------------
(* The texts of buckets.                                                   *)
EndsWith(s, t) ==
  IsSuffix(s, t) <=>
    /\ Len(s) <= Len(t)
    /\ \A i \in 1 .. Len(s) : s[Len(s) - i + 1] = t[Len(t) - i + 1]

LEMMA SuffixIs ==
  ASSUME NEW S, NEW s \in Seq(S), NEW t \in Seq(S)
  PROVE  EndsWith(s, t)
<1> DEFINE r == Reverse(s)
           v == Reverse(t)
           m == Len(s)
           n == Len(t)
<1>1. m \in Nat /\ n \in Nat /\ DOMAIN s = 1 .. m /\ DOMAIN t = 1 .. n
  OBVIOUS
<1>2. /\ r = [i \in 1 .. m |-> s[(m - i) + 1]]
      /\ v = [i \in 1 .. n |-> t[(n - i) + 1]]
  BY DEF Reverse
<1> HIDE DEF r, v
<1>3. /\ Len(r) = m /\ r \in Seq(S)
      /\ Len(v) = n /\ v \in Seq(S)
  <2>1. \A i \in 1 .. m : (m - i) + 1 \in 1 .. m
    BY <1>1
  <2>2. \A i \in 1 .. n : (n - i) + 1 \in 1 .. n
    BY <1>1
  <2>3. r \in [1 .. m -> S] /\ v \in [1 .. n -> S]
    <3>1. \A i \in 1 .. m : s[(m - i) + 1] \in S
      BY <1>1, <2>1
    <3>2. \A i \in 1 .. n : t[(n - i) + 1] \in S
      BY <1>1, <2>2
    <3> HIDE DEF m, n
    <3> QED  BY <1>2, <3>1, <3>2
  <2> HIDE DEF m, n
  <2> QED  BY <1>1, <2>3
<1>4. IsSuffix(s, t) <=> (m <= n /\ SubSeq(r, 1, m) = SubSeq(v, 1, m))
  BY <1>3 DEF IsSuffix, IsPrefix, r, v
<1>5. ASSUME m <= n
      PROVE  SubSeq(r, 1, m) = SubSeq(v, 1, m) <=> \A i \in 1 .. m : r[i] = v[i]
  <2>1. /\ \A i \in 1 .. m : r[i] \in S
        /\ \A i \in 1 .. m : v[i] \in S
    <3> HIDE DEF m, n
    <3> QED  BY <1>1, <1>3, <1>5
  <2> DEFINE a == SubSeq(r, 1, m)
             c == SubSeq(v, 1, m)
  <2>2. /\ a \in Seq(S) /\ Len(a) = IF 1 <= m THEN m - 1 + 1 ELSE 0
        /\ \A i \in 1 .. m - 1 + 1 : a[i] = r[1 + i - 1]
        /\ c \in Seq(S) /\ Len(c) = IF 1 <= m THEN m - 1 + 1 ELSE 0
        /\ \A i \in 1 .. m - 1 + 1 : c[i] = v[1 + i - 1]
    <3>1. m \in Int /\ 1 \in Int
      BY <1>1
    <3> HIDE DEF m, n
    <3> QED  BY <1>1, <2>1, <3>1, SubSeqProperties
  <2>3. /\ Len(a) = m /\ Len(c) = m /\ \A i \in 1 .. m : a[i] = r[i] /\ c[i] = v[i]
    <3> HIDE DEF m, n, a, c
    <3> QED  BY <1>1, <2>2
  <2> HIDE DEF a, c, m
  <2> QED  BY <2>2, <2>3 DEF a, c
<1>6. ASSUME m <= n
      PROVE  (\A i \in 1 .. m : r[i] = v[i]) <=> (\A i \in 1 .. m : s[m - i + 1] = t[n - i + 1])
  <2>1. \A i \in 1 .. m : r[i] = s[m - i + 1] /\ v[i] = t[n - i + 1]
    <3> HIDE DEF m, n
    <3> QED  BY <1>1, <1>2, <1>6
  <2>2. \A i \in 1 .. m : r[i] = v[i] <=> s[m - i + 1] = t[n - i + 1]
    <3> SUFFICES ASSUME NEW i \in 1 .. m PROVE r[i] = v[i] <=> s[m - i + 1] = t[n - i + 1]
      OBVIOUS
    <3>1. r[i] = s[m - i + 1] /\ v[i] = t[n - i + 1]
      BY <2>1
    <3> QED  BY <3>1
  <2> HIDE DEF m, n
  <2> QED  BY Zenon, <2>2
<1> HIDE DEF m, n
<1> DEFINE same == \A i \in 1 .. m : s[m - i + 1] = t[n - i + 1]
           equal == \A i \in 1 .. m : r[i] = v[i]
           parts == SubSeq(r, 1, m) = SubSeq(v, 1, m)
<1>7. IsSuffix(s, t) <=> (m <= n /\ same)
  <2>1. m <= n => (parts <=> equal) /\ (equal <=> same)
    BY <1>5, <1>6
  <2>2. IsSuffix(s, t) <=> (m <= n /\ parts)
    BY <1>4
  <2> HIDE DEF same, equal, parts
  <2> QED  BY <2>1, <2>2
<1> QED  BY <1>7 DEF EndsWith, m, n

(* How each of the units ends a text.                                      *)
UnitEnds(t) ==
  /\ \A u \in 1 .. 3 : IsSuffix(UnitTexts[u], t) <=>
       /\ Len(t) >= 2 /\ t[Len(t)] = "s"
       /\ t[Len(t) - 1] = CASE u = 1 -> "m" [] u = 2 -> "u" [] u = 3 -> "n"
  /\ IsSuffix(UnitTexts[4], t) <=> Len(t) >= 1 /\ t[Len(t)] = "s"
  /\ IsSuffix(UnitTexts[5], t) <=> Len(t) >= 1 /\ t[Len(t)] = "m"

LEMMA UnitsAre ==
  /\ Len(UnitTexts) = 5 /\ DOMAIN UnitTexts = 1 .. 5
  /\ UnitTexts[1] = <<"m", "s">> /\ UnitTexts[2] = <<"u", "s">> /\ UnitTexts[3] = <<"n", "s">>
  /\ UnitTexts[4] = <<"s">> /\ UnitTexts[5] = <<"m">>
<1> DEFINE t == << <<"m", "s">>, <<"u", "s">>, <<"n", "s">>, <<"s">>, <<"m">> >>
<1>1. /\ Len(t) = 5 /\ DOMAIN t = 1 .. 5
      /\ t[1] = <<"m", "s">> /\ t[2] = <<"u", "s">> /\ t[3] = <<"n", "s">>
      /\ t[4] = <<"s">> /\ t[5] = <<"m">>
  OBVIOUS
<1> QED  BY <1>1 DEF UnitTexts

LEMMA UnitsEnd ==
  ASSUME NEW S, NEW t \in Seq(S)
  PROVE  UnitEnds(t)
<1>1. Len(t) \in Nat
  OBVIOUS
<1>2. ASSUME NEW c
      PROVE  IsSuffix(<<c, "s">>, t) <=> (Len(t) >= 2 /\ t[Len(t)] = "s" /\ t[Len(t) - 1] = c)
  <2> DEFINE s == <<c, "s">>
             R == S \cup {c, "s"}
  <2>1. s \in Seq(R) /\ Len(s) = 2 /\ s[1] = c /\ s[2] = "s" /\ t \in Seq(R)
    <3>1. c \in R /\ "s" \in R /\ S \subseteq R
      OBVIOUS
    <3> HIDE DEF R
    <3> QED  BY <3>1
  <2> HIDE DEF s, R
  <2>2. EndsWith(s, t)
    BY <2>1, SuffixIs
  <2>3. /\ \A i \in 1 .. 2 : i = 1 \/ i = 2
        /\ 2 - 1 + 1 = 2 /\ 2 - 2 + 1 = 1 /\ Len(t) - 1 + 1 = Len(t) /\ Len(t) - 2 + 1 = Len(t) - 1
    BY <1>1
  <2>4. (\A i \in 1 .. Len(s) : s[Len(s) - i + 1] = t[Len(t) - i + 1])
          <=> (t[Len(t)] = "s" /\ t[Len(t) - 1] = c)
    BY <2>1, <2>3
  <2>5. IsSuffix(s, t) <=> (2 <= Len(t) /\ t[Len(t)] = "s" /\ t[Len(t) - 1] = c)
    BY <2>1, <2>2, <2>4 DEF EndsWith
  <2> QED  BY <1>1, <2>5 DEF s
<1>3. ASSUME NEW c
      PROVE  IsSuffix(<<c>>, t) <=> (Len(t) >= 1 /\ t[Len(t)] = c)
  <2> DEFINE s == <<c>>
             R == S \cup {c}
  <2>1. s \in Seq(R) /\ Len(s) = 1 /\ s[1] = c /\ t \in Seq(R)
    <3>1. c \in R /\ S \subseteq R
      OBVIOUS
    <3> HIDE DEF R
    <3> QED  BY <3>1
  <2> HIDE DEF s, R
  <2>2. EndsWith(s, t)
    BY <2>1, SuffixIs
  <2>3. (\A i \in 1 .. Len(s) : s[Len(s) - i + 1] = t[Len(t) - i + 1]) <=> t[Len(t)] = c
    <3>1. 1 - 1 + 1 = 1 /\ Len(t) - 1 + 1 = Len(t) /\ 1 .. 1 = {1}
      BY <1>1
    <3> QED  BY <2>1, <3>1
  <2>4. IsSuffix(s, t) <=> (1 <= Len(t) /\ t[Len(t)] = c)
    BY <2>1, <2>2, <2>3 DEF EndsWith
  <2> QED  BY <1>1, <2>4 DEF s
<1>4. \A u \in 1 .. 3 : IsSuffix(UnitTexts[u], t) <=>
        /\ Len(t) >= 2 /\ t[Len(t)] = "s"
        /\ t[Len(t) - 1] = CASE u = 1 -> "m" [] u = 2 -> "u" [] u = 3 -> "n"
  <2> SUFFICES ASSUME NEW u \in 1 .. 3
               PROVE  IsSuffix(UnitTexts[u], t) <=>
                        /\ Len(t) >= 2 /\ t[Len(t)] = "s"
                        /\ t[Len(t) - 1] = CASE u = 1 -> "m" [] u = 2 -> "u" [] u = 3 -> "n"
    OBVIOUS
  <2>1. u = 1 \/ u = 2 \/ u = 3
    OBVIOUS
  <2> QED  BY <1>2, <2>1, UnitsAre
<1> QED  BY <1>3, <1>4, UnitsAre DEF UnitEnds

(* The first unit that ends a text.                                        *)
FirstUnit(t) ==
  \/ suffix(t) = 0 /\ \A u \in 1 .. 5 : ~ IsSuffix(UnitTexts[u], t)
  \/ /\ suffix(t) \in 1 .. 5 /\ IsSuffix(UnitTexts[suffix(t)], t)
     /\ \A u \in 1 .. 5 : IsSuffix(UnitTexts[u], t) => suffix(t) <= u

LEMMA SuffixFound ==
  ASSUME NEW t
  PROVE  FirstUnit(t)
<1> DEFINE I == {i \in 1 .. Len(UnitTexts) : IsSuffix(UnitTexts[i], t)}
<1>1. suffix(t) = IF I # {} THEN Min(I) ELSE 0
  BY DEF suffix, SelectInSeq
<1>2. I = {i \in 1 .. 5 : IsSuffix(UnitTexts[i], t)}
  BY UnitsAre
<1>3. I \in SUBSET Int /\ IsFiniteSet(I)
  <2>1. IsFiniteSet(1 .. 5) /\ I \in SUBSET (1 .. 5)
    <3>1. 1 \in Int /\ 5 \in Int
      OBVIOUS
    <3>2. IsFiniteSet(1 .. 5)
      BY <3>1, FS_Interval
    <3> QED  BY <1>2, <3>2
  <2> HIDE DEF I
  <2>2. IsFiniteSet(I)
    BY <2>1, FS_Subset
  <2> QED  BY <2>1, <2>2
<1> HIDE DEF I
<1>4. I # {} => Min(I) \in I /\ \A u \in I : Min(I) <= u
  BY <1>3, LeastIs
<1> QED  BY <1>1, <1>2, <1>4 DEF FirstUnit

LEMMA UnitLetters ==
  ASSUME NEW R, "m" \in R, "s" \in R, "u" \in R, "n" \in R, NEW u \in 1 .. 5
  PROVE  UnitTexts[u] \in Seq(R)
<1>1. u = 1 \/ u = 2 \/ u = 3 \/ u = 4 \/ u = 5
  OBVIOUS
<1>2. <<"m", "s">> \in Seq(R) /\ <<"u", "s">> \in Seq(R) /\ <<"n", "s">> \in Seq(R)
  OBVIOUS
<1>3. <<"s">> \in Seq(R) /\ <<"m">> \in Seq(R)
  OBVIOUS
<1> QED  BY <1>1, <1>2, <1>3, UnitsAre

LEMMA BeforeSuffix ==
  ASSUME NEW S, NEW s \in Seq(S), NEW t \in Seq(S), IsSuffix(s, t)
  PROVE  t = SubSeq(t, 1, Len(t) - Len(s)) \o s
<1> DEFINE m == Len(s)
           n == Len(t)
           a == SubSeq(t, 1, n - m)
           b == a \o s
<1>1. m \in Nat /\ n \in Nat /\ DOMAIN s = 1 .. m /\ DOMAIN t = 1 .. n
  OBVIOUS
<1>2. m <= n /\ \A i \in 1 .. m : s[m - i + 1] = t[n - i + 1]
  BY SuffixIs DEF EndsWith
<1> HIDE DEF m, n
<1>3. a \in Seq(S) /\ Len(a) = n - m /\ \A i \in 1 .. n - m : a[i] = t[i]
  <2>1. 1 \in Int /\ n - m \in Int /\ \A i \in 1 .. n - m : t[i] \in S
    BY <1>1, <1>2
  <2>2. /\ a \in Seq(S)
        /\ Len(a) = IF 1 <= n - m THEN n - m - 1 + 1 ELSE 0
        /\ \A i \in 1 .. n - m - 1 + 1 : a[i] = t[1 + i - 1]
    BY <2>1, SubSeqProperties
  <2> HIDE DEF a
  <2>3. n - m - 1 + 1 = n - m /\ \A i \in 1 .. n - m : 1 + i - 1 = i
    BY <1>1
  <2> QED  BY <1>1, <1>2, <2>2, <2>3
<1> HIDE DEF a
<1>4. b \in Seq(S) /\ Len(b) = n
  <2>1. Len(a \o s) = Len(a) + Len(s) /\ a \o s \in Seq(S)
    BY <1>3
  <2> QED  BY <1>1, <1>3, <2>1 DEF m
<1>5. ASSUME NEW i \in 1 .. n PROVE b[i] = t[i]
  <2>1. CASE i <= n - m
    <3>1. i \in 1 .. Len(a) /\ i \in 1 .. n - m
      BY <1>1, <1>3, <2>1
    <3>2. b[i] = a[i]
      BY <1>3, <3>1
    <3> QED  BY <1>3, <3>1, <3>2
  <2>2. CASE i > n - m
    <3> DEFINE j == n - i + 1
    <3>1. j \in 1 .. m /\ m - j + 1 = i - (n - m) /\ n - j + 1 = i /\ i - (n - m) \in 1 .. m
      BY <1>1, <1>2, <2>2
    <3> HIDE DEF j
    <3>2. s[i - (n - m)] = t[i]
      BY <1>2, <3>1
    <3>3. b[i] = s[i - Len(a)]
      <4>1. i \in 1 .. Len(a) + Len(s) /\ ~ (i <= Len(a))
        BY <1>1, <1>2, <1>3, <2>2 DEF m
      <4> QED  BY <1>3, <4>1
    <3> QED  BY <1>3, <3>2, <3>3
  <2>3. i <= n - m \/ i > n - m
    BY <1>1
  <2> HIDE DEF b
  <2> QED  BY <2>1, <2>2, <2>3
<1>6. t \in Seq(S) /\ Len(t) = n /\ n \in Nat
  BY <1>1 DEF n
<1>7. b = t
  <2> HIDE DEF b
  <2>1. b = [i \in 1 .. n |-> b[i]] /\ t = [i \in 1 .. n |-> t[i]]
    BY <1>1, <1>4, <1>6
  <2> QED  BY <1>5, <2>1
<1> QED  BY <1>7 DEF a, m, n

LEMMA NumberAndUnit ==
  ASSUME NEW n \in Seq(NumberChars) \ {<< >>}, NEW u \in 1 .. 5, NEW t, t = n \o UnitTexts[u]
  PROVE  suffix(t) = u /\ SubSeq(t, 1, Len(t) - Len(UnitTexts[u])) = n
<1> DEFINE R == NumberChars \cup {"m", "s", "u", "n"}
           s == UnitTexts[u]
           k == Len(n)
           m == Len(s)
<1>1. n \in Seq(R) /\ s \in Seq(R) /\ u \in {1, 2, 3, 4, 5}
  <2>1. NumberChars \subseteq R /\ "m" \in R /\ "s" \in R /\ "u" \in R /\ "n" \in R
    OBVIOUS
  <2>2. u = 1 \/ u = 2 \/ u = 3 \/ u = 4 \/ u = 5
    OBVIOUS
  <2> HIDE DEF R
  <2>3. n \in Seq(R)
    BY <2>1
  <2>4. s \in Seq(R)
    BY <2>1, UnitLetters
  <2> QED  BY <2>2, <2>3, <2>4
<1>2. /\ k \in Nat /\ k >= 1 /\ m \in Nat /\ n[k] \in NumberChars
      /\ m = (IF u <= 3 THEN 2 ELSE 1)
      /\ s[m] = (IF u = 5 THEN "m" ELSE "s")
  <2>1. k \in Nat /\ k >= 1 /\ n[k] \in NumberChars
    OBVIOUS
  <2>2. m = (IF u <= 3 THEN 2 ELSE 1) /\ s[m] = (IF u = 5 THEN "m" ELSE "s")
    <3>1. u = 1 => s = <<"m", "s">>
      BY UnitsAre
    <3>2. u = 2 => s = <<"u", "s">>
      BY UnitsAre
    <3>3. u = 3 => s = <<"n", "s">>
      BY UnitsAre
    <3>4. u = 4 => s = <<"s">>
      BY UnitsAre
    <3>5. u = 5 => s = <<"m">>
      BY UnitsAre
    <3> HIDE DEF s
    <3>6. ASSUME NEW c, s = <<c, "s">> PROVE m = 2 /\ s[m] = "s"
      BY <3>6
    <3>7. ASSUME NEW c, s = <<c>> PROVE m = 1 /\ s[m] = c
      BY <3>7
    <3> HIDE DEF m
    <3> QED  BY <1>1, <3>1, <3>2, <3>3, <3>4, <3>5, <3>6, <3>7
  <2> QED  BY <2>1, <2>2
<1>3. /\ t \in Seq(R) /\ Len(t) = k + m
      /\ \A i \in 1 .. k : t[i] = n[i]
      /\ \A i \in 1 .. m : t[k + i] = s[i]
  <2> HIDE DEF R
  <2> QED  BY <1>1, <1>2
<1> HIDE DEF R, s
<1>4. UnitEnds(t)
  BY <1>3, UnitsEnd
<1>5. Len(t) >= 2 /\ t[Len(t)] = (IF u = 5 THEN "m" ELSE "s")
  <2>1. Len(t) >= 2 /\ m \in 1 .. m
    BY <1>2, <1>3
  <2> QED  BY <1>2, <1>3, <2>1
<1>6. ASSUME u <= 3 PROVE t[Len(t) - 1] = CASE u = 1 -> "m" [] u = 2 -> "u" [] u = 3 -> "n"
  <2>1. Len(t) - 1 = k + 1 /\ 1 \in 1 .. m
    BY <1>2, <1>3, <1>6
  <2>2. t[Len(t) - 1] = s[1]
    BY <1>3, <2>1
  <2>3. s[1] = CASE u = 1 -> "m" [] u = 2 -> "u" [] u = 3 -> "n"
    BY <1>1, <1>6, UnitsAre DEF s
  <2> QED  BY <2>2, <2>3
<1>7. ASSUME u > 3 PROVE t[Len(t) - 1] \notin {"m", "u", "n"}
  <2>1. Len(t) - 1 = k /\ k \in 1 .. k
    BY <1>2, <1>3, <1>7
  <2>2. t[Len(t) - 1] = n[k]
    BY <1>3, <2>1
  <2> QED  BY <1>2, <2>2 DEF NumberChars
<1>8. IsSuffix(UnitTexts[u], t) /\ \A v \in 1 .. 5 : IsSuffix(UnitTexts[v], t) => u <= v
  <2> DEFINE last == t[Len(t)]
             before == t[Len(t) - 1]
             ends(v) == IsSuffix(UnitTexts[v], t)
  <2>1. /\ ends(1) <=> last = "s" /\ before = "m"
        /\ ends(2) <=> last = "s" /\ before = "u"
        /\ ends(3) <=> last = "s" /\ before = "n"
        /\ ends(4) <=> last = "s"
        /\ ends(5) <=> last = "m"
    BY <1>4, <1>5 DEF UnitEnds
  <2>2. /\ last = (IF u = 5 THEN "m" ELSE "s")
        /\ u = 1 => before = "m"
        /\ u = 2 => before = "u"
        /\ u = 3 => before = "n"
        /\ u > 3 => before \notin {"m", "u", "n"}
    BY <1>5, <1>6, <1>7
  <2> HIDE DEF last, before, ends
  <2>3. ends(u)
    BY <1>1, <2>1, <2>2
  <2>4. ASSUME NEW v \in 1 .. 5, ends(v) PROVE u <= v
    <3>1. v = 1 \/ v = 2 \/ v = 3 \/ v = 4 \/ v = 5
      OBVIOUS
    <3> QED  BY <1>1, <2>1, <2>2, <2>4, <3>1
  <2> QED  BY <2>3, <2>4 DEF ends
<1>9. suffix(t) = u
  BY <1>8, SuffixFound DEF FirstUnit
<1>10. SubSeq(t, 1, Len(t) - m) = n
  <2> DEFINE a == SubSeq(t, 1, k)
  <2>1. Len(t) - m = k
    BY <1>2, <1>3
  <2>2. 1 \in Int /\ k \in Int /\ \A i \in 1 .. k : t[i] \in R
    BY <1>1, <1>2, <1>3
  <2>3. /\ a \in Seq(R) /\ Len(a) = IF 1 <= k THEN k - 1 + 1 ELSE 0
        /\ \A i \in 1 .. k - 1 + 1 : a[i] = t[1 + i - 1]
    BY <2>2, SubSeqProperties
  <2> HIDE DEF a
  <2>4. Len(a) = k /\ \A i \in 1 .. k : a[i] = n[i]
    BY <1>2, <1>3, <2>3
  <2>5. a = n
    BY <1>1, <2>3, <2>4
  <2> QED  BY <2>1, <2>5 DEF a
<1> QED  BY <1>9, <1>10 DEF s

LEMMA DurationIs ==
  ASSUME NEW text \in DOMAIN Buckets
  PROVE  parse_duration(text) = Buckets[text] /\ Buckets[text] \in Nat
<1> DEFINE u == suffix(text)
           n == IF u \in DOMAIN UnitTexts
                THEN SubSeq(text, 1, Len(text) - Len(UnitTexts[u])) ELSE << >>
<1>1. parse_duration(text) = IF n \notin DOMAIN Digits THEN Units[4] ELSE Digits[n] * Units[u]
  BY DEF parse_duration
<1>2. /\ DOMAIN UnitTexts = 1 .. 5 /\ DOMAIN Units = 1 .. 5 /\ 4 \in 1 .. 5
      /\ DOMAIN Digits \subseteq Seq(NumberChars) \ {<< >>}
      /\ \A i \in 1 .. 5 : Units[i] \in Nat
      /\ \A d \in DOMAIN Digits : Digits[d] \in Nat
  BY HistogramAssumption, UnitsAre
<1> DEFINE Number == \E d \in DOMAIN Digits, v \in DOMAIN Units :
                       text = d \o UnitTexts[v] /\ Buckets[text] = Digits[d] * Units[v]
           NoNumber == /\ \A d \in DOMAIN Digits, v \in DOMAIN Units : text # d \o UnitTexts[v]
                       /\ Buckets[text] = Units[4]
<1>3. text \in Seq(ToSet(text)) /\ (Number \/ NoNumber)
  BY BucketsAssumption
<1>4. CASE Number
  <2>1. PICK d \in DOMAIN Digits, v \in 1 .. 5 :
          text = d \o UnitTexts[v] /\ Buckets[text] = Digits[d] * Units[v]
    BY <1>2, <1>4
  <2>2. d \in Seq(NumberChars) \ {<< >>}
    BY <1>2
  <2>3. u = v /\ SubSeq(text, 1, Len(text) - Len(UnitTexts[v])) = d
    BY <2>1, <2>2, NumberAndUnit
  <2>4. n = d
    BY <1>2, <2>3
  <2> HIDE DEF n, u
  <2>5. Digits[d] \in Nat /\ Units[v] \in Nat
    BY <1>2
  <2>6. Digits[d] * Units[v] \in Nat
    BY SMT, <2>5
  <2> QED  BY <1>1, <2>1, <2>3, <2>4, <2>6
<1>5. CASE NoNumber
  <2>1. n \notin DOMAIN Digits
    <3>1. CASE u \in 1 .. 5
      <4> DEFINE R == ToSet(text) \cup {"m", "s", "u", "n"}
      <4>1. IsSuffix(UnitTexts[u], text)
        BY <3>1, SuffixFound DEF FirstUnit
      <4>2. text \in Seq(R) /\ UnitTexts[u] \in Seq(R)
        <5>1. ToSet(text) \subseteq R /\ "m" \in R /\ "s" \in R /\ "u" \in R /\ "n" \in R
          OBVIOUS
        <5> HIDE DEF R, u
        <5>2. text \in Seq(R)
          BY <1>3, <5>1
        <5>3. UnitTexts[u] \in Seq(R)
          BY <3>1, <5>1, UnitLetters
        <5> QED  BY <5>2, <5>3
      <4> HIDE DEF R, u
      <4>3. text = SubSeq(text, 1, Len(text) - Len(UnitTexts[u])) \o UnitTexts[u]
        BY <4>1, <4>2, BeforeSuffix
      <4>4. text = n \o UnitTexts[u]
        BY <1>2, <3>1, <4>3
      <4> HIDE DEF n
      <4> QED  BY <1>2, <1>5, <3>1, <4>4
    <3>2. CASE u \notin 1 .. 5
      <4>1. n = << >>
        BY <1>2, <3>2
      <4> QED  BY <1>2, <4>1
    <3> QED  BY <3>1, <3>2
  <2> HIDE DEF n, u
  <2> QED  BY <1>1, <1>2, <1>5, <2>1
<1> QED  BY <1>3, <1>4, <1>5

-----------------------------------------------------------------------------
(* The counts of the bins, and of all up to one.                           *)
UpTo(x, w, q) == {o \in HasTime(x) : instant(x, o) \div w < q}

LEMMA CountsAre ==
  ASSUME NEW T, NEW x \in Seq(T), NEW h, NEW w \in Nat \ {0}, NEW lo, Binned(h, x, w, lo)
  PROVE  /\ Counts(h) \in Seq(Nat) /\ Len(Counts(h)) = Len(h.bins)
         /\ \E g : SumsUp(g, Counts(h)) /\ g[Len(h.bins)] = Cardinality(HasTime(x))
<1> DEFINE n == Len(h.bins)
           c == Counts(h)
           g == [k \in 0 .. n |-> Cardinality(UpTo(x, w, lo + k))]
<1>1. n \in Nat /\ lo \in Nat /\ DOMAIN h.bins = 1 .. n
  BY DEF Binned
<1>2. IsFiniteSet(HasTime(x)) /\ \A o \in HasTime(x) : instant(x, o) \in Nat
  BY TimesAre DEF Tells
<1>3. \A o \in HasTime(x) : instant(x, o) \div w \in Nat
  BY <1>2, QuotientIs
<1>4. ASSUME NEW q
      PROVE  /\ IsFiniteSet(UpTo(x, w, q)) /\ Cardinality(UpTo(x, w, q)) \in Nat
             /\ IsFiniteSet(InBin(x, w, q)) /\ Cardinality(InBin(x, w, q)) \in Nat
  <2>1. UpTo(x, w, q) \in SUBSET HasTime(x) /\ InBin(x, w, q) \in SUBSET HasTime(x)
    BY DEF UpTo, InBin
  <2>2. IsFiniteSet(UpTo(x, w, q)) /\ IsFiniteSet(InBin(x, w, q))
    BY <1>2, <2>1, FS_Subset
  <2> QED  BY <2>2, FS_CardinalityType
<1>5. ASSUME NEW k \in 1 .. n
      PROVE  c[k] = Cardinality(InBin(x, w, lo + k - 1)) /\ c[k] \in Nat
  <2>1. c[k] = h.bins[k].count
    BY <1>1 DEF Counts
  <2>2. h.bins[k].count = Cardinality(InBin(x, w, lo + k - 1))
    BY DEF Binned
  <2> QED  BY <1>4, <2>1, <2>2
<1>6. c \in Seq(Nat) /\ Len(c) = n
  <2>1. c = [i \in 1 .. n |-> h.bins[i].count]
    BY <1>1 DEF Counts
  <2>2. DOMAIN c = 1 .. n
    BY <2>1
  <2>3. c \in [1 .. n -> Nat]
    <3> HIDE DEF c, n
    <3>1. c = [i \in 1 .. n |-> c[i]]
      BY <2>1 DEF c
    <3> QED  BY <1>5, <3>1
  <2> HIDE DEF c, n
  <2> QED  BY <1>1, <2>3
<1>7. ASSUME NEW k \in 1 .. n
      PROVE  Cardinality(UpTo(x, w, lo + k))
               = Cardinality(UpTo(x, w, lo + (k - 1))) + Cardinality(InBin(x, w, lo + k - 1))
  <2> DEFINE A == UpTo(x, w, lo + (k - 1))
             C == InBin(x, w, lo + k - 1)
             U == UpTo(x, w, lo + k)
  <2>1. ASSUME NEW o \in HasTime(x)
        PROVE  /\ instant(x, o) \div w < lo + k <=>
                    (instant(x, o) \div w < lo + (k - 1) \/ instant(x, o) \div w = lo + k - 1)
               /\ ~ (instant(x, o) \div w < lo + (k - 1) /\ instant(x, o) \div w = lo + k - 1)
    <3> DEFINE q == instant(x, o) \div w
    <3>1. q \in Nat
      BY <1>3
    <3> HIDE DEF q
    <3>2. /\ q < lo + k <=> (q < lo + (k - 1) \/ q = lo + k - 1)
          /\ ~ (q < lo + (k - 1) /\ q = lo + k - 1)
      BY <1>1, <3>1
    <3> QED  BY <3>2 DEF q
  <2>2. U = A \cup C /\ A \cap C = {}
    BY <2>1 DEF UpTo, InBin
  <2>3. IsFiniteSet(A) /\ IsFiniteSet(C) /\ Cardinality(A) \in Nat /\ Cardinality(C) \in Nat
    BY <1>4
  <2> HIDE DEF A, C, U
  <2>4. Cardinality(A \cup C) = Cardinality(A) + Cardinality(C) - Cardinality({})
    BY <2>2, <2>3, FS_Union
  <2>5. Cardinality({}) = 0
    BY FS_EmptySet
  <2>6. Cardinality(U) = Cardinality(A) + Cardinality(C)
    BY <2>2, <2>3, <2>4, <2>5
  <2> QED  BY Zenon, <2>6 DEF A, C, U
<1>8. UpTo(x, w, lo + 0) = {} /\ UpTo(x, w, lo + n) = HasTime(x)
  <2>1. \A o \in HasTime(x) : /\ ~ (instant(x, o) \div w < lo + 0)
                              /\ instant(x, o) \div w < lo + n
    <3> SUFFICES ASSUME NEW o \in HasTime(x)
                 PROVE  ~ (instant(x, o) \div w < lo + 0) /\ instant(x, o) \div w < lo + n
      OBVIOUS
    <3> DEFINE q == instant(x, o) \div w
    <3>1. q \in lo .. lo + n - 1
      BY DEF Binned
    <3> HIDE DEF q
    <3>2. ~ (q < lo + 0) /\ q < lo + n
      BY <1>1, <3>1
    <3> QED  BY <3>2 DEF q
  <2> QED  BY <2>1 DEF UpTo
<1>9. SumsUp(g, c)
  <2>1. \A k \in 0 .. n : g[k] = Cardinality(UpTo(x, w, lo + k)) /\ g[k] \in Nat
    BY <1>4
  <2>2. 0 \in 0 .. n
    BY <1>1
  <2>3. g[0] = 0
    <3>1. g[0] = Cardinality(UpTo(x, w, lo + 0))
      BY <2>1, <2>2
    <3> HIDE DEF g
    <3> QED  BY <1>8, <3>1, FS_EmptySet
  <2>4. ASSUME NEW k \in 1 .. n PROVE g[k] = g[k - 1] + c[k]
    <3>1. k \in 0 .. n /\ k - 1 \in 0 .. n
      BY <1>1
    <3>2. g[k] = Cardinality(UpTo(x, w, lo + k)) /\ g[k - 1] = Cardinality(UpTo(x, w, lo + (k - 1)))
      BY <2>1, <3>1
    <3> HIDE DEF g, c
    <3> QED  BY <1>5, <1>7, <3>2
  <2> HIDE DEF g, c, n
  <2> QED  BY <1>6, <2>1, <2>3, <2>4 DEF SumsUp
<1>10. g[n] = Cardinality(HasTime(x))
  <2>1. n \in 0 .. n
    BY <1>1
  <2> QED  BY <1>8, <2>1
<1> HIDE DEF g
<1> QED  BY <1>6, <1>9, <1>10

(* How many of n bins are behind the first i of width characters.          *)
Edge(i, n, width) == (i * n) \div width

LEMMA Edges ==
  ASSUME NEW n \in Nat, NEW width \in 1 .. n
  PROVE  /\ Edge(0, n, width) = 0 /\ Edge(width, n, width) = n
         /\ \A i \in 0 .. width : Edge(i, n, width) \in 0 .. n
         /\ \A i \in 0 .. width - 1 : Edge(i, n, width) + 1 <= Edge(i + 1, n, width)
<1>1. width \in Nat \ {0} /\ width <= n
  OBVIOUS
<1>2. Edge(0, n, width) = 0
  <2>1. 0 * n = 0 /\ width * 0 <= 0 /\ 0 < width * 0 + width
    BY SMT, <1>1
  <2>2. 0 \div width = 0
    BY <1>1, <2>1, DivIs
  <2> QED  BY <2>1, <2>2 DEF Edge
<1>3. Edge(width, n, width) = n
  <2>1. width * n \in Int /\ width * n <= width * n /\ width * n < width * n + width
    BY SMT, <1>1
  <2>2. (width * n) \div width = n
    BY <1>1, <2>1, DivIs
  <2> QED  BY <2>2 DEF Edge
<1>4. ASSUME NEW i \in 0 .. width PROVE Edge(i, n, width) \in 0 .. n
  <2>1. i \in Nat /\ i * n \in Nat /\ width * n \in Nat /\ i * n <= width * n
    <3>1. i \in Nat /\ width - i \in Nat
      OBVIOUS
    <3>2. (width - i) * n \in Nat /\ i * n \in Nat /\ width * n = i * n + (width - i) * n
      BY SMT, <1>1, <3>1
    <3> DEFINE a == i * n
               c == (width - i) * n
               d == width * n
    <3>3. c \in Nat /\ a \in Nat /\ d = a + c
      BY <3>2
    <3> HIDE DEF a, c, d
    <3>4. a \in Nat /\ d \in Nat /\ a <= d
      BY <3>3
    <3> QED  BY <3>1, <3>4 DEF a, d
  <2> DEFINE a == i * n
             d == width * n
  <2>2. a \in Nat /\ d \in Nat /\ a <= d
    BY <2>1
  <2> HIDE DEF a, d
  <2>3. a \div width <= d \div width /\ a \div width \in Nat
    BY <1>1, <2>2, QuotientsGrow, QuotientIs
  <2>4. d \div width = n
    BY <1>3 DEF Edge, d
  <2> DEFINE e == a \div width
  <2>5. e <= n /\ e \in Nat
    BY <2>3, <2>4
  <2> HIDE DEF e
  <2>6. e \in 0 .. n
    BY <2>5
  <2> QED  BY <2>6 DEF Edge, a, e
<1>5. ASSUME NEW i \in 0 .. width - 1 PROVE Edge(i, n, width) + 1 <= Edge(i + 1, n, width)
  <2> DEFINE a == i * n
             d == (i + 1) * n
             e == a \div width
  <2>1. i \in Nat
    OBVIOUS
  <2>2. a \in Nat /\ d = a + n
    BY SMT, <2>1
  <2> HIDE DEF a, d
  <2>3. e \in Nat /\ width * e <= a /\ a < width * e + width
    BY <1>1, <2>2, QuotientIs
  <2> HIDE DEF e
  <2>4. (a + width) \div width = e + 1
    <3>1. width * (e + 1) = width * e + width /\ width * e \in Int
      BY SMT, <1>1, <2>3
    <3>2. a + width \in Int /\ width * (e + 1) <= a + width /\ a + width < width * (e + 1) + width
      BY <1>1, <2>2, <2>3, <3>1
    <3> DEFINE b == a + width
               f == e + 1
    <3>3. b \in Int /\ f \in Int /\ width * f <= b /\ b < width * f + width
      BY <2>3, <3>2
    <3> HIDE DEF b, f
    <3>4. b \div width = f
      BY <1>1, <3>3, DivIs
    <3> QED  BY <3>4 DEF b, f
  <2>5. a + width \in Nat /\ d \in Nat /\ a + width <= d
    BY <1>1, <2>2
  <2>6. (a + width) \div width <= d \div width
    BY <1>1, <2>5, QuotientsGrow
  <2> QED  BY <2>4, <2>6 DEF Edge, a, d, e
<1> QED  BY <1>2, <1>3, <1>4, <1>5

(* The counts behind the characters are those of the bins.                 *)
LEMMA MergedIs ==
  ASSUME NEW h, Len(h.bins) \in Nat, Counts(h) \in Seq(Nat), Len(Counts(h)) = Len(h.bins),
         NEW g, SumsUp(g, Counts(h)), NEW width \in 1 .. Len(h.bins)
  PROVE  /\ merged(h, width) \in Seq(Nat) /\ Len(merged(h, width)) = width
         /\ Total(merged(h, width)) = g[Len(h.bins)]
<1> DEFINE n == Len(h.bins)
           c == Counts(h)
           e(i) == Edge(i, n, width)
           to(i) == Min({Max({((i + 1) * n) \div width, e(i) + 1}), n})
           m == merged(h, width)
           v == [i \in 1 .. width |-> Total(SubSeq(c, e(i - 1) + 1, to(i - 1)))]
           G == [i \in 0 .. width |-> g[e(i)]]
<1>1. m = v
  <2>1. n # 0
    OBVIOUS
  <2> QED  BY <2>1 DEF merged, Edge
<1>0. n \in Nat /\ Len(c) = n /\ width \in 1 .. n /\ SumsUp(g, c) /\ c \in Seq(Nat)
  OBVIOUS
<1> USE <1>0
<1> HIDE DEF n
<1>2. /\ e(0) = 0 /\ e(width) = n
      /\ \A i \in 0 .. width : e(i) \in 0 .. n
      /\ \A i \in 0 .. width - 1 : e(i) + 1 <= e(i + 1)
  BY Edges
<1>3. width \in Nat /\ width >= 1
  OBVIOUS
<1>4. ASSUME NEW i \in 0 .. width - 1 PROVE to(i) = e(i + 1)
  <2> DEFINE a == ((i + 1) * n) \div width
             b == e(i) + 1
  <2>1. a = e(i + 1)
    BY DEF Edge
  <2> HIDE DEF a
  <2>2. i \in 0 .. width /\ i + 1 \in 0 .. width
    BY <1>3
  <2>3. e(i) \in 0 .. n /\ e(i + 1) \in 0 .. n /\ e(i) + 1 <= e(i + 1)
    BY <1>2, <2>2
  <2> HIDE DEF e
  <2>4. a \in Int /\ b \in Int /\ b <= a /\ a <= n /\ n \in Int
    BY <2>1, <2>3
  <2> HIDE DEF b
  <2>5. Max({a, b}) = a
    <3>1. Max({a, b}) = IF a <= b THEN b ELSE a
      BY <2>4, OfTwo
    <3> QED  BY <2>4, <3>1
  <2>6. Min({a, n}) = a
    BY <2>4, OfTwo
  <2> QED  BY <2>1, <2>5, <2>6 DEF a, b
<1>5. ASSUME NEW i \in 1 .. width
      PROVE  v[i] = g[e(i)] - g[e(i - 1)] /\ v[i] \in Nat
  <2>1. i - 1 \in 0 .. width - 1 /\ i - 1 \in 0 .. width /\ i \in 0 .. width /\ i - 1 + 1 = i
    BY <1>3
  <2>2. to(i - 1) = e(i)
    <3> HIDE DEF to, e
    <3> QED  BY <1>4, <2>1
  <2>3. v[i] = Total(SubSeq(c, e(i - 1) + 1, to(i - 1)))
    OBVIOUS
  <2>4. e(i - 1) \in 0 .. n /\ e(i) \in 0 .. n /\ e(i - 1) + 1 <= e(i)
    <3> HIDE DEF e
    <3> QED  BY <1>2, <2>1
  <2> DEFINE a == e(i - 1)
             b == e(i)
  <2>5. a \in 0 .. Len(c) /\ b \in a .. Len(c)
    <3> HIDE DEF e
    <3> QED  BY <2>4
  <2>6. v[i] = Total(SubSeq(c, a + 1, b))
    <3> HIDE DEF e, to, v
    <3> QED  BY <2>2, <2>3
  <2> HIDE DEF a, b, v, c
  <2>7. c \in Seq(Nat) /\ SumsUp(g, c)
    BY DEF c
  <2>8. Total(SubSeq(c, a + 1, b)) = g[b] - g[a] /\ g[b] - g[a] \in Nat
    BY <2>5, <2>7, TotalWithin
  <2> QED  BY <2>6, <2>8 DEF a, b
<1>6. m \in Seq(Nat) /\ Len(m) = width /\ \A i \in 1 .. width : m[i] = v[i]
  <2>1. DOMAIN v = 1 .. width /\ v = [i \in 1 .. width |-> v[i]]
    OBVIOUS
  <2> HIDE DEF v, m
  <2>2. v \in [1 .. width -> Nat]
    BY <1>5, <2>1
  <2> QED  BY <1>1, <1>3, <2>2
<1>7. SumsUp(G, m)
  <2>1. \A i \in 0 .. width : G[i] = g[e(i)] /\ G[i] \in Nat
    <3> SUFFICES ASSUME NEW i \in 0 .. width PROVE G[i] = g[e(i)] /\ G[i] \in Nat
      OBVIOUS
    <3>1. G[i] = g[e(i)]
      OBVIOUS
    <3>2. e(i) \in 0 .. Len(Counts(h))
      <4> HIDE DEF e
      <4> QED  BY <1>2
    <3> HIDE DEF G, e
    <3> QED  BY <3>1, <3>2 DEF SumsUp
  <2> HIDE DEF G, e, m, v
  <2>2. G[0] = 0
    <3>1. 0 \in 0 .. width
      BY <1>3
    <3> QED  BY <1>2, <2>1, <3>1 DEF SumsUp
  <2>3. ASSUME NEW i \in 1 .. width PROVE G[i] = G[i - 1] + m[i]
    <3>1. i \in 0 .. width /\ i - 1 \in 0 .. width
      BY <1>3
    <3>2. G[i] = g[e(i)] /\ G[i - 1] = g[e(i - 1)] /\ G[i] \in Nat /\ G[i - 1] \in Nat
      BY <2>1, <3>1
    <3>3. m[i] = G[i] - G[i - 1]
      BY <1>5, <1>6, <3>2
    <3> QED  BY <3>2, <3>3
  <2> QED  BY <1>6, <2>1, <2>2, <2>3 DEF SumsUp
<1>8. Total(m) = G[width]
  <2> HIDE DEF G, m
  <2> QED  BY <1>3, <1>6, <1>7, TotalIs
<1>9. G[width] = g[n]
  <2>1. width \in 0 .. width
    BY <1>3
  <2> HIDE DEF e
  <2> QED  BY <1>2, <2>1
<1> HIDE DEF m, G
<1> QED  BY <1>6, <1>8, <1>9 DEF m

LEMMA LineIs ==
  ASSUME NEW T, NEW x \in Seq(T), NEW h, NEW w \in Nat \ {0}, NEW lo, Binned(h, x, w, lo),
         NEW width \in 1 .. Len(h.bins)
  PROVE  /\ merged(h, width) \in Seq(Nat) /\ Len(merged(h, width)) = width
         /\ Total(merged(h, width)) = Cardinality(HasTime(x))
<1>1. Counts(h) \in Seq(Nat) /\ Len(Counts(h)) = Len(h.bins)
  BY CountsAre
<1>2. PICK g : SumsUp(g, Counts(h)) /\ g[Len(h.bins)] = Cardinality(HasTime(x))
  BY CountsAre
<1>3. Len(h.bins) \in Nat
  BY DEF Binned
<1>4. merged(h, width) \in Seq(Nat) /\ Len(merged(h, width)) = width
      /\ Total(merged(h, width)) = g[Len(h.bins)]
  BY <1>1, <1>2, <1>3, MergedIs
<1> QED  BY <1>2, <1>4

(* Of counts that are not all zero, one is drawn in full.                  *)
LEMMA SparklineIs ==
  ASSUME NEW h, NEW width \in Nat \ {0}, NEW sums, sums = merged(h, width),
         sums \in Seq(Nat), Len(sums) = width, Total(sums) # 0
  PROVE  8 \in ToSet(render_sparkline(h, width))
<1> DEFINE D == DOMAIN sums
           less == SmallerFirst(sums)
           ranked == Ranked(D, less)
           at == Max({Len(sums) * 95 - 1, 0}) \div 100 + 1
           p95 == sums[ranked[at]]
           scale == Max({p95, 1})
           line == [i \in D |-> Min({(sums[i] * 8) \div scale, 8})]
<1>1. D = 1 .. width /\ IsFiniteSet(D) /\ Cardinality(D) = width /\ \A i \in D : sums[i] \in Nat
  <2>1. D = 1 .. width /\ \A i \in D : sums[i] \in Nat
    OBVIOUS
  <2>2. IsFiniteSet(1 .. width) /\ Cardinality(1 .. width) = IF 1 > width THEN 0 ELSE width - 1 + 1
    <3>1. 1 \in Int /\ width \in Int
      OBVIOUS
    <3> QED  BY <3>1, FS_Interval
  <2>3. Cardinality(1 .. width) = width
    BY <2>2
  <2> QED  BY <2>1, <2>2, <2>3
<1>2. Totally(less, D)
  <2>1. \A a, b \in D : <<a, b>> \in less <=> (sums[a] < sums[b] \/ (sums[a] = sums[b] /\ a < b))
    BY DEF SmallerFirst
  <2>2. \A a \in D : a \in Nat
    BY <1>1
  <2> HIDE DEF D, less
  <2>3. \A a \in D : <<a, a>> \notin less
    BY <1>1, <2>1, <2>2
  <2>4. \A a, b, d \in D : <<a, b>> \in less /\ <<b, d>> \in less => <<a, d>> \in less
    BY <1>1, <2>1, <2>2
  <2>5. \A a, b \in D : a # b => <<a, b>> \in less \/ <<b, a>> \in less
    BY <1>1, <2>1, <2>2
  <2> QED  BY <2>3, <2>4, <2>5 DEF Totally
<1>3. ranked \in Seq(D) /\ Len(ranked) = width
  <2>1. ranked \in Seq(D)
    <3> HIDE DEF D, less
    <3> QED  BY <1>1, <1>2, RankedIsSorted
  <2>2. DOMAIN ranked = 1 .. width
    BY <1>1 DEF Ranked
  <2> HIDE DEF ranked, D
  <2>3. DOMAIN ranked = 1 .. Len(ranked) /\ Len(ranked) \in Nat
    BY <2>1
  <2> DEFINE n == Len(ranked)
             E == DOMAIN ranked
  <2>4. E = 1 .. width /\ E = 1 .. n /\ n \in Nat
    BY <2>2, <2>3
  <2> HIDE DEF n, E
  <2>5. width \in E
    BY <2>4
  <2>6. width <= n
    BY <2>4, <2>5
  <2>7. n \in E
    BY <2>4, <2>6
  <2>8. n = width
    BY <2>4, <2>6, <2>7
  <2> QED  BY <2>1, <2>8 DEF n
<1>4. at \in 1 .. width
  <2> DEFINE k == width * 95 - 1
             q == k \div 100
  <2>1. k \in Nat /\ 0 \in Int
    OBVIOUS
  <2>2. q \in Nat /\ 100 * q <= k
    <3> HIDE DEF k
    <3>1. 100 \in Nat \ {0}
      OBVIOUS
    <3> QED  BY <2>1, <3>1, QuotientIs
  <2>3. Max({k, 0}) = k
    <3> HIDE DEF k
    <3>1. k \in Int /\ (k <= 0 => k = 0)
      BY <2>1
    <3> QED  BY <2>1, <3>1, OfTwo
  <2>4. at = q + 1
    BY <2>3
  <2> HIDE DEF at, q
  <2> QED  BY <2>2, <2>4
<1> DEFINE j == ranked[at]
<1>5. j \in D
  <2> HIDE DEF ranked, at, D
  <2> QED  BY <1>3, <1>4
<1>6. p95 \in Nat /\ p95 = sums[j] /\ scale = IF p95 = 0 THEN 1 ELSE p95
  <2>1. p95 \in Nat /\ p95 = sums[j]
    <3> HIDE DEF j, D
    <3> QED  BY <1>1, <1>5 DEF j
  <2> HIDE DEF p95
  <2>2. p95 \in Int /\ 1 \in Int
    BY <2>1
  <2>3. scale = IF p95 <= 1 THEN 1 ELSE p95
    BY <2>2, OfTwo
  <2> QED  BY <2>1, <2>3
<1>7. render_sparkline(h, width) = line
  BY DEF render_sparkline
<1> HIDE DEF ranked, at, j, p95, scale, less
<1>8. \E i \in D : sums[i] # 0
  <2> SUFFICES ASSUME \A i \in D : sums[i] = 0 PROVE FALSE
    OBVIOUS
  <2> DEFINE g == [k \in 0 .. width |-> 0]
  <2>1. SumsUp(g, sums)
    <3>1. \A k \in 0 .. width : g[k] = 0
      OBVIOUS
    <3> HIDE DEF g
    <3>2. \A k \in 1 .. width : k \in 0 .. width /\ k - 1 \in 0 .. width /\ sums[k] = 0
      BY <1>1
    <3> QED  BY <3>1, <3>2 DEF SumsUp
  <2>2. Total(sums) = g[width]
    <3> HIDE DEF g
    <3> QED  BY <2>1, TotalIs
  <2> QED  BY <2>2
<1>9. \E i \in D : (sums[i] * 8) \div scale >= 8 /\ (sums[i] * 8) \div scale \in Int
  <2>1. CASE p95 = 0
    <3>1. PICK i \in D : sums[i] # 0
      BY <1>8
    <3>2. scale = 1 /\ sums[i] \in Nat
      BY <1>1, <1>6, <2>1
    <3> DEFINE s == sums[i]
    <3> HIDE DEF s
    <3>3. s \in Nat /\ s # 0
      BY <3>1, <3>2 DEF s
    <3>4. 1 * (s * 8) <= s * 8 /\ s * 8 < 1 * (s * 8) + 1 /\ s * 8 \in Int /\ 1 \in Nat \ {0} /\ s * 8 >= 8
      BY <3>3
    <3>5. (s * 8) \div 1 = s * 8
      BY <3>4, DivIs
    <3> QED  BY <3>2, <3>4, <3>5 DEF s
  <2>2. CASE p95 # 0
    <3>1. scale = p95 /\ p95 \in Nat \ {0}
      BY <1>6, <2>2
    <3>2. p95 * 8 \in Int /\ p95 * 8 <= p95 * 8 /\ p95 * 8 < p95 * 8 + p95
      BY <3>1
    <3>3. (p95 * 8) \div p95 = 8
      BY <3>1, <3>2, DivIs
    <3>4. (sums[j] * 8) \div scale = 8
      BY <1>6, <3>1, <3>3
    <3> DEFINE y == (sums[j] * 8) \div scale
    <3>5. y >= 8 /\ y \in Int
      BY <3>4
    <3> HIDE DEF y, D
    <3> QED  BY <1>5, <3>5 DEF y
  <2> QED  BY <2>1, <2>2
<1>10. PICK i \in D : (sums[i] * 8) \div scale >= 8 /\ (sums[i] * 8) \div scale \in Int
  BY <1>9
<1>11. Min({(sums[i] * 8) \div scale, 8}) = 8
  <2> DEFINE y == (sums[i] * 8) \div scale
  <2>1. y \in Int /\ y >= 8 /\ 8 \in Int
    BY <1>10
  <2> HIDE DEF y
  <2>2. Min({y, 8}) = IF y <= 8 THEN y ELSE 8
    BY <2>1, OfTwo
  <2>3. Min({y, 8}) = 8
    BY <2>1, <2>2
  <2> QED  BY <2>3 DEF y
<1>12. line[i] = 8 /\ DOMAIN line = D
  <2> HIDE DEF D
  <2> QED  BY <1>11
<1> HIDE DEF line
<1> QED  BY <1>7, <1>12 DEF ToSet

(* The first of the peaks is the greatest bin.                             *)
LEMMA PeaksIs ==
  ASSUME NEW h, Len(h.bins) \in Nat, DOMAIN h.bins = 1 .. Len(h.bins),
         \A i \in 1 .. Len(h.bins) : h.bins[i].count \in Nat /\ h.bins[i].start \in Int,
         \A i, j \in 1 .. Len(h.bins) : h.bins[i].start = h.bins[j].start => i = j,
         NEW b \in 1 .. Len(h.bins), h.bins[b].count # 0
  PROVE  \A i \in 1 .. Len(h.bins) : h.bins[i].count <= peaks(h, 1)[1].count
<1> DEFINE busy == {i \in DOMAIN h.bins : h.bins[i].count > 0}
           less == GreaterFirst(h, busy)
           all == Ranked(busy, less)
<1>1. b \in busy /\ busy \subseteq 1 .. Len(h.bins)
  OBVIOUS
<1>2. IsFiniteSet(busy)
  <2>1. IsFiniteSet(1 .. Len(h.bins))
    <3>1. 1 \in Int /\ Len(h.bins) \in Int
      OBVIOUS
    <3> QED  BY <3>1, FS_Interval
  <2> HIDE DEF busy
  <2> QED  BY <1>1, <2>1, FS_Subset
<1>3. \A i, j \in busy : <<i, j>> \in less <=>
        \/ h.bins[i].count > h.bins[j].count
        \/ h.bins[i].count = h.bins[j].count /\ h.bins[i].start < h.bins[j].start
  <2> HIDE DEF busy
  <2> QED  BY DEF GreaterFirst
<1> DEFINE count(i) == h.bins[i].count
           start(i) == h.bins[i].start
<1>4. /\ \A i \in busy : count(i) \in Nat /\ start(i) \in Int
      /\ \A i, j \in busy : start(i) = start(j) => i = j
      /\ \A i, j \in busy : <<i, j>> \in less <=>
           (count(i) > count(j) \/ (count(i) = count(j) /\ start(i) < start(j)))
  BY <1>1, <1>3
<1>5. Totally(less, busy)
  <2> HIDE DEF less, busy, count, start
  <2>1. \A i \in busy : <<i, i>> \notin less
    BY <1>4
  <2>2. \A i, j, k \in busy : <<i, j>> \in less /\ <<j, k>> \in less => <<i, k>> \in less
    BY <1>4
  <2>3. \A i, j \in busy : i # j => <<i, j>> \in less \/ <<j, i>> \in less
    BY <1>4
  <2> QED  BY <2>1, <2>2, <2>3 DEF Totally
<1>6. /\ all \in Seq(busy) /\ ToSet(all) = busy /\ DOMAIN all = 1 .. Len(all) /\ Len(all) \in Nat
      /\ \A i, j \in 1 .. Len(all) : i < j => <<all[i], all[j]>> \in less
  <2> HIDE DEF less, busy
  <2> QED  BY <1>2, <1>5, RankedIsSorted
<1>7. peaks(h, 1) = [j \in 1 .. Min({1, Len(all)}) |-> h.bins[all[j]]]
  BY DEF peaks
<1> HIDE DEF all, less, busy
<1>8. Len(all) >= 1 /\ 1 \in 1 .. Len(all) /\ all[1] \in busy
  <2>1. PICK k \in 1 .. Len(all) : all[k] = b
    BY <1>1, <1>6 DEF ToSet
  <2>2. Len(all) >= 1 /\ 1 \in 1 .. Len(all)
    BY <1>6, <2>1
  <2> QED  BY <1>6, <2>2
<1>9. peaks(h, 1)[1].count = count(all[1])
  <2>1. Min({1, Len(all)}) = 1
    <3>1. 1 \in Int /\ Len(all) \in Int /\ 1 <= Len(all)
      BY <1>6, <1>8
    <3> QED  BY <3>1, OfTwo
  <2>2. 1 \in 1 .. 1
    OBVIOUS
  <2> QED  BY <1>7, <2>1, <2>2
<1>10. ASSUME NEW i \in busy PROVE count(i) <= count(all[1])
  <2>1. PICK k \in 1 .. Len(all) : all[k] = i
    BY <1>6 DEF ToSet
  <2>2. CASE k = 1
    BY <1>4, <1>8, <2>1, <2>2
  <2>3. CASE k # 1
    <3>1. 1 < k
      BY <1>6, <2>3
    <3>2. <<all[1], i>> \in less
      BY <1>6, <1>8, <2>1, <3>1
    <3> HIDE DEF count, start
    <3>3. count(all[1]) > count(i) \/ count(all[1]) = count(i)
      BY <1>4, <1>8, <3>2
    <3>4. count(all[1]) \in Nat /\ count(i) \in Nat
      BY <1>4, <1>8
    <3> QED  BY <3>3, <3>4
  <2> QED  BY <2>2, <2>3
<1>11. ASSUME NEW i \in 1 .. Len(h.bins), i \notin busy PROVE count(i) <= count(all[1])
  <2>1. count(i) = 0
    BY <1>11 DEF busy
  <2>2. count(all[1]) \in Nat
    <3> HIDE DEF count
    <3> QED  BY <1>4, <1>8
  <2> HIDE DEF count
  <2> QED  BY <2>1, <2>2
<1> QED  BY <1>9, <1>10, <1>11

-----------------------------------------------------------------------------
(* A histogram of an index, whatever it is.                                *)
HeldBy(x, bin) == {o \in HasTime(x) : bin.start <= instant(x, o) /\ instant(x, o) < bin.end}

Exact(h, x, w) ==
  /\ h.bucket = w
  /\ h.dropped + Cardinality(HasTime(x)) = Len(x)
  /\ HasTime(x) = UNION {HeldBy(x, h.bins[i]) : i \in DOMAIN h.bins}
  /\ \A i \in DOMAIN h.bins :
       /\ h.bins[i].count = Cardinality(HeldBy(x, h.bins[i]))
       /\ h.bins[i].end - h.bins[i].start = h.bucket
       /\ i > 1 => h.bins[i].start = h.bins[i - 1].end
       /\ i \in {1, Len(h.bins)} => h.bins[i].count > 0
       /\ h.bins[i].count <= peaks(h, 1)[1].count
  /\ \A width \in Widths \cap 1 .. Len(h.bins) :
       /\ Total(merged(h, width)) = Cardinality(HasTime(x))
       /\ 8 \in ToSet(render_sparkline(h, width))

LEMMA HistogramIs ==
  ASSUME NEW T, NEW x \in Seq(T), NEW bucket \in Nat, NEW h, h = histogram_of(x, bucket)
  PROVE  Exact(h, x, Max({bucket, 1}))
<1> DEFINE w == Max({bucket, 1})
           n == Len(h.bins)
<1>1. w \in Nat \ {0}
  <2>1. bucket \in Int /\ 1 \in Int
    OBVIOUS
  <2>2. Max({bucket, 1}) = IF bucket <= 1 THEN 1 ELSE bucket
    BY <2>1, OfTwo
  <2> QED  BY <2>2
<1>2. PICK lo : Binned(h, x, w, lo)
  BY BinsAre
<1> HIDE DEF w
<1>3. /\ h.bucket = w /\ h.dropped + Cardinality(HasTime(x)) = Len(x)
      /\ lo \in Nat /\ n \in Nat /\ DOMAIN h.bins = 1 .. n
      /\ (n = 0 <=> HasTime(x) = {})
      /\ \A o \in HasTime(x) : instant(x, o) \div w \in lo .. lo + n - 1
      /\ (n > 0 => InBin(x, w, lo) # {} /\ InBin(x, w, lo + n - 1) # {})
  BY <1>2 DEF Binned
<1>4. \A i \in 1 .. n :
        /\ h.bins[i].start = (lo + i - 1) * w
        /\ h.bins[i].end = (lo + i) * w
        /\ h.bins[i].count = Cardinality(InBin(x, w, lo + i - 1))
  BY <1>2 DEF Binned
<1>5. IsFiniteSet(HasTime(x)) /\ \A o \in HasTime(x) : instant(x, o) \in Nat
  BY TimesAre DEF Tells
<1>6. \A q : /\ IsFiniteSet(InBin(x, w, q)) /\ Cardinality(InBin(x, w, q)) \in Nat
             /\ (Cardinality(InBin(x, w, q)) = 0 <=> InBin(x, w, q) = {})
  <2> SUFFICES ASSUME NEW q
               PROVE  /\ IsFiniteSet(InBin(x, w, q)) /\ Cardinality(InBin(x, w, q)) \in Nat
                      /\ (Cardinality(InBin(x, w, q)) = 0 <=> InBin(x, w, q) = {})
    OBVIOUS
  <2>1. InBin(x, w, q) \in SUBSET HasTime(x)
    BY DEF InBin
  <2>2. IsFiniteSet(InBin(x, w, q))
    BY <1>5, <2>1, FS_Subset
  <2> QED  BY <2>2, FS_CardinalityType, FS_EmptySet
<1> HIDE DEF n
<1>7. ASSUME NEW i \in 1 .. n
      PROVE  /\ HeldBy(x, h.bins[i]) = InBin(x, w, lo + i - 1)
             /\ h.bins[i].end - h.bins[i].start = w
             /\ h.bins[i].start \in Int
  <2> DEFINE q == lo + i - 1
  <2>1. q \in Nat /\ lo + i = q + 1 /\ lo + i - 1 = q
    BY <1>3
  <2> HIDE DEF q
  <2>2. h.bins[i].start = q * w /\ h.bins[i].end = (q + 1) * w
    BY <1>4, <2>1
  <2>3. \A o \in HasTime(x) : (q * w <= instant(x, o) /\ instant(x, o) < (q + 1) * w)
                                <=> instant(x, o) \div w = q
    BY <1>1, <1>5, <2>1, InMultiples
  <2>4. HeldBy(x, h.bins[i]) = InBin(x, w, q)
    BY <2>2, <2>3 DEF HeldBy, InBin
  <2>5. q * w \in Int /\ (q + 1) * w - q * w = w
    BY SMT, <1>1, <2>1
  <2> QED  BY <2>1, <2>2, <2>4, <2>5
<1>8. HasTime(x) = UNION {HeldBy(x, h.bins[i]) : i \in 1 .. n}
  <2>1. ASSUME NEW o \in HasTime(x) PROVE \E i \in 1 .. n : o \in HeldBy(x, h.bins[i])
    <3> DEFINE q == instant(x, o) \div w
               i == q - lo + 1
    <3>1. q \in lo .. lo + n - 1
      BY <1>3
    <3>2. o \in InBin(x, w, q)
      BY DEF InBin
    <3> HIDE DEF q
    <3>3. i \in 1 .. n /\ lo + i - 1 = q
      BY <1>3, <3>1
    <3> HIDE DEF i
    <3>4. o \in HeldBy(x, h.bins[i])
      BY <1>7, <3>2, <3>3
    <3> QED  BY <3>3, <3>4
  <2>2. \A i \in 1 .. n : HeldBy(x, h.bins[i]) \subseteq HasTime(x)
    BY DEF HeldBy
  <2> QED  BY <2>1, <2>2
<1>9. ASSUME NEW i \in 1 .. n, i > 1 PROVE h.bins[i].start = h.bins[i - 1].end
  <2>1. i - 1 \in 1 .. n /\ lo + (i - 1) = lo + i - 1
    BY <1>3, <1>9
  <2> QED  BY <1>4, <2>1
<1>10. ASSUME NEW i \in {1, n}, i \in 1 .. n PROVE h.bins[i].count > 0
  <2>1. n > 0 /\ lo + 1 - 1 = lo
    BY <1>3, <1>10
  <2>2. InBin(x, w, lo + i - 1) # {}
    <3>1. i = 1 \/ i = n
      OBVIOUS
    <3>2. CASE i = 1
      BY <1>3, <2>1, <3>2
    <3>3. CASE i = n
      BY <1>3, <2>1, <3>3
    <3> QED  BY <3>1, <3>2, <3>3
  <2>3. h.bins[i].count = Cardinality(InBin(x, w, lo + i - 1))
    BY <1>4, <1>10
  <2>4. h.bins[i].count \in Nat /\ h.bins[i].count # 0
    BY <1>6, <2>2, <2>3
  <2> QED  BY <2>4
<1>11. \A i \in 1 .. n : h.bins[i].count \in Nat
  BY <1>4, <1>6
<1>12. ASSUME NEW i \in 1 .. n PROVE h.bins[i].count <= peaks(h, 1)[1].count
  <2>1. 1 \in 1 .. n
    BY <1>3
  <2>2. h.bins[1].count # 0
    BY <1>10, <1>11, <2>1
  <2>3. \A j, k \in 1 .. n : h.bins[j].start = h.bins[k].start => j = k
    <3> SUFFICES ASSUME NEW j \in 1 .. n, NEW k \in 1 .. n, (lo + j - 1) * w = (lo + k - 1) * w
                 PROVE  j = k
      BY <1>4
    <3> DEFINE a == lo + j - 1
               b == lo + k - 1
    <3>1. a \in Nat /\ b \in Nat /\ a * w = b * w
      BY <1>3
    <3>2. (a = b) => j = k
      BY <1>3
    <3> HIDE DEF a, b
    <3>3. a * w - b * w = (a - b) * w /\ a * w - b * w = 0 /\ a - b \in Int
      BY SMT, <1>1, <3>1
    <3> DEFINE d == a - b
    <3>4. d \in Int /\ d * w = 0
      BY <3>3
    <3> HIDE DEF d
    <3>5. d = 0
      <4>1. d > 0 => d * w >= 1
        BY SMT, <1>1, <3>4
      <4>2. d < 0 => d * w <= -1
        BY SMT, <1>1, <3>4
      <4> QED  BY <3>4, <4>1, <4>2
    <3>6. a = b
      BY <3>1, <3>5 DEF d
    <3> QED  BY <3>2, <3>6
  <2>4. /\ Len(h.bins) \in Nat /\ DOMAIN h.bins = 1 .. Len(h.bins)
        /\ \A j \in 1 .. Len(h.bins) : h.bins[j].count \in Nat /\ h.bins[j].start \in Int
        /\ \A j, k \in 1 .. Len(h.bins) : h.bins[j].start = h.bins[k].start => j = k
        /\ 1 \in 1 .. Len(h.bins) /\ i \in 1 .. Len(h.bins)
    BY <1>3, <1>7, <1>11, <2>1, <2>3 DEF n
  <2> QED  BY <2>2, <2>4, PeaksIs
<1>13. ASSUME NEW width \in 1 .. n
       PROVE  /\ Total(merged(h, width)) = Cardinality(HasTime(x))
              /\ 8 \in ToSet(render_sparkline(h, width))
  <2> DEFINE sums == merged(h, width)
  <2>1. /\ sums \in Seq(Nat) /\ Len(sums) = width
        /\ Total(sums) = Cardinality(HasTime(x))
    BY <1>1, <1>2, LineIs DEF n
  <2> HIDE DEF sums
  <2>4. Cardinality(HasTime(x)) # 0 /\ width \in Nat \ {0}
    <3>1. n # 0
      BY <1>3
    <3> QED  BY <1>3, <1>5, <3>1, FS_EmptySet
  <2>5. 8 \in ToSet(render_sparkline(h, width))
    BY <2>1, <2>4, SparklineIs DEF sums
  <2> QED  BY <2>1, <2>5 DEF sums
<1>14. \A i \in DOMAIN h.bins :
         /\ h.bins[i].count = Cardinality(HeldBy(x, h.bins[i]))
         /\ h.bins[i].end - h.bins[i].start = h.bucket
         /\ (i > 1 => h.bins[i].start = h.bins[i - 1].end)
         /\ (i \in {1, n} => h.bins[i].count > 0)
         /\ h.bins[i].count <= peaks(h, 1)[1].count
  <2> SUFFICES ASSUME NEW i \in 1 .. n
               PROVE  /\ h.bins[i].count = Cardinality(HeldBy(x, h.bins[i]))
                      /\ h.bins[i].end - h.bins[i].start = h.bucket
                      /\ (i > 1 => h.bins[i].start = h.bins[i - 1].end)
                      /\ (i \in {1, n} => h.bins[i].count > 0)
                      /\ h.bins[i].count <= peaks(h, 1)[1].count
    BY <1>3
  <2>1. h.bins[i].count = Cardinality(HeldBy(x, h.bins[i]))
    BY <1>4, <1>7
  <2> QED  BY <1>3, <1>7, <1>9, <1>10, <1>12, <2>1
<1> QED  BY <1>3, <1>8, <1>13, <1>14 DEF Exact, n, w

(* What is shown is the histogram of what was in the index.                *)
HistogramIsOf ==
  histogram # NoHistogram =>
    /\ histogram.indexed \in 0 .. Len(log) /\ histogram.text \in DOMAIN Buckets
    /\ histogram.shown = histogram_of(SubSeq(log, 1, histogram.indexed),
                                      parse_duration(histogram.text))

LEMMA HistogramStays == ReportsInv /\ HistogramIsOf /\ [ReportsNext]_reports => HistogramIsOf'
<1> SUFFICES ASSUME ReportsInv, HistogramIsOf, [ReportsNext]_reports PROVE HistogramIsOf'
  OBVIOUS
<1>1. CASE log' = log /\ histogram' = histogram
  BY <1>1 DEF HistogramIsOf
<1>2. ASSUME NEW id \in Asked, StartTimeline(id) PROVE HistogramIsOf'
  BY <1>2 DEF StartTimeline, HistogramIsOf
<1>3. ASSUME NEW text \in DOMAIN Buckets, OpenHistogram(text) PROVE HistogramIsOf'
  <2>1. /\ log' = log
        /\ histogram' = [indexed |-> indexed, text |-> text,
                         shown |-> histogram_of(index, parse_duration(text))]
    BY <1>3 DEF OpenHistogram
  <2>2. /\ histogram'.indexed = indexed /\ histogram'.text = text
        /\ histogram'.shown = histogram_of(index, parse_duration(text))
    BY <2>1
  <2> QED  BY <2>1, <2>2 DEF HistogramIsOf, ReportsInv, index
<1>4. ASSUME GrowIndex \/ ExpandTimeline \/ FinishTimeline \/ CloseTimeline \/ UNCHANGED reports
      PROVE  log' = log /\ histogram' = histogram
  BY <1>4 DEF GrowIndex, ExpandTimeline, FinishTimeline, CloseTimeline, reports
<1> QED  BY <1>1, <1>2, <1>3, <1>4 DEF ReportsNext, Ask

LEMMA HistogramIsOfImpliesExact == ReportsInv /\ HistogramIsOf => HistogramIsExact
<1> SUFFICES ASSUME ReportsInv, HistogramIsOf, histogram # NoHistogram PROVE HistogramIsExact
  BY DEF HistogramIsExact
<1> DEFINE k == histogram.indexed
           x == SubSeq(log, 1, k)
           bucket == Buckets[histogram.text]
           h == histogram.shown
           timed == {o \in 0 .. histogram.indexed - 1 : sending_time(message(log, o)) # None}
           within(bin) == {o \in timed : bin.start <= instant(log, o) /\ instant(log, o) < bin.end}
<1>1. k \in 0 .. Len(log) /\ log \in Logs /\ bucket \in Nat /\ h = histogram_of(x, bucket)
  <2>1. histogram.text \in DOMAIN Buckets
    BY DEF HistogramIsOf
  <2>2. parse_duration(histogram.text) = bucket /\ bucket \in Nat
    BY <2>1, DurationIs
  <2> QED  BY <2>2 DEF HistogramIsOf, ReportsInv
<1>2. x \in Seq(Message) /\ Len(x) = k /\ \A i \in 1 .. k : x[i] = log[i]
  BY <1>1, IndexIs
<1> HIDE DEF x, h, bucket
<1>3. Exact(h, x, Max({bucket, 1}))
  BY <1>1, <1>2, HistogramIs
<1>4. \A o \in 0 .. k - 1 : message(x, o) = message(log, o)
  <2> SUFFICES ASSUME NEW o \in 0 .. k - 1 PROVE message(x, o) = message(log, o)
    OBVIOUS
  <2>1. o + 1 \in 1 .. k
    <3>1. Len(log) \in Nat
      BY <1>1, ReportsAssumption
    <3>2. k \in Int
      BY <1>1, <3>1
    <3> HIDE DEF k
    <3> QED  BY <3>2
  <2> QED  BY <1>2, <2>1 DEF message
<1>5. timed = HasTime(x) /\ \A o \in timed : instant(log, o) = instant(x, o)
  <2>1. OrdinalsOf(x) = 0 .. k - 1
    BY <1>2 DEF OrdinalsOf
  <2> QED  BY <1>4, <2>1 DEF HasTime, instant
<1> HIDE DEF timed
<1>6. \A bin : within(bin) = HeldBy(x, bin)
  BY <1>5 DEF HeldBy
<1> HIDE DEF within
<1>7. /\ h.bucket = Max({bucket, 1})
      /\ h.dropped + Cardinality(timed) = k
      /\ timed = UNION {within(h.bins[i]) : i \in DOMAIN h.bins}
      /\ \A i \in DOMAIN h.bins :
           /\ h.bins[i].count = Cardinality(within(h.bins[i]))
           /\ h.bins[i].end - h.bins[i].start = h.bucket
           /\ (i > 1 => h.bins[i].start = h.bins[i - 1].end)
           /\ (i \in {1, Len(h.bins)} => h.bins[i].count > 0)
           /\ h.bins[i].count <= peaks(h, 1)[1].count
      /\ \A width \in Widths \cap 1 .. Len(h.bins) :
           /\ Total(merged(h, width)) = Cardinality(timed)
           /\ (~ AllEqual(merged(h, width)) => 8 \in ToSet(render_sparkline(h, width)))
  BY <1>2, <1>3, <1>5, <1>6 DEF Exact
<1> QED  BY <1>7 DEF HistogramIsExact, timed, within, h, bucket, k

(* A histogram counts each message with a time once, in the bin of its      *)
(* time, and is drawn with nothing lost; histogram.rs.                     *)
THEOREM HistogramsAreExact == ReportsSpec => []HistogramIsExact
<1>1. ReportsInit => HistogramIsOf
  BY DEF ReportsInit, HistogramIsOf
<1> QED  BY <1>1, ReportsInvHolds, HistogramStays, HistogramIsOfImpliesExact, PTL DEF ReportsSpec
=============================================================================
