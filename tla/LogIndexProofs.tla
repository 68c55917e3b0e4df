--------------------------- MODULE LogIndexProofs ---------------------------
(***************************************************************************)
(* The index invariants of LogIndex, for every file, every producer and    *)
(* every sequence of builds and appends.                                   *)
(***************************************************************************)
EXTENDS LogIndex, Lemmas

(* How far the current buffer has been scanned.                            *)
Frontier == IF running THEN cursor ELSE mapped

(* Every recorded message ends at or before the watermark, and a running   *)
(* scan has not fallen behind it.                                          *)
Watermark ==
  /\ consumed <= mapped
  /\ cursor <= mapped \/ ~ running
  /\ running => consumed <= cursor
  /\ \A i \in 1 .. Len(messages) : end(messages[i]) <= consumed

(* NothingLost, for the part of the buffer that has been scanned.          *)
NothingLostSoFar ==
  \A q \in CompleteIn(buf) \ Starts :
    q < Frontier => \E p \in Starts : Overlap(buf, p, q)

(* BuildIsScan, for the part of the buffer that has been scanned.          *)
BuildIsScanSoFar ==
  result = "build" =>
    \A q \in CompleteIn(buf) \ Starts :
      q < Frontier => \E p \in Starts : p < q /\ q < EndOf(buf, p)

IInv ==
  /\ TypeOK
  /\ OffsetsAreMessages
  /\ ConsumedIsLastEnd
  /\ Watermark
  /\ NothingLostSoFar
  /\ BuildIsScanSoFar

-----------------------------------------------------------------------------
(* The slice a call works on is a buffer of mapped cells.                  *)
LEMMA BufIsPrefix ==
  ASSUME TypeOK
  PROVE  buf \in Seq(Cell) /\ Len(buf) = mapped
BY PrefixCells DEF TypeOK, buf

(* What a step of the scan knows about the marker it stands on.            *)
LEMMA MarkerBounds ==
  ASSUME TypeOK, NEW o, NextMarker(buf, cursor, o)
  PROVE  /\ o \in 0 .. mapped - 1
         /\ cursor <= o
         /\ AfterMarker(buf, o) \in o + 1 .. mapped
<1>1. buf \in Seq(Cell) /\ Len(buf) = mapped
  BY BufIsPrefix
<1>2. o \in 0 .. mapped - 1 /\ cursor <= o
  BY <1>1 DEF NextMarker, IsBegin
<1>3. mapped \in Nat /\ cursor \in Nat
  BY DEF TypeOK
<1>4. CASE ParseOk(buf, o)
  BY <1>1, <1>2, <1>3, <1>4, MessageBounds DEF AfterMarker
<1>5. CASE ~ ParseOk(buf, o)
  BY <1>2, <1>3, <1>5 DEF AfterMarker
<1> QED  BY <1>2, <1>4, <1>5

(* There is no message between the cursor and the next marker.             *)
LEMMA NoMessageBefore ==
  ASSUME TypeOK, NEW o, NextMarker(buf, cursor, o),
         NEW q \in CompleteIn(buf), q < o
  PROVE  q < cursor
<1>1. IsBegin(buf, q) /\ q \in Nat
  BY DEF CompleteIn, ParseOk, IsBegin
<1>2. ~ (q \in cursor .. o - 1)
  BY <1>1 DEF NextMarker, NoBeginIn
<1>3. o \in Nat /\ cursor \in Nat
  BY MarkerBounds, BufIsPrefix DEF TypeOK, NextMarker, IsBegin
<1> QED  BY <1>1, <1>2, <1>3

-----------------------------------------------------------------------------
(* Type correctness: every value LogIndex keeps has its type in every      *)
(* reachable state.                                                        *)
LEMMA TypeInit == Init => TypeOK
<1> SUFFICES ASSUME Init PROVE TypeOK
  OBVIOUS
<1>1. file \in Seq(Cell) /\ Len(file) = 0 /\ mapped = 0
  BY DEF Init
<1>2. messages \in Seq(MessageOffset)
  BY DEF Init
<1>3. secondary \in [HotPairs -> Seq(Nat)]
  BY DEF Init
<1>4. consumed \in Nat /\ cursor \in Nat /\ running \in BOOLEAN /\ result \in Results
  BY DEF Init, Results
<1> QED  BY <1>1, <1>2, <1>3, <1>4 DEF TypeOK

LEMMA TypeStep == TypeOK /\ [Next]_vars => TypeOK'
<1> SUFFICES ASSUME TypeOK, [Next]_vars PROVE TypeOK'
  OBVIOUS
<1> USE DEF TypeOK
<1>1. ASSUME NEW c \in Cells, Write(c) PROVE TypeOK'
  <2>1. c \in Cell
    BY ConstantsAssumption
  <2>2. file' \in Seq(Cell) /\ Len(file') = Len(file) + 1
    BY <1>1, <2>1 DEF Write
  <2> QED  BY <1>1, <2>2 DEF Write
<1>2. ASSUME NEW n \in 0 .. Len(file), Build(n) PROVE TypeOK'
  BY <1>2 DEF Build, EmptyIndex, Results
<1>3. ASSUME NEW n \in 0 .. Len(file), NEW from \in 0 .. Len(file), Refuse(n, from)
      PROVE  TypeOK'
  BY <1>3 DEF Refuse, Results
<1>4. ASSUME NEW n \in 0 .. Len(file), NEW from \in 0 .. Len(file), AppendFromOffset(n, from)
      PROVE  TypeOK'
  BY <1>4 DEF AppendFromOffset, Results
<1>5. ASSUME NEW o \in 0 .. mapped - 1, PushMessage(o) PROVE TypeOK'
  <2> DEFINE m == OffsetAt(buf, o)
  <2>1. EndOf(buf, o) \in Nat /\ o + 2 <= EndOf(buf, o)
    BY <1>5, BufIsPrefix, MessageBounds DEF PushMessage
  <2>2. m \in MessageOffset /\ end(m) \in Nat
    BY <2>1 DEF MessageOffset, end, OffsetAt
  <2>3. messages' \in Seq(MessageOffset) /\ consumed' \in Nat
    <3>1. messages' = Append(messages, m) /\ consumed' = end(m)
      BY <1>5 DEF PushMessage
    <3> HIDE DEF m
    <3> QED  BY <2>2, <3>1
  <2>4. secondary' \in [HotPairs -> Seq(Nat)]
    <3> DEFINE n     == Len(messages)
               pairs == PairsAt(buf, o)
    <3>1. n \in Nat /\ secondary \in [HotPairs -> Seq(Nat)]
      OBVIOUS
    <3>2. secondary' = record(secondary, pairs, n)
      BY <1>5 DEF PushMessage
    <3> HIDE DEF n, pairs, TypeOK
    <3> QED  BY <3>1, <3>2, RecordType
  <2>5. cursor' \in Nat
    BY <1>5, MarkerBounds DEF PushMessage
  <2> QED  BY <1>5, <2>3, <2>4, <2>5 DEF PushMessage
<1>6. ASSUME NEW o \in 0 .. mapped - 1, SkipMarker(o) PROVE TypeOK'
  <2>1. cursor' \in Nat
    BY <1>6, MarkerBounds DEF SkipMarker
  <2> QED  BY <1>6, <2>1 DEF SkipMarker
<1>7. CASE Return
  BY <1>7 DEF Return
<1>8. CASE UNCHANGED vars
  BY <1>8 DEF vars
<1> QED  BY <1>1, <1>2, <1>3, <1>4, <1>5, <1>6, <1>7, <1>8 DEF Next, Scan

THEOREM TypeCorrect == Spec => []TypeOK
<1>1. QED  BY TypeInit, TypeStep, PTL DEF Spec
-----------------------------------------------------------------------------
LEMMA InvInit == Init => IInv
<1> SUFFICES ASSUME Init PROVE IInv
  OBVIOUS
<1>1. TypeOK
  BY TypeInit
<1>2. buf \in Seq(Cell) /\ Len(buf) = 0
  BY <1>1, BufIsPrefix DEF Init
<1>3. CompleteIn(buf) = {}
  BY <1>2 DEF CompleteIn
<1>4. messages = << >> /\ Len(messages) = 0 /\ consumed = 0 /\ mapped = 0 /\ ~ running
  BY DEF Init
<1>5. OffsetsAreMessages
  BY <1>4 DEF OffsetsAreMessages
<1>6. Watermark /\ ConsumedIsLastEnd
  BY <1>4 DEF Watermark, ConsumedIsLastEnd
<1>7. NothingLostSoFar /\ BuildIsScanSoFar
  BY <1>3 DEF NothingLostSoFar, BuildIsScanSoFar
<1> QED  BY <1>1, <1>5, <1>6, <1>7 DEF IInv

(* The producer's writes are invisible to a call: its slice stays the same.*)
LEMMA WriteStep ==
  ASSUME IInv, NEW c \in Cells, Write(c)
  PROVE  IInv'
<1>1. TypeOK /\ TypeOK'
  BY TypeStep DEF IInv, Next
<1>2. buf' = buf
  <2>1. c \in Cell /\ file' = Append(file, c) /\ mapped' = mapped
    BY ConstantsAssumption DEF Write
  <2>2. SubSeq(Append(file, c), 1, mapped) = SubSeq(file, 1, mapped)
    BY <1>1, <2>1, PrefixOfAppend DEF TypeOK
  <2> QED  BY <2>1, <2>2 DEF buf
<1>3. UNCHANGED <<mapped, messages, consumed, cursor, running, result>>
  BY DEF Write
<1>4. Starts' = Starts /\ Frontier' = Frontier
  BY <1>3 DEF Starts, Frontier
<1>5. OffsetsAreMessages'
  BY <1>2, <1>3 DEF IInv, OffsetsAreMessages
<1>6. Watermark' /\ ConsumedIsLastEnd'
  BY <1>3 DEF IInv, Watermark, ConsumedIsLastEnd
<1>7. NothingLostSoFar'
  BY <1>2, <1>4 DEF IInv, NothingLostSoFar
<1>8. BuildIsScanSoFar'
  BY <1>2, <1>3, <1>4 DEF IInv, BuildIsScanSoFar
<1> QED  BY <1>1, <1>5, <1>6, <1>7, <1>8 DEF IInv

LEMMA BuildStep ==
  ASSUME IInv, NEW n \in 0 .. Len(file), Build(n)
  PROVE  IInv'
<1>1. TypeOK /\ TypeOK'
  BY TypeStep DEF IInv, Next
<1>2. /\ messages' = << >> /\ Len(messages') = 0 /\ consumed' = 0
      /\ cursor' = 0 /\ running' /\ mapped' = n
  BY DEF Build, EmptyIndex
<1>3. OffsetsAreMessages' /\ Watermark' /\ ConsumedIsLastEnd'
  BY <1>2 DEF OffsetsAreMessages, Watermark, ConsumedIsLastEnd
<1>4. Frontier' = 0
  BY <1>2 DEF Frontier
<1>5. NothingLostSoFar' /\ BuildIsScanSoFar'
  BY <1>4 DEF NothingLostSoFar, BuildIsScanSoFar, CompleteIn
<1> QED  BY <1>1, <1>3, <1>5 DEF IInv

LEMMA RefuseStep ==
  ASSUME IInv, NEW n \in 0 .. Len(file), NEW from \in 0 .. Len(file), Refuse(n, from)
  PROVE  IInv'
<1>1. TypeOK /\ TypeOK'
  BY TypeStep DEF IInv, Next
<1>2. UNCHANGED <<file, mapped, messages, consumed, cursor, running>> /\ result' # "build"
  BY DEF Refuse
<1>3. buf' = buf /\ Starts' = Starts /\ Frontier' = Frontier
  BY <1>2 DEF buf, Starts, Frontier
<1>4. OffsetsAreMessages' /\ Watermark' /\ ConsumedIsLastEnd'
  BY <1>2, <1>3 DEF IInv, OffsetsAreMessages, Watermark, ConsumedIsLastEnd
<1>5. NothingLostSoFar' /\ BuildIsScanSoFar'
  BY <1>2, <1>3 DEF IInv, NothingLostSoFar, BuildIsScanSoFar
<1> QED  BY <1>1, <1>4, <1>5 DEF IInv

(* An append may be given a longer slice or a shorter one that still holds *)
(* every recorded message.  A message that the new slice completes and that*)
(* the scan will not see, because it starts before consumed, overlaps the  *)
(* message that consumed is the end of.                                    *)
LEMMA AppendStep ==
  ASSUME IInv, NEW n \in 0 .. Len(file), NEW from \in 0 .. Len(file),
         AppendFromOffset(n, from)
  PROVE  IInv'
<1>1. TypeOK /\ TypeOK'
  BY TypeStep DEF IInv, Next
<1>2. /\ UNCHANGED <<file, messages, consumed>>
      /\ ~ running /\ running' /\ cursor' = consumed /\ mapped' = n /\ consumed <= n
      /\ result' = "append"
  BY DEF AppendFromOffset
<1>3. /\ Starts' = Starts
      /\ Frontier' = consumed
      /\ Frontier = mapped
  BY <1>2 DEF Starts, Frontier
<1>4. /\ buf = SubSeq(file, 1, mapped) /\ buf' = SubSeq(file, 1, n)
      /\ file \in Seq(Cell) /\ mapped \in 0 .. Len(file)
      /\ buf \in Seq(Cell) /\ Len(buf) = mapped
      /\ buf' \in Seq(Cell) /\ Len(buf') = n
  BY <1>1, <1>2, BufIsPrefix DEF buf, TypeOK
<1>5. ASSUME NEW i \in 1 .. Len(messages)
      PROVE  /\ ParseOk(buf', messages[i].start)
             /\ end(messages[i]) = EndOf(buf', messages[i].start)
  <2>1. /\ ParseOk(buf, messages[i].start)
        /\ end(messages[i]) = EndOf(buf, messages[i].start)
        /\ end(messages[i]) <= consumed
    BY DEF IInv, OffsetsAreMessages, Watermark
  <2>2. EndOf(buf, messages[i].start) <= n
    <3>1. EndOf(buf, messages[i].start) \in Nat
      BY <2>1, <1>4, MessageBounds
    <3>2. n \in Nat /\ consumed \in Nat
      BY <1>1 DEF TypeOK
    <3> QED  BY <1>2, <2>1, <3>1, <3>2
  <2> QED  BY <1>4, <2>1, <2>2, CompleteInPrefix
<1>6. OffsetsAreMessages'
  BY <1>2, <1>5 DEF IInv, OffsetsAreMessages
<1>7. Watermark'
  BY <1>1, <1>2 DEF IInv, Watermark, TypeOK
<1>8. NothingLostSoFar'
  <2> SUFFICES ASSUME NEW q \in CompleteIn(buf') \ Starts, q < consumed
               PROVE  \E p \in Starts : Overlap(buf', p, q)
    BY <1>3 DEF NothingLostSoFar
  <2>1. ParseOk(buf', q) /\ q \in Nat /\ EndOf(buf', q) \in Nat
    BY <1>4, MessageBounds DEF CompleteIn
  <2>2. CASE ParseOk(buf, q)
    <3>0. q + 2 <= EndOf(buf, q) /\ EndOf(buf, q) <= mapped /\ EndOf(buf, q) \in Nat
      BY <2>2, <1>4, MessageBounds
    <3>1. q \in CompleteIn(buf) \ Starts /\ q < Frontier
      BY <2>1, <2>2, <1>3, <1>4, <3>0 DEF CompleteIn
    <3>2. PICK p \in Starts : Overlap(buf, p, q)
      BY <3>1 DEF IInv, NothingLostSoFar
    <3>3. PICK i \in 1 .. Len(messages) : p = messages[i].start
      BY DEF Starts
    <3>4. EndOf(buf', p) = EndOf(buf, p)
      BY <1>5, <3>3 DEF IInv, OffsetsAreMessages
    <3>5. EndOf(buf', q) = EndOf(buf, q)
      <4>1. EndOf(buf', q) <= n
        BY <2>1, <1>4, MessageBounds
      <4>2. n \in Nat
        OBVIOUS
      <4>3. CASE mapped <= n
        <5>1. EndOf(buf, q) <= n
          BY <3>0, <4>3, <1>4
        <5> QED  BY <5>1, <2>2, <1>4, CompleteInPrefix
      <4>4. CASE n <= mapped
        <5>1. EndOf(buf', q) <= mapped
          BY <4>1, <4>4, <2>1, <1>4
        <5> QED  BY <5>1, <2>1, <1>4, CompleteInPrefix
      <4> QED  BY <4>3, <4>4, <1>4
    <3> QED  BY <3>2, <3>4, <3>5 DEF Overlap
  <2>3. CASE ~ ParseOk(buf, q)
    \* The slice that was scanned last ended inside q.
    <3>1. EndOf(buf', q) > mapped
      <4> SUFFICES ASSUME EndOf(buf', q) <= mapped PROVE FALSE
        BY <2>1, <1>4
      <4> QED  BY <2>1, <2>3, <1>4, CompleteInPrefix
    <3>2. messages # << >> /\ consumed = end(messages[Len(messages)])
      BY <2>1 DEF IInv, ConsumedIsLastEnd
    <3>3. Len(messages) \in 1 .. Len(messages)
      BY <3>2, <1>1 DEF TypeOK
    <3> DEFINE p == messages[Len(messages)].start
    <3>4. p \in Starts
      BY <3>3 DEF Starts
    <3>5. ParseOk(buf', p) /\ EndOf(buf', p) = consumed
      BY <1>5, <3>2, <3>3
    <3>6. p \in Nat /\ p < consumed
      <4>1. p \in Nat /\ EndOf(buf', p) \in Nat /\ p + 2 <= EndOf(buf', p)
        BY <3>5, <1>4, MessageBounds
      <4> QED  BY <4>1, <3>5
    <3>7. consumed <= mapped /\ mapped \in Nat /\ consumed \in Nat
      BY <1>1 DEF IInv, Watermark, TypeOK
    <3>8. p # q
      BY <3>4
    <3>9. Overlap(buf', p, q)
      BY <2>1, <3>1, <3>5, <3>6, <3>7, <3>8 DEF Overlap
    <3> QED  BY <3>4, <3>9
  <2> QED  BY <2>2, <2>3
<1>9. BuildIsScanSoFar'
  BY <1>2 DEF BuildIsScanSoFar
<1> QED  BY <1>1, <1>2, <1>6, <1>7, <1>8, <1>9 DEF IInv, ConsumedIsLastEnd

(* The scan records the message it stands on.                              *)
LEMMA PushStep ==
  ASSUME IInv, NEW o \in 0 .. mapped - 1, PushMessage(o)
  PROVE  IInv'
<1> DEFINE m == OffsetAt(buf, o)
<1>1. TypeOK /\ TypeOK'
  BY TypeStep DEF IInv, Next, Scan
<1>2. /\ UNCHANGED <<file, mapped, running, result>>
      /\ running
      /\ NextMarker(buf, cursor, o) /\ ParseOk(buf, o)
      /\ messages' = Append(messages, m)
      /\ consumed' = end(m)
      /\ cursor' = EndOf(buf, o)
  BY DEF PushMessage, AfterMarker
<1>3. buf' = buf /\ buf \in Seq(Cell) /\ Len(buf) = mapped
  BY <1>1, <1>2, BufIsPrefix DEF buf
<1>4. /\ o \in Nat /\ EndOf(buf, o) \in Nat
      /\ o + 2 <= EndOf(buf, o) /\ EndOf(buf, o) <= mapped
      /\ cursor \in Nat /\ consumed \in Nat /\ consumed <= cursor /\ cursor <= o
  BY <1>1, <1>2, <1>3, MessageBounds, MarkerBounds DEF IInv, Watermark, TypeOK
<1>5. m.start = o /\ end(m) = EndOf(buf, o) /\ m \in MessageOffset
  BY <1>4 DEF end, MessageOffset, OffsetAt
<1> HIDE DEF m
<1>6. /\ Len(messages') = Len(messages) + 1 /\ Len(messages) \in Nat
      /\ messages'[Len(messages) + 1] = m
      /\ \A i \in 1 .. Len(messages) : messages'[i] = messages[i]
  BY <1>1, <1>2, <1>5 DEF TypeOK
<1>7. Starts' = Starts \cup {o}
  <2>1. ASSUME NEW x \in Starts' PROVE x \in Starts \cup {o}
    <3>1. PICK i \in 1 .. Len(messages') : x = messages'[i].start
      BY DEF Starts
    <3> QED  BY <3>1, <1>5, <1>6 DEF Starts
  <2>2. ASSUME NEW x \in Starts PROVE x \in Starts'
    <3>1. PICK i \in 1 .. Len(messages) : x = messages[i].start
      BY DEF Starts
    <3>2. i \in 1 .. Len(messages') /\ x = messages'[i].start
      BY <3>1, <1>6
    <3> QED  BY <3>2 DEF Starts
  <2>3. o \in Starts'
    <3>1. Len(messages) + 1 \in 1 .. Len(messages')
      BY <1>6
    <3> QED  BY <3>1, <1>5, <1>6 DEF Starts
  <2> QED  BY <2>1, <2>2, <2>3
<1>8. Frontier' = EndOf(buf, o) /\ Frontier = cursor
  BY <1>2 DEF Frontier
<1>9. OffsetsAreMessages'
  <2>1. ASSUME NEW i \in 1 .. Len(messages')
        PROVE  /\ ParseOk(buf, messages'[i].start)
               /\ end(messages'[i]) = EndOf(buf, messages'[i].start)
    BY <1>2, <1>5, <1>6 DEF IInv, OffsetsAreMessages
  <2>2. ASSUME NEW i \in 1 .. Len(messages'), NEW j \in 1 .. Len(messages'), i < j
        PROVE  end(messages'[i]) <= messages'[j].start
    <3>1. CASE j = Len(messages')
      <4>1. i \in 1 .. Len(messages) /\ messages'[i] = messages[i] /\ messages'[j] = m
        BY <2>2, <3>1, <1>6
      <4>2. end(messages[i]) <= consumed
        BY <4>1 DEF IInv, Watermark
      <4>3. end(messages[i]) \in Nat
        <5>1. messages[i] \in MessageOffset
          BY <4>1, <1>1 DEF TypeOK
        <5> QED  BY <5>1 DEF MessageOffset, end
      <4> QED  BY <4>1, <4>2, <4>3, <1>4, <1>5
    <3>2. CASE j # Len(messages')
      <4>1. i \in 1 .. Len(messages) /\ j \in 1 .. Len(messages)
        BY <2>2, <3>2, <1>6
      <4> QED  BY <4>1, <2>2, <1>6 DEF IInv, OffsetsAreMessages
    <3> QED  BY <3>1, <3>2
  <2> QED  BY <2>1, <2>2, <1>3 DEF OffsetsAreMessages
<1>10. ConsumedIsLastEnd'
  <2>1. messages' # << >> /\ messages'[Len(messages')] = m
    BY <1>6
  <2> QED  BY <2>1, <1>2 DEF ConsumedIsLastEnd
<1>11. Watermark'
  <2>1. consumed' = EndOf(buf, o) /\ cursor' = EndOf(buf, o) /\ mapped' = mapped
    BY <1>2, <1>5
  <2>2. ASSUME NEW i \in 1 .. Len(messages') PROVE end(messages'[i]) <= consumed'
    <3>1. CASE i = Len(messages')
      BY <3>1, <2>1, <1>4, <1>5, <1>6
    <3>2. CASE i # Len(messages')
      <4>1. i \in 1 .. Len(messages) /\ messages'[i] = messages[i]
        BY <3>2, <1>6
      <4>2. messages[i] \in MessageOffset /\ end(messages[i]) <= consumed
        BY <4>1, <1>1 DEF TypeOK, IInv, Watermark
      <4>3. end(messages[i]) \in Nat
        BY <4>2 DEF MessageOffset, end
      <4> QED  BY <4>1, <4>2, <4>3, <2>1, <1>4
    <3> QED  BY <3>1, <3>2
  <2> QED  BY <2>1, <2>2, <1>4 DEF Watermark
<1>12. ASSUME NEW q \in CompleteIn(buf) \ Starts', q < EndOf(buf, o)
       PROVE  \/ q < cursor /\ q \in CompleteIn(buf) \ Starts
              \/ o < q
  <2>1. q \in Nat /\ q # o /\ q \in CompleteIn(buf) \ Starts
    BY <1>12, <1>7 DEF CompleteIn
  <2>2. CASE q < o
    BY <2>1, <2>2, <1>1, <1>2, NoMessageBefore
  <2> QED  BY <2>1, <2>2, <1>4
<1>13. NothingLostSoFar'
  <2> SUFFICES ASSUME NEW q \in CompleteIn(buf) \ Starts', q < EndOf(buf, o)
               PROVE  \E p \in Starts' : Overlap(buf, p, q)
    BY <1>3, <1>8 DEF NothingLostSoFar
  <2>1. CASE o < q
    BY <2>1, <1>7 DEF Overlap
  <2>2. CASE q < cursor /\ q \in CompleteIn(buf) \ Starts
    BY <2>2, <1>7, <1>8 DEF IInv, NothingLostSoFar
  <2> QED  BY <2>1, <2>2, <1>12
<1>14. BuildIsScanSoFar'
  <2> SUFFICES ASSUME result = "build",
                      NEW q \in CompleteIn(buf) \ Starts', q < EndOf(buf, o)
               PROVE  \E p \in Starts' : p < q /\ q < EndOf(buf, p)
    BY <1>2, <1>3, <1>8 DEF BuildIsScanSoFar
  <2>1. CASE o < q
    BY <2>1, <1>7
  <2>2. CASE q < cursor /\ q \in CompleteIn(buf) \ Starts
    BY <2>2, <1>7, <1>8 DEF IInv, BuildIsScanSoFar
  <2> QED  BY <2>1, <2>2, <1>12
<1> QED  BY <1>1, <1>9, <1>10, <1>11, <1>13, <1>14 DEF IInv

(* The scan goes past a marker that starts no message.                     *)
LEMMA SkipStep ==
  ASSUME IInv, NEW o \in 0 .. mapped - 1, SkipMarker(o)
  PROVE  IInv'
<1>1. TypeOK /\ TypeOK'
  BY TypeStep DEF IInv, Next, Scan
<1>2. /\ UNCHANGED <<file, mapped, messages, consumed, running, result>>
      /\ running
      /\ NextMarker(buf, cursor, o) /\ ~ ParseOk(buf, o)
      /\ cursor' = o + 1
  BY DEF SkipMarker, AfterMarker
<1>3. buf' = buf /\ Starts' = Starts /\ Frontier' = o + 1 /\ Frontier = cursor
  BY <1>2 DEF buf, Starts, Frontier
<1>4. cursor <= o /\ cursor \in Nat /\ consumed \in Nat /\ mapped \in Nat
  BY <1>1, <1>2, MarkerBounds DEF TypeOK
<1>5. OffsetsAreMessages' /\ ConsumedIsLastEnd'
  BY <1>2, <1>3 DEF IInv, OffsetsAreMessages, ConsumedIsLastEnd
<1>6. Watermark'
  BY <1>2, <1>4 DEF IInv, Watermark
<1>7. ASSUME NEW q \in CompleteIn(buf) \ Starts, q < o + 1
      PROVE  q < cursor
  <2>1. q \in Nat /\ q # o
    BY <1>2 DEF CompleteIn
  <2> QED  BY <2>1, <1>1, <1>2, <1>7, NoMessageBefore
<1>8. NothingLostSoFar'
  BY <1>3, <1>7 DEF IInv, NothingLostSoFar
<1>9. BuildIsScanSoFar'
  BY <1>2, <1>3, <1>7 DEF IInv, BuildIsScanSoFar
<1> QED  BY <1>1, <1>5, <1>6, <1>8, <1>9 DEF IInv

LEMMA ReturnStep ==
  ASSUME IInv, Return
  PROVE  IInv'
<1>1. TypeOK /\ TypeOK'
  BY TypeStep DEF IInv, Next, Scan
<1>2. /\ UNCHANGED <<file, mapped, messages, consumed, cursor, result>>
      /\ running /\ ~ running'
      /\ NoBeginIn(buf, cursor, mapped)
  BY DEF Return
<1>3. buf' = buf /\ Starts' = Starts /\ Frontier' = mapped /\ Frontier = cursor
  BY <1>2 DEF buf, Starts, Frontier
<1>4. OffsetsAreMessages' /\ ConsumedIsLastEnd' /\ Watermark'
  BY <1>2, <1>3 DEF IInv, OffsetsAreMessages, ConsumedIsLastEnd, Watermark
<1>5. ASSUME NEW q \in CompleteIn(buf), q < mapped
      PROVE  q < cursor
  <2>1. q \in Nat /\ IsBegin(buf, q)
    BY DEF CompleteIn, ParseOk
  <2>2. ~ (q \in cursor .. mapped - 1)
    BY <2>1, <1>2 DEF NoBeginIn
  <2> QED  BY <2>1, <2>2, <1>1, <1>5 DEF TypeOK
<1>6. NothingLostSoFar'
  BY <1>3, <1>5 DEF IInv, NothingLostSoFar
<1>7. BuildIsScanSoFar'
  BY <1>2, <1>3, <1>5 DEF IInv, BuildIsScanSoFar
<1> QED  BY <1>1, <1>4, <1>6, <1>7 DEF IInv

LEMMA InvStep == IInv /\ [Next]_vars => IInv'
<1> SUFFICES ASSUME IInv, [Next]_vars PROVE IInv'
  OBVIOUS
<1>1. CASE UNCHANGED vars
  <2>1. TypeOK'
    BY <1>1, TypeStep DEF IInv
  <2>2. buf' = buf /\ Starts' = Starts /\ Frontier' = Frontier
    BY <1>1 DEF vars, buf, Starts, Frontier
  <2> QED
    BY <1>1, <2>1, <2>2
    DEF IInv, vars, OffsetsAreMessages, ConsumedIsLastEnd, Watermark,
        NothingLostSoFar, BuildIsScanSoFar
<1>2. CASE Next
  BY <1>2, WriteStep, BuildStep, RefuseStep, AppendStep, PushStep, SkipStep, ReturnStep
  DEF Next, Scan
<1> QED  BY <1>1, <1>2

LEMMA InvHolds == Spec => []IInv
<1>1. QED  BY InvInit, InvStep, PTL DEF Spec

-----------------------------------------------------------------------------
(* Between two calls, what the scan has covered is the whole slice.        *)
LEMMA IdleFrontier ==
  ASSUME IInv, ~ running, NEW q \in CompleteIn(buf)
  PROVE  q < Frontier
BY BufIsPrefix DEF IInv, Frontier, CompleteIn

LEMMA IInvImpliesNothingLost == IInv => NothingLost
BY IdleFrontier DEF IInv, NothingLost, NothingLostSoFar

(* A recorded message is a complete message of the slice, and it ends      *)
(* before any recorded message that starts after it.                       *)
LEMMA RecordedMessages ==
  ASSUME IInv
  PROVE  /\ Starts \subseteq CompleteIn(buf)
         /\ \A p, q \in Starts : p < q => EndOf(buf, p) <= q
<1>1. messages \in Seq(MessageOffset)
  BY DEF IInv, TypeOK
<1>2. \A i \in 1 .. Len(messages) :
        /\ ParseOk(buf, messages[i].start)
        /\ end(messages[i]) = EndOf(buf, messages[i].start)
  BY DEF IInv, OffsetsAreMessages
<1>3. Starts \subseteq CompleteIn(buf)
  BY <1>2 DEF Starts, CompleteIn, ParseOk, IsBegin
<1>4. ASSUME NEW p \in Starts, NEW q \in Starts, p < q
      PROVE  EndOf(buf, p) <= q
  <2>1. PICK i \in 1 .. Len(messages) : p = messages[i].start
    BY DEF Starts
  <2>2. PICK j \in 1 .. Len(messages) : q = messages[j].start
    BY DEF Starts
  <2>3. /\ p \in Nat /\ q \in Nat /\ q + 2 <= EndOf(buf, q) /\ EndOf(buf, q) \in Nat
    BY <1>2, <2>1, <2>2, BufIsPrefix, MessageBounds DEF IInv
  <2>4. ~ (j < i)
    <3> SUFFICES ASSUME j < i PROVE FALSE
      OBVIOUS
    <3>1. end(messages[j]) <= messages[i].start
      BY <2>1, <2>2 DEF IInv, OffsetsAreMessages
    <3>2. EndOf(buf, q) <= p
      BY <1>2, <2>1, <2>2, <3>1
    <3> QED  BY <2>3, <3>2, <1>4
  <2>5. i # j
    BY <1>4, <2>1, <2>2, <2>3
  <2>6. i < j
    BY <2>4, <2>5
  <2>7. end(messages[i]) <= messages[j].start
    BY <2>6 DEF IInv, OffsetsAreMessages
  <2> QED  BY <1>2, <2>1, <2>2, <2>7
<1> QED  BY <1>3, <1>4

LEMMA IInvImpliesSameAsSingleBuild == IInv => SameAsSingleBuild
<1> SUFFICES ASSUME IInv, ~ running, NoNesting(buf) PROVE CompleteIn(buf) \subseteq Starts
  BY RecordedMessages DEF SameAsSingleBuild
<1> SUFFICES ASSUME NEW q \in CompleteIn(buf), q \notin Starts PROVE FALSE
  OBVIOUS
<1>1. PICK p \in Starts : Overlap(buf, p, q)
  BY IInvImpliesNothingLost DEF NothingLost
<1>2. p \in CompleteIn(buf)
  BY RecordedMessages
<1>3. p < q => EndOf(buf, p) <= q
  BY <1>2 DEF NoNesting
<1>4. q < p => EndOf(buf, q) <= p
  BY <1>2 DEF NoNesting
<1>5. p \in Nat /\ q \in Nat /\ EndOf(buf, p) \in Nat /\ EndOf(buf, q) \in Nat
  BY <1>2, BufIsPrefix, MessageBounds DEF CompleteIn, IInv
<1> QED  BY <1>1, <1>3, <1>4, <1>5 DEF Overlap

LEMMA IInvImpliesBuildIsScan == IInv => BuildIsScan
<1> SUFFICES ASSUME IInv, ~ running, result = "build" PROVE IsScan(buf, Starts)
  BY DEF BuildIsScan
<1> DEFINE Seen == {o \in CompleteIn(buf) : ~ \E p \in Starts : p < o /\ o < EndOf(buf, p)}
<1>1. ASSUME NEW q \in Starts PROVE q \in Seen
  <2>1. q \in CompleteIn(buf) /\ \A p \in Starts : p < q => EndOf(buf, p) <= q
    BY RecordedMessages
  <2>2. ASSUME NEW p \in Starts, p < q, q < EndOf(buf, p) PROVE FALSE
    <3>1. p \in Nat /\ q \in Nat /\ EndOf(buf, p) \in Nat
      BY RecordedMessages, BufIsPrefix, MessageBounds DEF CompleteIn, IInv
    <3> QED  BY <2>1, <2>2, <3>1
  <2> QED  BY <2>1, <2>2
<1>2. ASSUME NEW q \in Seen PROVE q \in Starts
  BY IdleFrontier DEF IInv, BuildIsScanSoFar
<1> QED  BY <1>1, <1>2 DEF IsScan

(* The recorded ranges are complete messages, in order and disjoint.       *)
THEOREM OffsetsCorrect == Spec => []OffsetsAreMessages
<1>1. IInv => OffsetsAreMessages
  BY DEF IInv
<1> QED  BY <1>1, InvHolds, PTL

(* consumed is the end of the last recorded message, whatever was called.  *)
THEOREM ConsumedCorrect == Spec => []ConsumedIsLastEnd
<1>1. IInv => ConsumedIsLastEnd
  BY DEF IInv
<1> QED  BY <1>1, InvHolds, PTL

(* A complete message is recorded or overlaps a recorded one, whatever the *)
(* producer writes and however the calls slice the file.                   *)
THEOREM NothingIsLost == Spec => []NothingLost
<1> QED  BY IInvImpliesNothingLost, InvHolds, PTL

(* Without nesting, any sequence of builds and appends gives the index of  *)
(* one build.                                                              *)
THEOREM AppendEqualsBuild == Spec => []SameAsSingleBuild
<1> QED  BY IInvImpliesSameAsSingleBuild, InvHolds, PTL

(* A fresh build is one left to right scan.                                *)
THEOREM BuildCorrect == Spec => []BuildIsScan
<1> QED  BY IInvImpliesBuildIsScan, InvHolds, PTL

-----------------------------------------------------------------------------
(* The secondary index.                                                    *)

(* An append finds in the old messages the pairs they had before.          *)
LEMMA PairsKept ==
  ASSUME IInv, NEW n \in 0 .. Len(file), NEW from \in 0 .. Len(file),
         AppendFromOffset(n, from), NEW i \in 1 .. Len(messages)
  PROVE  PairsAt(buf', messages[i].start) = PairsAt(buf, messages[i].start)
<1>1. /\ buf = SubSeq(file, 1, mapped) /\ buf' = SubSeq(file, 1, n)
      /\ file \in Seq(Cell) /\ mapped \in 0 .. Len(file) /\ consumed \in Nat
      /\ n \in Nat /\ consumed <= n
  BY DEF AppendFromOffset, buf, IInv, TypeOK
<1>2. /\ ParseOk(buf, messages[i].start)
      /\ EndOf(buf, messages[i].start) <= consumed
  BY DEF IInv, OffsetsAreMessages, Watermark
<1>3. EndOf(buf, messages[i].start) \in Nat
  BY <1>2, BufIsPrefix, MessageBounds DEF IInv
<1>4. EndOf(buf, messages[i].start) <= n
  BY <1>1, <1>2, <1>3
<1> QED  BY <1>1, <1>2, <1>4, PairsInPrefix

LEMMA SecondaryPush ==
  ASSUME IInv, SecondaryIsExact, NEW o \in 0 .. mapped - 1, PushMessage(o)
  PROVE  SecondaryIsExact'
<1> DEFINE m == OffsetAt(buf, o)
<1>1. /\ messages \in Seq(MessageOffset) /\ secondary \in [HotPairs -> Seq(Nat)]
  BY DEF IInv, TypeOK
<1>2. /\ buf' = buf
      /\ messages' = Append(messages, m)
      /\ secondary' = record(secondary, PairsAt(buf, o), Len(messages))
  BY DEF PushMessage, buf
<1>3. EndOf(buf, o) - o \in Nat /\ o \in Nat
  BY BufIsPrefix, MessageBounds DEF PushMessage, IInv
<1>4. m \in MessageOffset /\ m.start = o
  BY <1>3 DEF MessageOffset, OffsetAt
<1> HIDE DEF m
<1>5. ListsExactly(record(secondary, PairsAt(buf, m.start), Len(messages)), buf,
                   Append(messages, m))
  BY <1>1, <1>4, RecordExact DEF SecondaryIsExact
<1> QED  BY <1>2, <1>4, <1>5 DEF SecondaryIsExact

LEMMA SecondaryStep == IInv /\ SecondaryIsExact /\ [Next]_vars => SecondaryIsExact'
<1> SUFFICES ASSUME IInv, SecondaryIsExact, [Next]_vars PROVE SecondaryIsExact'
  OBVIOUS
<1>1. ASSUME NEW c \in Cells, Write(c) PROVE SecondaryIsExact'
  <2>1. buf' = buf
    <3>1. c \in Cell /\ file' = Append(file, c) /\ mapped' = mapped
      BY <1>1, ConstantsAssumption DEF Write
    <3>2. SubSeq(Append(file, c), 1, mapped) = SubSeq(file, 1, mapped)
      BY <3>1, PrefixOfAppend DEF IInv, TypeOK
    <3> QED  BY <3>1, <3>2 DEF buf
  <2> QED  BY <1>1, <2>1 DEF Write, SecondaryIsExact
<1>2. ASSUME NEW n \in 0 .. Len(file), Build(n) PROVE SecondaryIsExact'
  <2>1. messages' = << >> /\ Len(messages') = 0
    BY <1>2 DEF Build, EmptyIndex
  <2>2. /\ DOMAIN secondary' = HotPairs
        /\ \A k \in HotPairs : secondary'[k] = << >> /\ Len(secondary'[k]) = 0
    BY <1>2 DEF Build, EmptyIndex
  <2> QED  BY <2>1, <2>2 DEF SecondaryIsExact, ListsExactly
<1>3. ASSUME NEW n \in 0 .. Len(file), NEW from \in 0 .. Len(file), Refuse(n, from)
      PROVE  SecondaryIsExact'
  BY <1>3 DEF Refuse, SecondaryIsExact, buf
<1>4. ASSUME NEW n \in 0 .. Len(file), NEW from \in 0 .. Len(file), AppendFromOffset(n, from)
      PROVE  SecondaryIsExact'
  <2>1. messages' = messages /\ secondary' = secondary
    BY <1>4 DEF AppendFromOffset
  <2>2. \A i \in 1 .. Len(messages) :
          PairsAt(buf', messages[i].start) = PairsAt(buf, messages[i].start)
    BY <1>4, PairsKept
  <2>3. \A x \in 0 .. Len(messages) - 1 : x + 1 \in 1 .. Len(messages)
    BY DEF IInv, TypeOK
  <2>4. \A k \in HotPairs : MentionedBy(buf', messages, k) = MentionedBy(buf, messages, k)
    BY <2>2, <2>3 DEF MentionedBy
  <2>5. secondary \in [HotPairs -> Seq(Nat)]
    BY DEF IInv, TypeOK
  <2>6. ListsExactly(secondary, buf', messages)
    BY <2>4, <2>5, ListsExactlyParts DEF SecondaryIsExact
  <2> QED  BY <2>1, <2>6 DEF SecondaryIsExact
<1>5. ASSUME NEW o \in 0 .. mapped - 1, PushMessage(o) PROVE SecondaryIsExact'
  BY <1>5, SecondaryPush
<1>6. ASSUME NEW o \in 0 .. mapped - 1, SkipMarker(o) PROVE SecondaryIsExact'
  BY <1>6 DEF SkipMarker, SecondaryIsExact, buf
<1>7. CASE Return
  BY <1>7 DEF Return, SecondaryIsExact, buf
<1>8. CASE UNCHANGED vars
  BY <1>8 DEF vars, SecondaryIsExact, buf
<1> QED  BY <1>1, <1>2, <1>3, <1>4, <1>5, <1>6, <1>7, <1>8 DEF Next, Scan

(* A lookup of a hot pair answers exactly the ordinals of the recorded     *)
(* messages that mention it, in increasing order.                          *)
THEOREM SecondaryCorrect == Spec => []SecondaryIsExact
<1>1. Init => SecondaryIsExact
  BY DEF Init, SecondaryIsExact, ListsExactly
<1> QED  BY <1>1, SecondaryStep, InvHolds, PTL DEF Spec
=============================================================================
