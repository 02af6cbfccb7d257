---------------------------- MODULE MavgenProofs ----------------------------
(***************************************************************************)
(* Theorems about what mavgen.py generates: the dissector finds the frames *)
(* of a stream however it is cut into segments.                            *)
(***************************************************************************)
EXTENDS MavgenDefs, Dissector, SequenceTheorems, TLAPS

\* The steps of the folds, for FoldTheorems.
PyStep(c, a, e) == PyEntry(a, e)
LuaStep(c, a, e) == LuaEntry(a, e)
FieldStep(msg, calls, f) == generate_field_dissector(calls, msg, f)
SumStep(c, a, b) == a + b
TableStep(d, t, key) == Put(t, d.messages[key].id, generate_payload_dissector(d.messages[key]))
PyFold == INSTANCE FoldTheorems WITH Op <- PyStep
LuaFold == INSTANCE FoldTheorems WITH Op <- LuaStep
FieldFold == INSTANCE FoldTheorems WITH Op <- FieldStep
SumFold == INSTANCE FoldTheorems WITH Op <- SumStep
TableFold == INSTANCE FoldTheorems WITH Op <- TableStep

-----------------------------------------------------------------------------
(* The dissector.  A buffer holds the bytes of the stream from b to end.    *)

Byte8 == 0 .. 255

\* The buffer's bytes are those of the stream.
LEMMA BufferLemma ==
  ASSUME NEW stream \in Seq(Byte8), NEW end \in 0 .. Len(stream), NEW b \in 0 .. end,
         NEW buffer, buffer = SubSeq(stream, b + 1, end)
  PROVE  /\ buffer \in Seq(Byte8) /\ Len(buffer) = end - b
         /\ \A k \in 1 .. end - b : buffer[k] = stream[b + k] /\ buffer[k] \in Byte8
<1>1. \A i \in b + 1 .. end : stream[i] \in Byte8
  OBVIOUS
<1>2. b + 1 \in Int /\ end \in Int /\ end - (b + 1) + 1 = end - b /\ b \in Nat
  OBVIOUS
<1>3. /\ buffer \in Seq(Byte8) /\ Len(buffer) = IF b + 1 <= end THEN end - (b + 1) + 1 ELSE 0
      /\ \A i \in 1 .. end - (b + 1) + 1 : buffer[i] = stream[b + 1 + i - 1]
  BY <1>1, <1>2, SubSeqProperties
<1>4. Len(buffer) = end - b
  BY <1>2, <1>3
<1>5. ASSUME NEW k \in 1 .. end - b PROVE buffer[k] = stream[b + k] /\ buffer[k] \in Byte8
  <2>1. b + 1 + k - 1 = b + k /\ b + k \in b + 1 .. end
    OBVIOUS
  <2> QED BY <1>1, <1>2, <1>3, <2>1
<1> QED BY <1>3, <1>4, <1>5

\* A part of the buffer is a part of the stream.
LEMMA PartLemma ==
  ASSUME NEW stream \in Seq(Byte8), NEW end \in 0 .. Len(stream), NEW b \in 0 .. end,
         NEW buffer, buffer = SubSeq(stream, b + 1, end),
         NEW s \in 0 .. end - b, NEW o \in 0 .. s
  PROVE  SubSeq(buffer, o + 1, s) = SubSeq(stream, b + o + 1, b + s)
<1>1. CASE o = s
  <2>1. s < o + 1 /\ b + s < b + o + 1 /\ o + 1 \in Int /\ b + o + 1 \in Int /\ b + s \in Int /\ s \in Int
    BY <1>1
  <2>2. SubSeq(buffer, o + 1, s) = <<>>
    BY <2>1, SubSeqEmpty
  <2>3. SubSeq(stream, b + o + 1, b + s) = <<>>
    BY <2>1, SubSeqEmpty
  <2> QED BY <2>2, <2>3
<1>2. CASE o < s
  <2>1. /\ b + 1 \in 1 .. Len(stream) /\ end \in 1 .. Len(stream)
        /\ o + 1 \in 1 .. end - (b + 1) + 1 /\ s \in 1 .. end - (b + 1) + 1
    BY <1>2
  <2>2. SubSeq(SubSeq(stream, b + 1, end), o + 1, s) = SubSeq(stream, (b + 1) + (o + 1) - 1, (b + 1) + s - 1)
    BY <2>1, SubSeqOfSubSeq
  <2>3. (b + 1) + (o + 1) - 1 = b + o + 1 /\ (b + 1) + s - 1 = b + s
    OBVIOUS
  <2> QED BY <2>2, <2>3
<1> QED BY <1>1, <1>2

IsCall(d) == DOMAIN d = {"buffer", "offset", "header_len", "desegment_offset", "frames", "done"}

\* The inner loop stops at the first preamble, or at the end of the buffer.
Ready(d, len) ==
  /\ IsCall(d) /\ d.buffer \in Seq(Byte8) /\ len = Len(d.buffer)
  /\ d.offset \in 0 .. len /\ d.header_len \in {0, 6, 10}
Skipped(d0, d, len) ==
  /\ IsCall(d) /\ d.buffer = d0.buffer /\ d.frames = d0.frames /\ d.done = d0.done
  /\ d.desegment_offset = d0.desegment_offset
  /\ d.offset \in d0.offset .. len /\ d.header_len \in {0, 6, 10}
  /\ \A q \in d0.offset .. d.offset - 1 : d.buffer[q + 1] \notin {Magic1, Magic2}
  /\ d.offset < len => /\ d.buffer[d.offset + 1] \in {Magic1, Magic2}
                       /\ d.header_len = IF d.buffer[d.offset + 1] = Magic1 THEN 6 ELSE 10

LEMMA SkipLemma ==
  ASSUME NEW d0, NEW len, Ready(d0, len), NEW d, d = skip(d0)
  PROVE  Skipped(d0, d, len)
<1> SUFFICES /\ IsCall(d) /\ d.buffer = d0.buffer /\ d.frames = d0.frames /\ d.done = d0.done
             /\ d.desegment_offset = d0.desegment_offset
             /\ d.offset \in d0.offset .. len /\ d.header_len \in {0, 6, 10}
             /\ \A q \in d0.offset .. d.offset - 1 : d.buffer[q + 1] \notin {Magic1, Magic2}
             /\ d.offset < len => /\ d.buffer[d.offset + 1] \in {Magic1, Magic2}
                                  /\ d.header_len = IF d.buffer[d.offset + 1] = Magic1 THEN 6 ELSE 10
  BY DEF Skipped
<1> USE DEF Ready
<1> DEFINE found == {o \in d0.offset .. len - 1 : d0.buffer[o + 1] \in {Magic1, Magic2}}
<1>1. len \in Nat /\ d0.offset \in Nat
  OBVIOUS
<1>2. d = IF found = {} THEN [d0 EXCEPT !.offset = len]
          ELSE [d0 EXCEPT !.offset = Min(found),
                          !.header_len = IF d0.buffer[Min(found) + 1] = Magic1 THEN 6 ELSE 10]
  BY DEF skip
<1>3. CASE found = {}
  <2>1. d = [d0 EXCEPT !.offset = len]
    BY <1>2, <1>3
  <2>2. \A q \in d0.offset .. len - 1 : d0.buffer[q + 1] \notin {Magic1, Magic2}
    BY <1>3
  <2> HIDE DEF found
  <2>3. /\ IsCall(d) /\ d.buffer = d0.buffer /\ d.frames = d0.frames /\ d.done = d0.done
        /\ d.desegment_offset = d0.desegment_offset /\ d.offset = len /\ d.header_len = d0.header_len
    BY <2>1 DEF IsCall
  <2> QED BY <1>1, <2>2, <2>3
<1>4. CASE found # {}
  <2>1. found \subseteq 0 .. len
    BY <1>1
  <2>2. \E x \in found : \A y \in found : x <= y
    <3> HIDE DEF found
    <3> QED BY <1>1, <1>4, <2>1, PyFold!Extremes
  <2>3. Min(found) \in found /\ \A y \in found : Min(found) <= y
    <3> HIDE DEF found
    <3> QED BY <2>2 DEF Min
  <2>4. PICK m : m = Min(found)
    OBVIOUS
  <2>5. /\ m \in d0.offset .. len - 1 /\ d0.buffer[m + 1] \in {Magic1, Magic2}
        /\ \A q \in d0.offset .. m - 1 : d0.buffer[q + 1] \notin {Magic1, Magic2}
    <3>1. m \in d0.offset .. len - 1 /\ d0.buffer[m + 1] \in {Magic1, Magic2}
      BY <2>3, <2>4
    <3>2. ASSUME NEW q \in d0.offset .. m - 1 PROVE d0.buffer[q + 1] \notin {Magic1, Magic2}
      <4>1. q \in d0.offset .. len - 1 /\ ~(m <= q)
        BY <1>1, <3>1
      <4> QED BY <2>3, <2>4, <4>1
    <3> QED BY <3>1, <3>2
  <2> HIDE DEF found
  <2>6. PICK h : h = IF d0.buffer[m + 1] = Magic1 THEN 6 ELSE 10
    OBVIOUS
  <2>7. d = [d0 EXCEPT !.offset = m, !.header_len = h]
    BY <1>2, <1>4, <2>4, <2>6
  <2>8. /\ IsCall(d) /\ d.buffer = d0.buffer /\ d.frames = d0.frames /\ d.done = d0.done
        /\ d.desegment_offset = d0.desegment_offset /\ d.offset = m /\ d.header_len = h
    BY <2>7 DEF IsCall
  <2> QED BY <1>1, <2>5, <2>6, <2>8
<1> QED BY <1>3, <1>4

\* What the first byte at a position says.
LEMMA HeadLemma ==
  ASSUME NEW stream, NEW p
  PROVE  /\ HeadAt(stream, p).buffer = stream /\ HeadAt(stream, p).offset = p
         /\ HeadAt(stream, p).header_len = IF stream[p + 1] = Magic1 THEN 6 ELSE 10
         /\ \A k : Byte(HeadAt(stream, p), k) = stream[p + k + 1]
BY DEF HeadAt, Call, Byte

\* A complete frame has a size, and stays complete.
LEMMA CompleteLemma ==
  ASSUME NEW stream \in Seq(Byte8), NEW end \in 0 .. Len(stream), NEW p \in Nat, Complete(stream, p, end)
  PROVE  /\ FrameEnd(stream, p) \in Nat /\ p < FrameEnd(stream, p) /\ FrameEnd(stream, p) <= end
         /\ \A later \in end .. Len(stream) : Complete(stream, p, later)
<1>1. PICK h : h = HeadAt(stream, p).header_len /\ h \in {6, 10}
  BY HeadLemma
<1>2. p + h + trailer_len <= end /\ FrameEnd(stream, p) <= end
  BY <1>1 DEF Complete
<1>3. trailer_len = 2
  BY DEF trailer_len
<1>4. p + 2 \in 1 .. Len(stream)
  BY <1>1, <1>2, <1>3
<1>5. PICK x : x = Byte(HeadAt(stream, p), 1) /\ x \in 0 .. 255
  <2>1. Byte(HeadAt(stream, p), 1) = stream[p + 1 + 1] /\ p + 1 + 1 = p + 2
    BY HeadLemma
  <2>2. stream[p + 2] \in Byte8
    BY <1>4
  <2> QED BY <2>1, <2>2 DEF Byte8
<1>6. FrameEnd(stream, p) = p + h + x + 2
  BY <1>1, <1>3, <1>5 DEF FrameEnd
<1>7. FrameEnd(stream, p) \in Nat /\ p < FrameEnd(stream, p)
  <2>1. h \in {6, 10}
    BY <1>1
  <2>2. x \in 0 .. 255
    BY <1>5
  <2>3. h \in Nat
    BY <2>1
  <2>4. x \in Nat
    BY <2>2
  <2> QED BY <1>6, <2>3, <2>4
<1>8. ASSUME NEW later \in end .. Len(stream) PROVE Complete(stream, p, later)
  <2>1. p + h + trailer_len <= later /\ FrameEnd(stream, p) <= later
    BY <1>1, <1>2, <1>3, <1>7
  <2> QED BY <1>1, <2>1 DEF Complete
<1> QED BY <1>2, <1>7, <1>8

\* A call that is at a preamble sees what the stream has there.
IsView(d, stream, b, end) ==
  /\ d.buffer = SubSeq(stream, b + 1, end) /\ d.offset \in 0 .. end - b - 1
  /\ d.header_len = IF d.buffer[d.offset + 1] = Magic1 THEN 6 ELSE 10

LEMMA ViewLemma ==
  ASSUME NEW stream \in Seq(Byte8), NEW end \in 0 .. Len(stream), NEW b \in 0 .. end,
         NEW d, IsView(d, stream, b, end), NEW e, e = HeadAt(stream, b + d.offset)
  PROVE  /\ e.header_len = d.header_len /\ e.header_len \in {6, 10} /\ e.buffer = stream /\ e.offset = b + d.offset
         /\ d.buffer[d.offset + 1] = stream[b + d.offset + 1]
         /\ \A k \in Nat : d.offset + k < end - b => Byte(d, k) = Byte(e, k) /\ Byte(d, k) \in 0 .. 255
<1>0. b \in Nat /\ end \in Nat /\ end - b \in Nat
  OBVIOUS
<1>1. PICK o : o = d.offset /\ o \in 0 .. end - b - 1
  BY DEF IsView
<1>a. o \in Nat /\ o < end - b
  BY <1>0, <1>1
<1>2. PICK buffer : buffer = d.buffer /\ buffer = SubSeq(stream, b + 1, end)
  BY DEF IsView
<1>3. \A k \in 1 .. end - b : buffer[k] = stream[b + k] /\ buffer[k] \in Byte8
  BY <1>2, BufferLemma
<1>4. ASSUME NEW k \in Nat, o + k < end - b
      PROVE  buffer[o + k + 1] = stream[b + o + k + 1] /\ buffer[o + k + 1] \in 0 .. 255
  <2>1. PICK m : m = o + k + 1
    OBVIOUS
  <2>2. m \in 1 .. end - b /\ b + m = b + o + k + 1
    BY <1>0, <1>4, <1>a, <2>1
  <2>3. buffer[m] = stream[b + m] /\ buffer[m] \in 0 .. 255
    BY <1>3, <2>2 DEF Byte8
  <2> QED BY <2>1, <2>2, <2>3
<1>5. buffer[o + 1] = stream[b + o + 1]
  <2>1. o + 1 \in 1 .. end - b /\ b + (o + 1) = b + o + 1
    BY <1>0, <1>a
  <2> QED BY <1>3, <2>1
<1>6. /\ e.header_len = IF stream[b + o + 1] = Magic1 THEN 6 ELSE 10
      /\ e.buffer = stream /\ e.offset = b + o /\ \A k : Byte(e, k) = stream[b + o + k + 1]
  <2>1. PICK p : p = b + o
    OBVIOUS
  <2>2. e = HeadAt(stream, p)
    BY <1>1, <2>1
  <2> QED BY <2>1, <2>2, HeadLemma
<1>7. d.header_len = IF buffer[o + 1] = Magic1 THEN 6 ELSE 10
  BY <1>1, <1>2 DEF IsView
<1>8. \A k : Byte(d, k) = buffer[o + k + 1]
  BY <1>1, <1>2 DEF Byte
<1>9. e.header_len = d.header_len /\ e.header_len \in {6, 10}
  <2>1. CASE stream[b + o + 1] = Magic1
    <3>1. e.header_len = 6
      BY <1>6, <2>1
    <3>2. d.header_len = 6
      BY <1>5, <1>7, <2>1
    <3> QED BY <3>1, <3>2
  <2>2. CASE stream[b + o + 1] # Magic1
    <3>1. e.header_len = 10
      BY <1>6, <2>2
    <3>2. d.header_len = 10
      BY <1>5, <1>7, <2>2
    <3> QED BY <3>1, <3>2
  <2> QED BY <2>1, <2>2
<1>10. ASSUME NEW k \in Nat, o + k < end - b PROVE Byte(d, k) = Byte(e, k) /\ Byte(d, k) \in 0 .. 255
  <2>1. Byte(d, k) = buffer[o + k + 1]
    BY <1>8
  <2>2. Byte(e, k) = stream[b + o + k + 1]
    BY <1>6
  <2>3. buffer[o + k + 1] = stream[b + o + k + 1] /\ buffer[o + k + 1] \in 0 .. 255
    BY <1>4, <1>10
  <2> QED BY <2>1, <2>2, <2>3
<1> QED BY <1>1, <1>2, <1>5, <1>6, <1>9, <1>10

\* The fields of a message are at offsets of its payload.
IsTable(myfuncs) ==
  \A id \in DOMAIN myfuncs : \A k \in DOMAIN myfuncs[id].calls :
     myfuncs[id].calls[k].offset \in Nat /\ myfuncs[id].calls[k].size \in Nat

\* The bytes of a field are those of the stream, if the payload is in the buffer.
Holds(buffer, base, len, stream, b, end) ==
  /\ stream \in Seq(Byte8) /\ end \in 0 .. Len(stream) /\ b \in 0 .. end /\ buffer = SubSeq(stream, b + 1, end)
  /\ base \in Nat /\ len \in Nat /\ base + len <= end - b

LEMMA FieldLemma ==
  ASSUME NEW stream, NEW end, NEW b, NEW buffer, NEW base, NEW len, Holds(buffer, base, len, stream, b, end),
         NEW offset \in Nat, NEW size \in Nat
  PROVE  addle(buffer, base, offset, size, len) = addle(stream, b + base, offset, size, len)
<1>0. /\ stream \in Seq(Byte8) /\ end \in 0 .. Len(stream) /\ b \in 0 .. end /\ buffer = SubSeq(stream, b + 1, end)
      /\ base \in Nat /\ len \in Nat /\ base + len <= end - b /\ b \in Nat /\ end \in Nat /\ end - b \in Nat
  BY DEF Holds
<1>1. ASSUME NEW s \in Nat, offset + s <= len
      PROVE  Bytes(buffer, base + offset, s) = Bytes(stream, b + base + offset, s)
  <2>1. PICK o : o = base + offset
    OBVIOUS
  <2>2. PICK t : t = o + s
    OBVIOUS
  <2>3. o \in Nat /\ t \in Nat /\ t \in 0 .. end - b /\ o \in 0 .. t
    BY <1>0, <1>1, <2>1, <2>2
  <2>4. SubSeq(buffer, o + 1, t) = SubSeq(stream, b + o + 1, b + t)
    BY <1>0, <2>3, PartLemma
  <2>5. b + base + offset = b + o /\ (b + o) + s = b + t
    BY <1>0, <2>1, <2>2, <2>3
  <2> QED BY <2>1, <2>2, <2>4, <2>5 DEF Bytes
<1> DEFINE Given(buf, start) == IF offset >= len THEN <<>>
                                ELSE IF len < offset + size THEN Bytes(buf, start + offset, len - offset)
                                ELSE Bytes(buf, start + offset, size)
<1>2. Given(buffer, base) = Given(stream, b + base)
  <2>1. CASE offset >= len
    BY <2>1
  <2>2. CASE ~(offset >= len) /\ len < offset + size
    <3>1. len - offset \in Nat /\ offset + (len - offset) <= len
      BY <1>0, <2>2
    <3> QED BY <1>1, <2>2, <3>1
  <2>3. CASE ~(offset >= len) /\ ~(len < offset + size)
    <3>1. offset + size <= len
      BY <1>0, <2>3
    <3> QED BY <1>1, <2>3, <3>1
  <2> QED BY <2>1, <2>2, <2>3
<1>3. addle(buffer, base, offset, size, len)
      = Given(buffer, base) \o [k \in 1 .. size - Len(Given(buffer, base)) |-> 0]
  BY DEF addle
<1>4. addle(stream, b + base, offset, size, len)
      = Given(stream, b + base) \o [k \in 1 .. size - Len(Given(stream, b + base)) |-> 0]
  BY DEF addle
<1> HIDE DEF Given
<1> QED BY <1>2, <1>3, <1>4

\* A call at a frame that is complete in its buffer shows it as the stream has it.
LEMMA PayloadLemma ==
  ASSUME NEW stream \in Seq(Byte8), NEW end \in 0 .. Len(stream), NEW b \in 0 .. end,
         NEW myfuncs, IsTable(myfuncs),
         NEW d, IsView(d, stream, b, end), NEW e, e = HeadAt(stream, b + d.offset),
         d.offset + d.header_len + Byte(d, 1) + trailer_len <= end - b,
         d.offset + d.header_len + trailer_len <= end - b
  PROVE  /\ msgid(d) = msgid(e)
         /\ msgid(d) \in DOMAIN myfuncs => payload(d, myfuncs[msgid(d)]) = payload(e, myfuncs[msgid(e)])
<1>0. b \in Nat /\ end \in Nat /\ end - b \in Nat
  OBVIOUS
<1>1. /\ e.header_len = d.header_len /\ e.buffer = stream /\ e.offset = b + d.offset
      /\ \A k \in Nat : d.offset + k < end - b => Byte(d, k) = Byte(e, k) /\ Byte(d, k) \in 0 .. 255
  BY ViewLemma
<1>2. PICK o : o = d.offset /\ o \in Nat
  BY <1>0 DEF IsView
<1>3. PICK h : h = d.header_len /\ h \in {6, 10}
  BY DEF IsView
<1>4. o + h + 2 <= end - b
  BY <1>2, <1>3 DEF trailer_len
<1>5. \A k \in 0 .. 9 : k < h => Byte(d, k) = Byte(e, k) /\ Byte(d, k) \in 0 .. 255
  <2> SUFFICES ASSUME NEW k \in 0 .. 9, k < h PROVE Byte(d, k) = Byte(e, k) /\ Byte(d, k) \in 0 .. 255
    OBVIOUS
  <2>1. h \in Nat
    BY <1>3
  <2>2. k \in Nat /\ o + k < end - b
    BY <1>0, <1>2, <1>4, <2>1
  <2> QED BY <1>1, <1>2, <2>2
<1>6. msgid(d) = msgid(e) /\ sender(d) = sender(e)
  <2>1. CASE h = 6
    <3>1. /\ Byte(d, 2) = Byte(e, 2) /\ Byte(d, 3) = Byte(e, 3) /\ Byte(d, 4) = Byte(e, 4) /\ Byte(d, 5) = Byte(e, 5)
      BY <1>5, <2>1
    <3> QED BY <1>1, <1>3, <2>1, <3>1 DEF msgid, sender
  <2>2. CASE h = 10
    <3>1. /\ Byte(d, 4) = Byte(e, 4) /\ Byte(d, 5) = Byte(e, 5) /\ Byte(d, 6) = Byte(e, 6)
          /\ Byte(d, 7) = Byte(e, 7) /\ Byte(d, 8) = Byte(e, 8) /\ Byte(d, 9) = Byte(e, 9)
      BY <1>5, <2>2
    <3> QED BY <1>1, <1>3, <2>2, <3>1 DEF msgid, sender
  <2> QED BY <1>3, <2>1, <2>2
<1>7. ASSUME msgid(d) \in DOMAIN myfuncs
      PROVE  payload(d, myfuncs[msgid(d)]) = payload(e, myfuncs[msgid(d)])
  <2>1. PICK fn : /\ fn = myfuncs[msgid(d)]
                  /\ \A k \in DOMAIN fn.calls : fn.calls[k].offset \in Nat /\ fn.calls[k].size \in Nat
    BY <1>7 DEF IsTable
  <2>2. PICK size : size = Byte(d, 1) /\ size = Byte(e, 1) /\ size \in 0 .. 255
    <3>1. 1 \in 0 .. 9 /\ 1 < h
      BY <1>3
    <3> QED BY <1>5, <3>1
  <2>3. PICK base : base = o + h
    OBVIOUS
  <2>a. h \in Nat
    BY <1>3
  <2>b. size \in Nat
    <3>1. size \in 0 .. 255
      BY <2>2
    <3> QED BY <3>1
  <2>c. base \in Nat /\ (b + o) + h = b + base
    BY <1>0, <1>2, <2>3, <2>a
  <2>d. base + size <= end - b
    <3>1. o + h + size + 2 <= end - b
      BY <1>2, <1>3, <2>2 DEF trailer_len
    <3> QED BY <1>0, <1>2, <2>3, <2>a, <2>b, <3>1
  <2>e. PICK buffer : buffer = d.buffer /\ buffer = SubSeq(stream, b + 1, end)
    BY DEF IsView
  <2>f. Holds(buffer, base, size, stream, b, end)
    <3>1. base \in Nat
      BY <2>c
    <3>2. buffer = SubSeq(stream, b + 1, end)
      BY <2>e
    <3> QED BY <2>b, <2>d, <3>1, <3>2 DEF Holds
  <2>g. \A x \in Nat, y \in Nat : addle(buffer, base, x, y, size) = addle(stream, b + base, x, y, size)
    BY <2>f, FieldLemma
  <2>5. ASSUME NEW k \in DOMAIN fn.calls
        PROVE  addle(d.buffer, base, fn.calls[k].offset, fn.calls[k].size, size)
               = addle(stream, b + base, fn.calls[k].offset, fn.calls[k].size, size)
    BY <2>1, <2>e, <2>g
  <2> DEFINE Shown(buf, start) == [k \in DOMAIN fn.calls |->
                 <<fn.calls[k].field, addle(buf, start, fn.calls[k].offset, fn.calls[k].size, size)>>]
             Record(buf, start) ==
                 [id |-> msgid(d), sender |-> sender(d), fields |-> Shown(buf, start),
                  trimmed |-> IF size < fn.len /\ h = 10 THEN fn.len - size ELSE 0,
                  longer |-> IF size > fn.len THEN size - fn.len ELSE 0]
  <2>6. Shown(d.buffer, base) = Shown(stream, b + base)
    BY <2>5
  <2>7. payload(d, fn) = Record(d.buffer, base)
    BY <1>2, <1>3, <2>2, <2>3 DEF payload
  <2>8. payload(e, fn) = Record(stream, b + base)
    <3>1. e.offset + e.header_len = b + base
      BY <1>1, <1>2, <1>3, <2>c
    <3> QED BY <1>1, <1>3, <1>6, <2>2, <3>1 DEF payload
  <2> HIDE DEF Shown
  <2> QED BY <2>1, <2>6, <2>7, <2>8
<1> QED BY <1>6, <1>7


\* A call that looks at the bytes of the stream from b to end.
InCall(d, stream, b, end) ==
  /\ stream \in Seq(Byte8) /\ end \in 0 .. Len(stream) /\ b \in 0 .. end
  /\ IsCall(d) /\ d.buffer = SubSeq(stream, b + 1, end)
  /\ d.offset \in 0 .. end - b /\ d.header_len \in {0, 6, 10}

\* What a call that ends at position p leaves for the next.
Leaves(d, stream, p, end) ==
  /\ p = end \/ (Preamble(stream, p) /\ ~Complete(stream, p, end))
  /\ kept(d) = SubSeq(stream, p + 1, end)

\* The inner loop passes over junk only, to the end or to a preamble of the stream.
LEMMA SkipJunk ==
  ASSUME NEW stream, NEW b, NEW end, NEW d0, InCall(d0, stream, b, end), NEW myfuncs, NEW d, d = skip(d0)
  PROVE  /\ InCall(d, stream, b, end) /\ d.frames = d0.frames /\ d.done = d0.done
         /\ d.desegment_offset = d0.desegment_offset
         /\ d0.offset <= d.offset
         /\ AllJunk(stream, myfuncs, b + d0.offset, b + d.offset, end)
         /\ d.offset # end - b => IsView(d, stream, b, end) /\ Preamble(stream, b + d.offset)
<1>1. /\ stream \in Seq(Byte8) /\ end \in 0 .. Len(stream) /\ b \in 0 .. end /\ b \in Nat /\ end \in Nat /\ end - b \in Nat
  BY DEF InCall
<1>2. PICK buffer : buffer = d0.buffer /\ buffer = SubSeq(stream, b + 1, end)
  BY DEF InCall
<1>3. /\ buffer \in Seq(Byte8) /\ Len(buffer) = end - b
      /\ \A k \in 1 .. end - b : buffer[k] = stream[b + k] /\ buffer[k] \in Byte8
  BY <1>1, <1>2, BufferLemma
<1>4. IsCall(d0) /\ d0.header_len \in {0, 6, 10}
  BY DEF InCall
<1>5. PICK o0 : o0 = d0.offset /\ o0 \in 0 .. end - b
  BY DEF InCall
<1>6. /\ IsCall(d) /\ d.buffer = buffer /\ d.frames = d0.frames /\ d.done = d0.done
      /\ d.desegment_offset = d0.desegment_offset
      /\ d.offset \in o0 .. end - b /\ d.header_len \in {0, 6, 10}
      /\ \A q \in o0 .. d.offset - 1 : d.buffer[q + 1] \notin {Magic1, Magic2}
      /\ d.offset < end - b => /\ d.buffer[d.offset + 1] \in {Magic1, Magic2}
                               /\ d.header_len = IF d.buffer[d.offset + 1] = Magic1 THEN 6 ELSE 10
  <2>1. PICK len : len = Len(d0.buffer) /\ len = end - b
    BY <1>2, <1>3
  <2>2. Ready(d0, len)
    BY <1>2, <1>3, <1>4, <1>5, <2>1 DEF Ready
  <2>3. Skipped(d0, d, len)
    BY <2>2, SkipLemma
  <2> QED BY <1>2, <1>5, <2>1, <2>3 DEF Skipped
<1>7. PICK o : o = d.offset /\ o \in o0 .. end - b
  BY <1>6
<1>8. o0 \in Nat /\ o \in Nat /\ o \in 0 .. end - b
  BY <1>1, <1>5, <1>7
<1>9. InCall(d, stream, b, end)
  BY <1>1, <1>2, <1>6, <1>7, <1>8 DEF InCall
<1>10. ASSUME NEW p \in b + o0 .. (b + o) - 1 PROVE ~Preamble(stream, p)
  <2>1. PICK q : q = p - b
    OBVIOUS
  <2>2. q \in o0 .. o - 1 /\ q + 1 \in 1 .. end - b /\ b + (q + 1) = p + 1
    BY <1>1, <1>8, <2>1
  <2>3. buffer[q + 1] \notin {Magic1, Magic2} /\ buffer[q + 1] = stream[b + (q + 1)]
    BY <1>3, <1>6, <1>7, <2>2
  <2> QED BY <2>2, <2>3 DEF Preamble
<1>11. AllJunk(stream, myfuncs, b + o0, b + o, end)
  <2>1. \A p \in b + o0 .. (b + o) - 1 : Junk(stream, myfuncs, p, end)
    BY <1>10 DEF Junk
  <2> QED BY <2>1 DEF AllJunk
<1>12. ASSUME o # end - b PROVE IsView(d, stream, b, end) /\ Preamble(stream, b + o)
  <2>1. o < end - b /\ o \in 0 .. end - b - 1 /\ o + 1 \in 1 .. end - b /\ b + (o + 1) = b + o + 1
    BY <1>1, <1>7, <1>8, <1>12
  <2>2. buffer[o + 1] \in {Magic1, Magic2} /\ d.header_len = IF buffer[o + 1] = Magic1 THEN 6 ELSE 10
    BY <1>6, <1>7, <2>1
  <2>3. buffer[o + 1] = stream[b + o + 1]
    BY <1>3, <2>1
  <2> QED BY <1>2, <1>6, <1>7, <2>1, <2>2, <2>3 DEF IsView, Preamble
<1> QED BY <1>5, <1>6, <1>7, <1>8, <1>9, <1>11, <1>12

\* A turn of the outer loop ends the call, passes a byte of junk or shows a frame.
Stopped(d0, d1, stream, b, p, end) ==
  d1.done = TRUE /\ b + d1.offset = p /\ d1.frames = d0.frames /\ Leaves(d1, stream, p, end)
Passed(d0, d1, stream, myfuncs, b, p, end) ==
  /\ d1.done = FALSE /\ d1.desegment_offset = NotAsked /\ b + d1.offset = p + 1 /\ d1.frames = d0.frames
  /\ p < end /\ Junk(stream, myfuncs, p, end)
Found(d0, d1, stream, myfuncs, b, p, end) ==
  /\ d1.done = FALSE /\ d1.desegment_offset = NotAsked /\ b + d1.offset = FrameEnd(stream, p)
  /\ \E f : IsFrame(stream, myfuncs, f, p, end) /\ d1.frames = Append(d0.frames, f)

LEMMA TurnLemma ==
  ASSUME NEW stream, NEW b, NEW end, NEW d0, InCall(d0, stream, b, end),
         NEW myfuncs, IsTable(myfuncs), d0.done = FALSE, d0.desegment_offset = NotAsked,
         NEW d1, d1 = turn(d0, myfuncs)
  PROVE  /\ InCall(d1, stream, b, end)
         /\ \E p \in b + d0.offset .. end :
               /\ AllJunk(stream, myfuncs, b + d0.offset, p, end)
               /\ \/ Stopped(d0, d1, stream, b, p, end)
                  \/ Passed(d0, d1, stream, myfuncs, b, p, end)
                  \/ Found(d0, d1, stream, myfuncs, b, p, end)
<1>1. PICK d : d = skip(d0)
  OBVIOUS
<1>2. /\ InCall(d, stream, b, end) /\ d.frames = d0.frames /\ d.done = FALSE /\ d.desegment_offset = NotAsked
      /\ d0.offset <= d.offset
      /\ AllJunk(stream, myfuncs, b + d0.offset, b + d.offset, end)
      /\ d.offset # end - b => IsView(d, stream, b, end) /\ Preamble(stream, b + d.offset)
  BY <1>1, SkipJunk
<1>3. /\ stream \in Seq(Byte8) /\ end \in 0 .. Len(stream) /\ b \in 0 .. end /\ b \in Nat /\ end \in Nat /\ end - b \in Nat
      /\ IsCall(d) /\ d.buffer = SubSeq(stream, b + 1, end)
  BY <1>2 DEF InCall
<1>4. Len(d.buffer) = end - b /\ Len(d0.buffer) = end - b
  BY <1>3, BufferLemma DEF InCall
<1>5. PICK o : o = d.offset /\ o \in 0 .. end - b
  BY <1>2 DEF InCall
<1>6. PICK h : h = d.header_len /\ h \in {0, 6, 10}
  BY <1>2 DEF InCall
<1>7. PICK o0 : o0 = d0.offset /\ o0 \in 0 .. end - b
  BY DEF InCall
<1>8. o \in Nat /\ o0 \in Nat /\ o0 <= o /\ b + o \in b + o0 .. end /\ trailer_len = 2
  BY <1>2, <1>3, <1>5, <1>7 DEF trailer_len
<1>9. h \in Nat
  BY <1>6
<1>10. PICK x : x = Byte(d, 1)
  OBVIOUS
<1>11. d1 = IF o0 >= end - b \/ h = 0 THEN [d EXCEPT !.done = TRUE]
            ELSE IF (end - b) - o < h + 2 THEN desegment(d)
            ELSE IF (end - b) - o < h + x + 2 THEN desegment(d)
            ELSE IF msgid(d) \notin DOMAIN myfuncs THEN [d EXCEPT !.offset = o + 1]
            ELSE [d EXCEPT !.offset = o + (h + x + 2), !.frames = Append(@, payload(d, myfuncs[msgid(d)]))]
  BY <1>1, <1>4, <1>5, <1>6, <1>7, <1>8, <1>10 DEF turn
<1> HIDE DEF trailer_len
<1>12. AllJunk(stream, myfuncs, b + o0, b + o, end)
  BY <1>2, <1>5, <1>7
<1> DEFINE Goal == /\ InCall(d1, stream, b, end)
                   /\ \/ Stopped(d0, d1, stream, b, b + o, end)
                      \/ Passed(d0, d1, stream, myfuncs, b, b + o, end)
                      \/ Found(d0, d1, stream, myfuncs, b, b + o, end)
<1>13. SUFFICES Goal
  BY <1>7, <1>8, <1>12
<1>14. CASE o0 >= end - b \/ h = 0
  <2>1. d1 = [d EXCEPT !.done = TRUE]
    BY <1>11, <1>14
  <2>2. o = end - b
    <3>1. CASE o0 >= end - b
      BY <1>3, <1>5, <1>8, <3>1
    <3>2. CASE h = 0
      BY <1>2, <1>5, <1>6, <3>2 DEF IsView
    <3> QED BY <1>14, <3>1, <3>2
  <2>3. /\ d1.buffer = d.buffer /\ d1.offset = o /\ d1.header_len = h /\ d1.frames = d.frames
        /\ d1.desegment_offset = NotAsked /\ d1.done = TRUE /\ IsCall(d1)
    BY <1>2, <1>3, <1>5, <1>6, <2>1 DEF IsCall
  <2>4. b + o = end
    BY <1>3, <2>2
  <2>5. kept(d1) = SubSeq(stream, end + 1, end)
    <3>1. kept(d1) = <<>>
      BY <2>3 DEF kept
    <3>2. end < end + 1 /\ end \in Int /\ end + 1 \in Int
      BY <1>3
    <3> QED BY <3>1, <3>2, SubSeqEmpty
  <2>6. InCall(d1, stream, b, end)
    BY <1>3, <1>5, <1>6, <2>3 DEF InCall
  <2> QED BY <1>2, <2>3, <2>4, <2>5, <2>6 DEF Stopped, Leaves
<1>15. ASSUME d1 = desegment(d), o = end - b \/ (Preamble(stream, b + o) /\ ~Complete(stream, b + o, end))
       PROVE  Goal
  <2>1. /\ d1.buffer = d.buffer /\ d1.offset = o /\ d1.header_len = h /\ d1.frames = d.frames
        /\ d1.desegment_offset = o /\ d1.done = TRUE /\ IsCall(d1)
    BY <1>2, <1>3, <1>5, <1>6, <1>15 DEF IsCall, desegment
  <2>2. kept(d1) = SubSeq(stream, b + o + 1, end)
    <3>1. o # NotAsked
      BY <1>8 DEF NotAsked
    <3>2. PICK buffer : buffer = d.buffer /\ buffer = SubSeq(stream, b + 1, end)
      BY <1>3
    <3>3. PICK s : s = end - b
      OBVIOUS
    <3>4. kept(d1) = SubSeq(buffer, o + 1, s)
      BY <1>4, <2>1, <3>1, <3>2, <3>3 DEF kept
    <3>5. s \in 0 .. end - b /\ o \in 0 .. s /\ b + s = end
      BY <1>3, <1>5, <3>3
    <3>6. SubSeq(buffer, o + 1, s) = SubSeq(stream, b + o + 1, b + s)
      BY <1>3, <3>2, <3>5, PartLemma
    <3> QED BY <3>4, <3>5, <3>6
  <2>3. InCall(d1, stream, b, end)
    BY <1>3, <1>5, <1>6, <2>1 DEF InCall
  <2>4. b + o = end \/ (Preamble(stream, b + o) /\ ~Complete(stream, b + o, end))
    BY <1>3, <1>15
  <2> QED BY <1>2, <2>1, <2>2, <2>3, <2>4 DEF Stopped, Leaves
<1>16. CASE ~(o0 >= end - b \/ h = 0) /\ o = end - b
  <2>1. (end - b) - o < h + 2
    BY <1>3, <1>9, <1>16
  <2> QED BY <1>11, <1>15, <1>16, <2>1
<1>17. CASE ~(o0 >= end - b \/ h = 0) /\ o # end - b
  <2>1. PICK e : e = HeadAt(stream, b + o)
    OBVIOUS
  <2>2. IsView(d, stream, b, end) /\ Preamble(stream, b + o) /\ e = HeadAt(stream, b + d.offset)
    BY <1>2, <1>5, <1>17, <2>1
  <2>3. /\ e.header_len = h
        /\ \A k \in Nat : o + k < end - b => Byte(d, k) = Byte(e, k) /\ Byte(d, k) \in 0 .. 255
    BY <1>3, <1>5, <1>6, <2>2, ViewLemma
  <2>4. Complete(stream, b + o, end) <=> b + o + h + 2 <= end /\ b + o + h + Byte(e, 1) + 2 <= end
    BY <1>8, <2>1, <2>3 DEF Complete, FrameEnd
  <2>5. CASE (end - b) - o < h + 2
    <3>1. ~(b + o + h + 2 <= end)
      BY <1>3, <1>8, <1>9, <2>5
    <3> QED BY <1>11, <1>15, <1>17, <2>2, <2>4, <2>5, <3>1
  <2>6. CASE ~((end - b) - o < h + 2)
    <3>1. o + 1 < end - b
      BY <1>3, <1>8, <1>9, <2>6
    <3>2. x = Byte(e, 1) /\ x \in 0 .. 255
      BY <1>10, <2>3, <3>1
    <3>3. x \in 0 .. 255
      BY <3>2
    <3>4. x \in Nat
      BY <3>3
    <3>5. CASE (end - b) - o < h + x + 2
      <4>1. ~(b + o + h + x + 2 <= end)
        BY <1>3, <1>8, <1>9, <3>4, <3>5
      <4> QED BY <1>11, <1>15, <1>17, <2>2, <2>4, <2>6, <3>2, <3>5, <4>1
    <3>6. CASE ~((end - b) - o < h + x + 2)
      <4>1. b + o + h + 2 <= end /\ b + o + h + x + 2 <= end
        BY <1>3, <1>8, <1>9, <2>6, <3>4, <3>6
      <4>2. Complete(stream, b + o, end)
        BY <2>4, <3>2, <4>1
      <4>3. /\ msgid(d) = msgid(e)
            /\ msgid(d) \in DOMAIN myfuncs => payload(d, myfuncs[msgid(d)]) = payload(e, myfuncs[msgid(e)])
        <5>1. o + h + x + trailer_len <= end - b /\ o + h + trailer_len <= end - b
          BY <1>3, <1>8, <1>9, <3>4, <4>1
        <5>2. /\ d.offset + d.header_len + Byte(d, 1) + trailer_len <= end - b
              /\ d.offset + d.header_len + trailer_len <= end - b
          BY <1>5, <1>6, <1>10, <5>1
        <5> QED BY <1>3, <2>2, <5>2, PayloadLemma
      <4>4. IdAt(stream, b + o) = msgid(d)
        BY <2>1, <4>3 DEF IdAt
      <4>5. b + o < end /\ o + 1 \in 0 .. end - b /\ b + (o + 1) = (b + o) + 1
        BY <1>3, <1>8, <3>1
      <4>6. CASE msgid(d) \notin DOMAIN myfuncs
        <5>1. d1 = [d EXCEPT !.offset = o + 1]
          BY <1>11, <1>17, <2>6, <3>6, <4>6
        <5>2. /\ d1.buffer = d.buffer /\ d1.offset = o + 1 /\ d1.header_len = h /\ d1.frames = d.frames
              /\ d1.desegment_offset = NotAsked /\ d1.done = FALSE /\ IsCall(d1)
          BY <1>2, <1>3, <1>6, <5>1 DEF IsCall
        <5>3. InCall(d1, stream, b, end)
          BY <1>3, <1>6, <4>5, <5>2 DEF InCall
        <5>4. Junk(stream, myfuncs, b + o, end)
          BY <4>2, <4>4, <4>6 DEF Junk
        <5> QED BY <1>2, <4>5, <5>2, <5>3, <5>4 DEF Passed
      <4>7. CASE msgid(d) \in DOMAIN myfuncs
        <5>1. PICK f : f = payload(d, myfuncs[msgid(d)])
          OBVIOUS
        <5>2. PICK n : n = o + (h + x + 2)
          OBVIOUS
        <5>3. d1 = [d EXCEPT !.offset = n, !.frames = Append(@, f)]
          BY <1>11, <1>17, <2>6, <3>6, <4>7, <5>1, <5>2
        <5>4. /\ d1.buffer = d.buffer /\ d1.offset = n /\ d1.header_len = h /\ d1.frames = Append(d.frames, f)
              /\ d1.desegment_offset = NotAsked /\ d1.done = FALSE /\ IsCall(d1)
          BY <1>2, <1>3, <1>6, <5>3 DEF IsCall
        <5>5. n \in 0 .. end - b /\ b + n = b + o + h + x + 2
          BY <1>3, <1>8, <1>9, <3>4, <4>1, <5>2
        <5>6. InCall(d1, stream, b, end)
          BY <1>3, <1>6, <5>4, <5>5 DEF InCall
        <5>7. FrameEnd(stream, b + o) = b + n
          BY <1>8, <2>1, <2>3, <3>2, <5>5 DEF FrameEnd
        <5>8. IsFrame(stream, myfuncs, f, b + o, end)
          BY <2>1, <2>2, <4>2, <4>3, <4>4, <4>7, <5>1 DEF IsFrame
        <5> QED BY <1>2, <5>4, <5>6, <5>7, <5>8 DEF Found
      <4> QED BY <4>6, <4>7
    <3> QED BY <3>5, <3>6
  <2> QED BY <2>5, <2>6
<1> QED BY <1>14, <1>16, <1>17

\* Every frame of a tiling ends at a position; the first begins after position 0.
IsTiling(stream, myfuncs, frames, starts, to, end) ==
  /\ stream \in Seq(Byte8) /\ end \in 0 .. Len(stream) /\ Len(frames) \in Nat /\ to \in Nat
  /\ Tiles(stream, myfuncs, frames, starts, to, end)

LEMMA EndsLemma ==
  ASSUME NEW stream, NEW myfuncs, NEW frames, NEW starts, NEW to, NEW end,
         IsTiling(stream, myfuncs, frames, starts, to, end)
  PROVE  \A k \in 0 .. Len(frames) : EndOf(stream, starts, k) \in Nat
<1> SUFFICES ASSUME NEW k \in 0 .. Len(frames) PROVE EndOf(stream, starts, k) \in Nat
  OBVIOUS
<1>1. CASE k = 0
  BY <1>1 DEF EndOf
<1>2. CASE k # 0
  <2>1. k \in 1 .. Len(frames)
    BY <1>2 DEF IsTiling
  <2>2. PICK p : p = starts[k] /\ p \in Nat /\ IsFrame(stream, myfuncs, frames[k], p, end)
    BY <2>1 DEF IsTiling, Tiles
  <2>3. stream \in Seq(Byte8) /\ end \in 0 .. Len(stream) /\ Complete(stream, p, end)
    BY <2>2 DEF IsTiling, IsFrame
  <2>4. FrameEnd(stream, p) \in Nat
    BY <2>2, <2>3, CompleteLemma
  <2> QED BY <1>2, <2>2, <2>4 DEF EndOf
<1> QED BY <1>1, <1>2

\* What was junk or a frame stays so when more bytes arrive.
LEMMA GrowLemma ==
  ASSUME NEW stream, NEW myfuncs, NEW frames, NEW starts, NEW to, NEW end,
         IsTiling(stream, myfuncs, frames, starts, to, end), NEW later \in end .. Len(stream)
  PROVE  IsTiling(stream, myfuncs, frames, starts, to, later)
<1>1. stream \in Seq(Byte8) /\ end \in 0 .. Len(stream) /\ Len(frames) \in Nat /\ to \in Nat /\ later \in 0 .. Len(stream)
  BY DEF IsTiling
<1>2. \A p \in Nat : Complete(stream, p, end) => Complete(stream, p, later)
  BY <1>1, CompleteLemma
<1>3. ASSUME NEW from \in Nat, NEW until, AllJunk(stream, myfuncs, from, until, end)
      PROVE  AllJunk(stream, myfuncs, from, until, later)
  <2>1. ASSUME NEW p \in from .. until - 1 PROVE Junk(stream, myfuncs, p, later)
    <3>1. p \in Nat
      OBVIOUS
    <3>2. Junk(stream, myfuncs, p, end)
      BY <1>3 DEF AllJunk
    <3> QED BY <1>2, <3>1, <3>2 DEF Junk
  <2> QED BY <2>1 DEF AllJunk
<1>4. \A k \in 0 .. Len(frames) : EndOf(stream, starts, k) \in Nat
  BY EndsLemma
<1>5. ASSUME NEW k \in 1 .. Len(frames)
      PROVE  /\ starts[k] \in Nat /\ EndOf(stream, starts, k - 1) <= starts[k]
             /\ AllJunk(stream, myfuncs, EndOf(stream, starts, k - 1), starts[k], later)
             /\ IsFrame(stream, myfuncs, frames[k], starts[k], later)
  <2>1. /\ starts[k] \in Nat /\ EndOf(stream, starts, k - 1) <= starts[k]
        /\ AllJunk(stream, myfuncs, EndOf(stream, starts, k - 1), starts[k], end)
        /\ IsFrame(stream, myfuncs, frames[k], starts[k], end)
    BY DEF IsTiling, Tiles
  <2>2. k - 1 \in 0 .. Len(frames)
    BY <1>1
  <2>3. PICK from : from = EndOf(stream, starts, k - 1) /\ from \in Nat
    BY <1>4, <2>2
  <2>4. AllJunk(stream, myfuncs, EndOf(stream, starts, k - 1), starts[k], later)
    BY <1>3, <2>1, <2>3
  <2>5. IsFrame(stream, myfuncs, frames[k], starts[k], later)
    BY <1>2, <2>1 DEF IsFrame
  <2> QED BY <2>1, <2>4, <2>5
<1>6. /\ EndOf(stream, starts, Len(frames)) <= to
      /\ AllJunk(stream, myfuncs, EndOf(stream, starts, Len(frames)), to, end)
  BY DEF IsTiling, Tiles
<1>7. EndOf(stream, starts, Len(frames)) \in Nat
  <2>1. Len(frames) \in 0 .. Len(frames)
    BY <1>1
  <2> QED BY <1>4, <2>1
<1>8. AllJunk(stream, myfuncs, EndOf(stream, starts, Len(frames)), to, later)
  BY <1>3, <1>6, <1>7
<1>9. Tiles(stream, myfuncs, frames, starts, to, later)
  BY <1>5, <1>6, <1>8 DEF Tiles
<1> QED BY <1>1, <1>9 DEF IsTiling

\* Junk behind a tiling belongs to it.
LEMMA JunkLemma ==
  ASSUME NEW stream, NEW myfuncs, NEW frames, NEW starts, NEW to, NEW end,
         IsTiling(stream, myfuncs, frames, starts, to, end),
         NEW next \in Nat, to <= next, AllJunk(stream, myfuncs, to, next, end)
  PROVE  IsTiling(stream, myfuncs, frames, starts, next, end)
<1>1. stream \in Seq(Byte8) /\ end \in 0 .. Len(stream) /\ Len(frames) \in Nat /\ to \in Nat
  BY DEF IsTiling
<1>2. PICK from : from = EndOf(stream, starts, Len(frames)) /\ from \in Nat
  <2>1. Len(frames) \in 0 .. Len(frames)
    BY <1>1
  <2> QED BY <2>1, EndsLemma
<1>3. from <= to /\ AllJunk(stream, myfuncs, from, to, end)
  BY <1>2 DEF IsTiling, Tiles
<1>4. ASSUME NEW p \in from .. next - 1 PROVE Junk(stream, myfuncs, p, end)
  <2>1. p \in from .. to - 1 \/ p \in to .. next - 1
    BY <1>1, <1>2, <1>3
  <2> QED BY <1>3, <2>1 DEF AllJunk
<1>5. from <= next /\ AllJunk(stream, myfuncs, from, next, end)
  BY <1>1, <1>2, <1>3, <1>4 DEF AllJunk
<1>6. Tiles(stream, myfuncs, frames, starts, next, end)
  BY <1>2, <1>5 DEF IsTiling, Tiles
<1> QED BY <1>1, <1>6 DEF IsTiling

\* A frame behind a tiling is the next of it.
LEMMA FrameLemma ==
  ASSUME NEW T, NEW stream, NEW myfuncs, NEW frames \in Seq(T), NEW starts, NEW to, NEW end,
         IsTiling(stream, myfuncs, frames, starts, to, end),
         NEW f \in T, IsFrame(stream, myfuncs, f, to, end)
  PROVE  \E then : IsTiling(stream, myfuncs, Append(frames, f), then, FrameEnd(stream, to), end)
<1>1. stream \in Seq(Byte8) /\ end \in 0 .. Len(stream) /\ to \in Nat
  BY DEF IsTiling
<1>2. PICK n : n = Len(frames) /\ n \in Nat
  BY DEF IsTiling
<1>3. PICK all : all = Append(frames, f)
  OBVIOUS
<1>4. Len(all) = n + 1 /\ (\A k \in 1 .. n : all[k] = frames[k]) /\ all[n + 1] = f
  BY <1>2, <1>3, AppendProperties
<1>5. PICK then : then = [k \in 1 .. n + 1 |-> IF k = n + 1 THEN to ELSE starts[k]]
  OBVIOUS
<1>6. then[n + 1] = to /\ \A k \in 1 .. n : then[k] = starts[k]
  BY <1>2, <1>5
<1>7. \A k \in 0 .. n : EndOf(stream, then, k) = EndOf(stream, starts, k)
  BY <1>2, <1>6 DEF EndOf
<1>8. FrameEnd(stream, to) \in Nat
  BY <1>1, CompleteLemma DEF IsFrame
<1>9. ASSUME NEW k \in 1 .. n + 1
      PROVE  /\ then[k] \in Nat /\ EndOf(stream, then, k - 1) <= then[k]
             /\ AllJunk(stream, myfuncs, EndOf(stream, then, k - 1), then[k], end)
             /\ IsFrame(stream, myfuncs, all[k], then[k], end)
  <2>1. k - 1 \in 0 .. n
    BY <1>2
  <2>2. CASE k = n + 1
    <3>1. k - 1 = n
      BY <1>2, <2>2
    <3>2. EndOf(stream, starts, n) <= to /\ AllJunk(stream, myfuncs, EndOf(stream, starts, n), to, end)
      BY <1>2 DEF IsTiling, Tiles
    <3>3. EndOf(stream, then, n) = EndOf(stream, starts, n)
      BY <1>7, <2>1, <3>1
    <3> QED BY <1>1, <1>4, <1>6, <2>2, <3>1, <3>2, <3>3
  <2>3. CASE k # n + 1
    <3>1. k \in 1 .. n
      BY <1>2, <2>3
    <3>2. /\ starts[k] \in Nat /\ EndOf(stream, starts, k - 1) <= starts[k]
          /\ AllJunk(stream, myfuncs, EndOf(stream, starts, k - 1), starts[k], end)
          /\ IsFrame(stream, myfuncs, frames[k], starts[k], end)
      BY <1>2, <3>1 DEF IsTiling, Tiles
    <3>3. EndOf(stream, then, k - 1) = EndOf(stream, starts, k - 1)
      BY <1>7, <2>1
    <3> QED BY <1>4, <1>6, <3>1, <3>2, <3>3
  <2> QED BY <2>2, <2>3
<1>10. EndOf(stream, then, n + 1) = FrameEnd(stream, to)
  BY <1>2, <1>6 DEF EndOf
<1>11. PICK next : next = FrameEnd(stream, to) /\ next \in Nat
  BY <1>8
<1>12. next <= next /\ AllJunk(stream, myfuncs, next, next, end)
  BY <1>11 DEF AllJunk
<1>13. Tiles(stream, myfuncs, all, then, next, end)
  BY <1>4, <1>9, <1>10, <1>11, <1>12 DEF Tiles
<1>14. IsTiling(stream, myfuncs, all, then, next, end)
  BY <1>1, <1>2, <1>4, <1>11, <1>13 DEF IsTiling
<1> QED BY <1>3, <1>11, <1>14

\* The frames of all calls up to now tile the stream up to the position at
\* which the call is.
FrameSet(stream, myfuncs) == {payload(HeadAt(stream, p), myfuncs[IdAt(stream, p)]) : p \in Nat}
Found_so_far == IF call.done THEN shown ELSE shown \o call.frames
Tiled(stream, myfuncs, b) ==
  /\ InCall(call, stream, b, pos)
  /\ \E starts : IsTiling(stream, myfuncs, Found_so_far, starts, b + call.offset, pos)
  /\ call.done => Leaves(call, stream, b + call.offset, pos)
TileInv(stream, myfuncs) ==
  /\ shown \in Seq(FrameSet(stream, myfuncs)) /\ call.frames \in Seq(FrameSet(stream, myfuncs))
  /\ call.done \in BOOLEAN /\ (call.done = FALSE => call.desegment_offset = NotAsked)
  /\ \E b : Tiled(stream, myfuncs, b)

\* What a call begins with.
LEMMA CallLemma ==
  ASSUME NEW buffer, NEW d, d = Call(buffer)
  PROVE  /\ IsCall(d) /\ d.buffer = buffer /\ d.offset = 0 /\ d.header_len = 0
         /\ d.desegment_offset = NotAsked /\ d.frames = <<>> /\ d.done = FALSE
BY DEF Call, IsCall

LEMMA NothingLemma ==
  ASSUME NEW stream \in Seq(Byte8), NEW myfuncs, NothingCaptured
  PROVE  TileInv(stream, myfuncs)
<1>1. /\ IsCall(call) /\ call.buffer = <<>> /\ call.offset = 0 /\ call.header_len = 0
      /\ call.desegment_offset = NotAsked /\ call.frames = <<>> /\ call.done = TRUE
  BY DEF NothingCaptured, Call, IsCall
<1>2. shown = <<>> /\ pos = 0
  BY DEF NothingCaptured
<1>3. Len(stream) \in Nat
  OBVIOUS
<1>4. SubSeq(stream, 0 + 1, 0) = <<>>
  BY SubSeqEmpty
<1>5. InCall(call, stream, 0, pos)
  <2>1. 0 \in 0 .. Len(stream) /\ 0 \in 0 .. 0 /\ 0 \in 0 .. 0 - 0
    BY <1>3
  <2> QED BY <1>1, <1>2, <1>4, <2>1 DEF InCall
<1>6. Found_so_far = <<>>
  BY <1>1, <1>2 DEF Found_so_far
<1>7. IsTiling(stream, myfuncs, <<>>, <<>>, 0, 0)
  <2>1. Len(<<>>) = 0 /\ 0 \in 0 .. Len(stream)
    BY <1>3
  <2>2. EndOf(stream, <<>>, 0) = 0 /\ AllJunk(stream, myfuncs, 0, 0, 0)
    BY DEF EndOf, AllJunk
  <2>3. Tiles(stream, myfuncs, <<>>, <<>>, 0, 0)
    BY <2>1, <2>2 DEF Tiles
  <2> QED BY <2>1, <2>3 DEF IsTiling
<1>8. 0 + call.offset = 0
  BY <1>1
<1>9. Leaves(call, stream, 0, 0)
  BY <1>1, <1>4 DEF Leaves, kept
<1>10. Tiled(stream, myfuncs, 0)
  BY <1>2, <1>5, <1>6, <1>7, <1>8, <1>9 DEF Tiled
<1>11. <<>> \in Seq(FrameSet(stream, myfuncs))
  OBVIOUS
<1> QED BY <1>1, <1>2, <1>10, <1>11 DEF TileInv

\* A segment continues what was kept.
LEMMA CaptureLemma ==
  ASSUME NEW stream \in Seq(Byte8), NEW myfuncs, TileInv(stream, myfuncs), CaptureSegment(stream)
  PROVE  TileInv(stream, myfuncs)'
<1>1. call.done = TRUE /\ shown' = shown
  BY DEF CaptureSegment, TileInv
<1>2. PICK b : Tiled(stream, myfuncs, b)
  BY DEF TileInv
<1>3. PICK starts : IsTiling(stream, myfuncs, shown, starts, b + call.offset, pos)
  BY <1>1, <1>2 DEF Tiled, Found_so_far
<1>4. PICK p : p = b + call.offset /\ p \in 0 .. pos
  BY <1>2 DEF Tiled, InCall
<1>5. pos \in 0 .. Len(stream)
  BY <1>2 DEF Tiled, InCall
<1>6. PICK end \in pos + 1 .. Len(stream) : call' = Call(kept(call) \o SubSeq(stream, pos + 1, end)) /\ pos' = end
  BY DEF CaptureSegment
<1>7. p \in Nat /\ pos \in Nat /\ end \in Nat /\ end \in 0 .. Len(stream) /\ p \in 0 .. end /\ end \in pos .. Len(stream)
  BY <1>4, <1>5, <1>6
<1>8. kept(call) \o SubSeq(stream, pos + 1, end) = SubSeq(stream, p + 1, end)
  <2>1. kept(call) = SubSeq(stream, p + 1, pos)
    BY <1>1, <1>2, <1>4 DEF Tiled, Leaves
  <2>2. p + 1 \in 1 .. Len(stream) + 1 /\ pos \in (p + 1) - 1 .. Len(stream)
    BY <1>4, <1>5, <1>7
  <2> QED BY <1>7, <2>1, <2>2, ConcatAdjacentSubSeq
<1>9. /\ IsCall(call') /\ call'.buffer = SubSeq(stream, p + 1, end) /\ call'.offset = 0 /\ call'.header_len = 0
      /\ call'.desegment_offset = NotAsked /\ call'.frames = <<>> /\ call'.done = FALSE
  BY <1>6, <1>8, CallLemma
<1>10. InCall(call', stream, p, end)
  <2>1. 0 \in 0 .. end - p
    BY <1>7
  <2> QED BY <1>7, <1>9, <2>1 DEF InCall
<1>11. shown \o <<>> = shown
  BY ConcatEmptySeq DEF TileInv
<1>12. Found_so_far' = shown
  BY <1>1, <1>9, <1>11 DEF Found_so_far
<1>13. IsTiling(stream, myfuncs, shown, starts, p, end)
  <2>1. IsTiling(stream, myfuncs, shown, starts, p, pos)
    BY <1>3, <1>4
  <2> QED BY <1>7, <2>1, GrowLemma
<1>14. p + call'.offset = p
  BY <1>7, <1>9
<1>15. Tiled(stream, myfuncs, p)'
  BY <1>6, <1>9, <1>10, <1>12, <1>13, <1>14 DEF Tiled
<1>16. <<>> \in Seq(FrameSet(stream, myfuncs))
  OBVIOUS
<1> QED BY <1>1, <1>9, <1>15, <1>16 DEF TileInv

\* A turn of the outer loop keeps the tiling.
LEMMA DissectLemma ==
  ASSUME NEW stream \in Seq(Byte8), NEW myfuncs, IsTable(myfuncs), TileInv(stream, myfuncs), DissectBuffer(myfuncs)
  PROVE  TileInv(stream, myfuncs)'
<1>1. call.done = FALSE /\ call.desegment_offset = NotAsked /\ pos' = pos /\ call' = turn(call, myfuncs)
  BY DEF DissectBuffer, TileInv
<1>2. PICK T : T = FrameSet(stream, myfuncs) /\ shown \in Seq(T) /\ call.frames \in Seq(T)
  BY DEF TileInv
<1>3. PICK all : all = shown \o call.frames /\ all \in Seq(T)
  BY <1>2, ConcatProperties
<1>4. PICK b : Tiled(stream, myfuncs, b)
  BY DEF TileInv
<1>5. InCall(call, stream, b, pos)
  BY <1>4 DEF Tiled
<1>6. PICK from : from = b + call.offset /\ from \in Nat
  BY <1>5 DEF InCall
<1>7. PICK starts : IsTiling(stream, myfuncs, all, starts, from, pos)
  BY <1>1, <1>3, <1>4, <1>6 DEF Tiled, Found_so_far
<1>8. PICK d : d = call'
  OBVIOUS
<1>9. /\ InCall(d, stream, b, pos)
      /\ \E p \in b + call.offset .. pos :
            /\ AllJunk(stream, myfuncs, b + call.offset, p, pos)
            /\ \/ Stopped(call, d, stream, b, p, pos)
               \/ Passed(call, d, stream, myfuncs, b, p, pos)
               \/ Found(call, d, stream, myfuncs, b, p, pos)
  BY <1>1, <1>5, <1>8, TurnLemma
<1>10. PICK p \in from .. pos :
            /\ AllJunk(stream, myfuncs, from, p, pos)
            /\ \/ Stopped(call, d, stream, b, p, pos)
               \/ Passed(call, d, stream, myfuncs, b, p, pos)
               \/ Found(call, d, stream, myfuncs, b, p, pos)
  BY <1>6, <1>9
<1>11. pos \in Nat /\ p \in Nat /\ from <= p
  BY <1>5, <1>6, <1>10 DEF InCall
<1>12. IsTiling(stream, myfuncs, all, starts, p, pos)
  BY <1>7, <1>10, <1>11, JunkLemma
<1>13. shown' = IF d.done THEN shown \o d.frames ELSE shown
  BY <1>8 DEF DissectBuffer
<1>14. CASE Stopped(call, d, stream, b, p, pos)
  <2>1. d.done = TRUE /\ b + d.offset = p /\ d.frames = call.frames /\ Leaves(d, stream, p, pos)
    BY <1>14 DEF Stopped
  <2>2. shown' = all /\ Found_so_far' = all
    BY <1>3, <1>8, <1>13, <2>1 DEF Found_so_far
  <2>3. Tiled(stream, myfuncs, b)'
    BY <1>1, <1>8, <1>9, <1>12, <2>1, <2>2 DEF Tiled
  <2> QED BY <1>2, <1>3, <1>8, <2>1, <2>2, <2>3 DEF TileInv
<1>15. CASE Passed(call, d, stream, myfuncs, b, p, pos)
  <2>1. /\ d.done = FALSE /\ d.desegment_offset = NotAsked /\ b + d.offset = p + 1 /\ d.frames = call.frames
        /\ p < pos /\ Junk(stream, myfuncs, p, pos)
    BY <1>15 DEF Passed
  <2>2. shown' = shown /\ Found_so_far' = all
    BY <1>3, <1>8, <1>13, <2>1 DEF Found_so_far
  <2>3. AllJunk(stream, myfuncs, p, p + 1, pos)
    <3>1. \A q \in p .. (p + 1) - 1 : q = p
      BY <1>11
    <3> QED BY <2>1, <3>1 DEF AllJunk
  <2>4. p + 1 \in Nat /\ p <= p + 1
    BY <1>11
  <2>5. IsTiling(stream, myfuncs, all, starts, p + 1, pos)
    BY <1>12, <2>3, <2>4, JunkLemma
  <2>6. Tiled(stream, myfuncs, b)'
    BY <1>1, <1>8, <1>9, <2>1, <2>2, <2>5 DEF Tiled
  <2> QED BY <1>2, <1>8, <2>1, <2>2, <2>6 DEF TileInv
<1>16. CASE Found(call, d, stream, myfuncs, b, p, pos)
  <2>1. d.done = FALSE /\ d.desegment_offset = NotAsked /\ b + d.offset = FrameEnd(stream, p)
    BY <1>16 DEF Found
  <2>2. PICK f : IsFrame(stream, myfuncs, f, p, pos) /\ d.frames = Append(call.frames, f)
    BY <1>16 DEF Found
  <2>3. f \in T
    BY <1>2, <1>11, <2>2 DEF FrameSet, IsFrame
  <2>4. d.frames \in Seq(T) /\ d.frames = call.frames \o <<f>> /\ <<f>> \in Seq(T)
    BY <1>2, <2>2, <2>3, AppendProperties, AppendIsConcat
  <2>5. shown \o d.frames = Append(all, f)
    <3>1. shown \o (call.frames \o <<f>>) = (shown \o call.frames) \o <<f>>
      <4>1. PICK x, y, z : x = shown /\ y = call.frames /\ z = <<f>>
        OBVIOUS
      <4>2. x \in Seq(T) /\ y \in Seq(T) /\ z \in Seq(T)
        BY <1>2, <2>4, <4>1
      <4>3. (x \o y) \o z = x \o (y \o z)
        BY <4>2, ConcatAssociative
      <4> QED BY <4>1, <4>3
    <3>2. Append(all, f) = all \o <<f>>
      BY <1>3, <2>3, AppendIsConcat
    <3> QED BY <1>3, <2>4, <3>1, <3>2
  <2>6. shown' = shown /\ Found_so_far' = Append(all, f)
    BY <1>8, <1>13, <2>1, <2>5 DEF Found_so_far
  <2>7. PICK then : IsTiling(stream, myfuncs, Append(all, f), then, FrameEnd(stream, p), pos)
    <3>1. all \in Seq(T)
      BY <1>3
    <3>2. IsFrame(stream, myfuncs, f, p, pos)
      BY <2>2
    <3> QED BY <1>12, <2>3, <3>1, <3>2, FrameLemma
  <2>8. Tiled(stream, myfuncs, b)'
    BY <1>1, <1>8, <1>9, <2>1, <2>6, <2>7 DEF Tiled
  <2> QED BY <1>2, <1>8, <2>1, <2>4, <2>6, <2>8 DEF TileInv
<1> QED BY <1>10, <1>14, <1>15, <1>16

\* Between calls the invariant says what is shown and what is kept.
LEMMA BetweenLemma ==
  ASSUME NEW stream \in Seq(Byte8), NEW myfuncs, TileInv(stream, myfuncs)
  PROVE  StreamTiled(stream, myfuncs)
<1> SUFFICES ASSUME call.done = TRUE
             PROVE  \E starts : \E to \in 0 .. pos :
                       /\ Tiles(stream, myfuncs, shown, starts, to, pos)
                       /\ to = pos \/ (Preamble(stream, to) /\ ~Complete(stream, to, pos))
                       /\ kept(call) = SubSeq(stream, to + 1, pos)
  BY DEF StreamTiled, TileInv
<1>1. PICK b : Tiled(stream, myfuncs, b)
  BY DEF TileInv
<1>2. PICK to : to = b + call.offset /\ to \in 0 .. pos
  BY <1>1 DEF Tiled, InCall
<1>3. PICK starts : Tiles(stream, myfuncs, shown, starts, to, pos)
  BY <1>1, <1>2 DEF Tiled, Found_so_far, IsTiling
<1>4. Leaves(call, stream, to, pos)
  BY <1>1, <1>2 DEF Tiled
<1> QED BY <1>2, <1>3, <1>4 DEF Leaves

LEMMA StepLemma ==
  ASSUME NEW stream \in Seq(Byte8), NEW myfuncs, IsTable(myfuncs), TileInv(stream, myfuncs),
         [StreamNext(stream, myfuncs)]_<<call, shown, pos>>
  PROVE  TileInv(stream, myfuncs)'
<1>1. CASE CaptureSegment(stream)
  BY <1>1, CaptureLemma
<1>2. CASE DissectBuffer(myfuncs)
  BY <1>2, DissectLemma
<1>3. CASE UNCHANGED <<call, shown, pos>>
  BY <1>3 DEF TileInv, Tiled, Found_so_far
<1> QED BY <1>1, <1>2, <1>3 DEF StreamNext

\* For every stream of bytes, every way to cut it into segments and every table
\* of messages with fields at offsets, the generated dissector shows, between
\* its calls, exactly the frames of the captured bytes, one behind the other
\* with junk only between them and each with the payload the stream has there;
\* it keeps the rest, which begins with an incomplete frame, and nothing else.
THEOREM StreamIsTiled ==
  ASSUME NEW CONSTANT stream \in Seq(Byte8), NEW CONSTANT myfuncs, IsTable(myfuncs)
  PROVE  StreamSpec(stream, myfuncs) => []StreamTiled(stream, myfuncs)
<1>1. NothingCaptured => TileInv(stream, myfuncs)
  BY NothingLemma
<1>2. TileInv(stream, myfuncs) /\ [StreamNext(stream, myfuncs)]_<<call, shown, pos>> => TileInv(stream, myfuncs)'
  BY StepLemma
<1>3. TileInv(stream, myfuncs) => StreamTiled(stream, myfuncs)
  BY BetweenLemma
<1> QED BY <1>1, <1>2, <1>3, PTL DEF StreamSpec

-----------------------------------------------------------------------------
(* The values of enumerations.                                               *)

EntrySet(N) == [name : N, has : BOOLEAN, value : Int]
Valued(entries, k) == {j \in 1 .. k : entries[j].has}
ValueAt(entries, k) ==
  IF Valued(entries, k) = {} THEN k - 1
  ELSE entries[Max(Valued(entries, k))].value + k - Max(Valued(entries, k))
\* The count before the next entry.
CountAt(entries, k) == IF k = 0 THEN 0 ELSE ValueAt(entries, k) + 1

LEMMA MaxLemma ==
  ASSUME NEW S, NEW len \in Nat, S \subseteq 1 .. len, S # {}
  PROVE  Max(S) \in S /\ \A y \in S : Max(S) >= y
<1>1. S \subseteq 0 .. len
  OBVIOUS
<1>2. \E x \in S : \A y \in S : x >= y
  BY <1>1, PyFold!Extremes
<1> QED BY <1>2 DEF Max

\* An entry has its own value or the count.
LEMMA ValueLemma ==
  ASSUME NEW N, NEW entries \in Seq(EntrySet(N)), NEW k \in 1 .. Len(entries)
  PROVE  /\ ValueAt(entries, k) \in Int
         /\ ValueAt(entries, k) = IF entries[k].has THEN entries[k].value ELSE CountAt(entries, k - 1)
<1>1. Len(entries) \in Nat /\ k \in Nat /\ k >= 1
  OBVIOUS
<1>2. \A j \in 1 .. Len(entries) : entries[j].has \in BOOLEAN /\ entries[j].value \in Int
  <2>1. \A j \in 1 .. Len(entries) : entries[j] \in EntrySet(N)
    OBVIOUS
  <2>2. \A e \in EntrySet(N) : e.has \in BOOLEAN /\ e.value \in Int
    BY DEF EntrySet
  <2> QED BY <2>1, <2>2
<1>3. ASSUME NEW n \in 0 .. Len(entries), Valued(entries, n) # {}
      PROVE  \E m \in 1 .. n : /\ m = Max(Valued(entries, n)) /\ entries[m].has
                               /\ \A j \in 1 .. n : entries[j].has => j <= m
  <2>1. PICK S : S = Valued(entries, n)
    OBVIOUS
  <2>2. S \subseteq 1 .. n /\ S # {} /\ n \in Nat
    BY <1>3, <2>1 DEF Valued
  <2>3. Max(S) \in S /\ \A y \in S : Max(S) >= y
    BY <2>2, MaxLemma
  <2>4. PICK m : m = Max(S)
    OBVIOUS
  <2>5. m \in 1 .. n /\ entries[m].has
    BY <2>1, <2>3, <2>4 DEF Valued
  <2>6. ASSUME NEW j \in 1 .. n, entries[j].has PROVE j <= m
    <3>1. j \in S
      BY <2>1, <2>6 DEF Valued
    <3>2. m >= j
      BY <2>3, <2>4, <3>1
    <3> QED BY <2>5, <3>2
  <2> QED BY <2>1, <2>4, <2>5, <2>6
<1>4. CASE entries[k].has
  <2>1. k \in Valued(entries, k)
    BY <1>1, <1>4 DEF Valued
  <2>2. PICK m \in 1 .. k : /\ m = Max(Valued(entries, k)) /\ \A j \in 1 .. k : entries[j].has => j <= m
    BY <1>1, <1>3, <2>1
  <2>3. m = k
    BY <1>1, <1>4, <2>2
  <2>4. ValueAt(entries, k) = entries[k].value + (k - k)
    BY <2>1, <2>2, <2>3 DEF ValueAt
  <2> QED BY <1>1, <1>2, <1>4, <2>4
<1>5. CASE ~entries[k].has
  <2>1. Valued(entries, k) = Valued(entries, k - 1)
    <3>1. \A j : j \in 1 .. k <=> j \in 1 .. k - 1 \/ j = k
      BY <1>1
    <3> QED BY <1>5, <3>1 DEF Valued
  <2>2. CASE Valued(entries, k) = {}
    <3>1. ValueAt(entries, k) = k - 1
      BY <2>2 DEF ValueAt
    <3>2. k # 1 => ValueAt(entries, k - 1) = (k - 1) - 1
      BY <2>1, <2>2 DEF ValueAt
    <3> QED BY <1>1, <1>5, <3>1, <3>2 DEF CountAt
  <2>3. CASE Valued(entries, k) # {}
    <3>1. PICK m \in 1 .. k - 1 : m = Max(Valued(entries, k - 1))
      <4>1. k - 1 \in 0 .. Len(entries)
        BY <1>1
      <4> QED BY <1>3, <2>1, <2>3, <4>1
    <3>2. k # 1 /\ entries[m].value \in Int /\ m \in Int
      BY <1>1, <1>2, <3>1
    <3>3. ValueAt(entries, k) = entries[m].value + (k - m)
      BY <2>1, <2>3, <3>1 DEF ValueAt
    <3>4. ValueAt(entries, k - 1) = entries[m].value + ((k - 1) - m)
      BY <2>1, <2>3, <3>1 DEF ValueAt
    <3>5. CountAt(entries, k - 1) = ValueAt(entries, k - 1) + 1
      BY <1>1, <3>2 DEF CountAt
    <3> QED BY <1>1, <1>5, <3>2, <3>3, <3>4, <3>5
  <2> QED BY <2>2, <2>3
<1> QED BY <1>4, <1>5

LEMMA PairsLemma ==
  ASSUME NEW entries
  PROVE  CppPairs(entries) = [k \in DOMAIN entries |-> <<entries[k].name, ValueAt(entries, k)>>]
BY DEF CppPairs, ValueAt, Valued

\* GeneratePyEnum and the Lua generator are runs over the entries.
LEMMA PyRun ==
  ASSUME NEW a, NEW s, NEW len \in Nat, DOMAIN s = 1 .. len
  PROVE  \E g : PyFold!IsRun(g, 0, a, s, len) /\ FoldLeft(PyEntry, a, s) = g[len]
<1> DEFINE F(f) == f = [S \in SUBSET DOMAIN s |->
                          IF S = {} THEN a ELSE PyEntry(f[S \ {Max(S)}], s[Max(S)])]
<1>1. \A S : Max(S) = PyFold!Greatest(S)
  BY DEF Max, PyFold!Greatest
<1>2. \A f : F(f) <=> PyFold!IsFold(f, 0, a, s, len)
  BY <1>1 DEF PyFold!IsFold, PyStep
<1>3. \E f : F(f)
  BY <1>2, PyFold!FoldExists
<1>4. PICK f : F(f) /\ FoldLeft(PyEntry, a, s) = f[DOMAIN s]
  BY <1>3 DEF FoldLeft, MapThenFoldSet
<1>5. PyFold!IsFold(f, 0, a, s, len) /\ FoldLeft(PyEntry, a, s) = f[1 .. len]
  BY <1>2, <1>4
<1> HIDE DEF F
<1>6. PICK g : PyFold!IsRun(g, 0, a, s, len) /\ g[len] = f[1 .. len]
  BY <1>5, PyFold!FoldRuns
<1> QED BY <1>5, <1>6

LEMMA LuaRun ==
  ASSUME NEW a, NEW s, NEW len \in Nat, DOMAIN s = 1 .. len
  PROVE  \E g : LuaFold!IsRun(g, 0, a, s, len) /\ FoldLeft(LuaEntry, a, s) = g[len]
<1> DEFINE F(f) == f = [S \in SUBSET DOMAIN s |->
                          IF S = {} THEN a ELSE LuaEntry(f[S \ {Max(S)}], s[Max(S)])]
<1>1. \A S : Max(S) = LuaFold!Greatest(S)
  BY DEF Max, LuaFold!Greatest
<1>2. \A f : F(f) <=> LuaFold!IsFold(f, 0, a, s, len)
  BY <1>1 DEF LuaFold!IsFold, LuaStep
<1>3. \E f : F(f)
  BY <1>2, LuaFold!FoldExists
<1>4. PICK f : F(f) /\ FoldLeft(LuaEntry, a, s) = f[DOMAIN s]
  BY <1>3 DEF FoldLeft, MapThenFoldSet
<1>5. LuaFold!IsFold(f, 0, a, s, len) /\ FoldLeft(LuaEntry, a, s) = f[1 .. len]
  BY <1>2, <1>4
<1> HIDE DEF F
<1>6. PICK g : LuaFold!IsRun(g, 0, a, s, len) /\ g[len] = f[1 .. len]
  BY <1>5, LuaFold!FoldRuns
<1> QED BY <1>5, <1>6

\* After k entries the class has those, and the count is that of the next.
PySoFar(entries, k, a) ==
  /\ a.cur = CountAt(entries, k)
  /\ a.class = [j \in 1 .. k |-> <<entries[j].name, ValueAt(entries, j)>>]

LEMMA PyEntryLemma ==
  ASSUME NEW N, NEW entries \in Seq(EntrySet(N)), NEW k \in 1 .. Len(entries),
         NEW a, PySoFar(entries, k - 1, a)
  PROVE  PySoFar(entries, k, PyEntry(a, entries[k]))
<1>1. PICK e : e = entries[k]
  OBVIOUS
<1>2. PICK val : val = IF e.has THEN e.value ELSE a.cur
  OBVIOUS
<1>3. val = ValueAt(entries, k)
  BY <1>1, <1>2, ValueLemma DEF PySoFar
<1>4. PICK b : b = PyEntry(a, e)
  OBVIOUS
<1>5. b.class = Append(a.class, <<e.name, val>>) /\ b.cur = val + 1
  BY <1>2, <1>4 DEF PyEntry
<1>6. b.cur = CountAt(entries, k)
  BY <1>3, <1>5 DEF CountAt
<1>7. PICK n : n = k - 1 /\ n \in Nat /\ k = n + 1
  OBVIOUS
<1>8. PICK T : T = {<<entries[j].name, ValueAt(entries, j)>> : j \in Nat}
  OBVIOUS
<1>9. PICK F : F = [j \in 1 .. n |-> <<entries[j].name, ValueAt(entries, j)>>] /\ F = a.class
  BY <1>7 DEF PySoFar
<1>10. F \in Seq(T) /\ Len(F) = n
  <2>1. F \in [1 .. n -> T]
    BY <1>7, <1>8, <1>9
  <2>2. F \in Seq(T)
    BY <1>7, <2>1, SeqDef
  <2>3. Len(F) = n
    BY <1>7, <2>1, <2>2, LenProperties
  <2> QED BY <2>2, <2>3
<1>11. PICK v : v = <<e.name, val>> /\ v \in T
  <2>1. k \in Nat
    OBVIOUS
  <2> QED BY <1>1, <1>3, <1>8, <2>1
<1>12. PICK G : G = Append(F, v)
  OBVIOUS
<1>13. G \in Seq(T) /\ Len(G) = n + 1 /\ (\A i \in 1 .. n : G[i] = F[i]) /\ G[n + 1] = v
  BY <1>10, <1>11, <1>12, AppendProperties
<1>14. DOMAIN G = 1 .. k
  BY <1>7, <1>13, LenProperties
<1>15. ASSUME NEW j \in 1 .. k PROVE G[j] = <<entries[j].name, ValueAt(entries, j)>>
  <2>1. CASE j = k
    BY <1>1, <1>3, <1>7, <1>11, <1>13, <2>1
  <2>2. CASE j # k
    <3>1. j \in 1 .. n
      BY <1>7, <2>2
    <3> QED BY <1>9, <1>13, <3>1
  <2> QED BY <2>1, <2>2
<1>16. G = [j \in 1 .. k |-> <<entries[j].name, ValueAt(entries, j)>>]
  <2>1. G = [j \in 1 .. k |-> G[j]]
    BY <1>13, <1>14
  <2> QED BY <1>15, <2>1
<1>17. b.class = G
  BY <1>5, <1>9, <1>11, <1>12
<1> QED BY <1>1, <1>4, <1>6, <1>16, <1>17 DEF PySoFar

\* After k entries the table has their values, each with the name of one of them.
LuaSoFar(entries, k, a) ==
  /\ a.val = CountAt(entries, k)
  /\ DOMAIN a.table = {ValueAt(entries, j) : j \in 1 .. k}
  /\ \A v \in DOMAIN a.table : \E j \in 1 .. k : v = ValueAt(entries, j) /\ a.table[v] = entries[j].name

LEMMA LuaEntryLemma ==
  ASSUME NEW N, NEW entries \in Seq(EntrySet(N)), NEW k \in 1 .. Len(entries),
         NEW a, LuaSoFar(entries, k - 1, a)
  PROVE  LuaSoFar(entries, k, LuaEntry(a, entries[k]))
<1>1. PICK e : e = entries[k]
  OBVIOUS
<1>2. PICK val : val = IF e.has THEN e.value ELSE a.val
  OBVIOUS
<1>3. val = ValueAt(entries, k)
  BY <1>1, <1>2, ValueLemma DEF LuaSoFar
<1>4. PICK b : b = LuaEntry(a, e)
  OBVIOUS
<1>5. PICK t : t = b.table /\ t = [v \in DOMAIN a.table \cup {val} |-> IF v = val THEN e.name ELSE a.table[v]]
  BY <1>2, <1>4 DEF LuaEntry, Put
<1>6. b.val = CountAt(entries, k)
  BY <1>2, <1>3, <1>4 DEF CountAt, LuaEntry
<1>7. \A j : j \in 1 .. k <=> j \in 1 .. k - 1 \/ j = k
  OBVIOUS
<1>8. DOMAIN a.table = {ValueAt(entries, j) : j \in 1 .. k - 1}
  BY DEF LuaSoFar
<1>9. DOMAIN t = {ValueAt(entries, j) : j \in 1 .. k}
  BY <1>3, <1>5, <1>7, <1>8
<1>10. ASSUME NEW v \in DOMAIN t
       PROVE  \E j \in 1 .. k : v = ValueAt(entries, j) /\ t[v] = entries[j].name
  <2>1. CASE v = val
    <3>1. t[v] = entries[k].name
      BY <1>1, <1>5, <2>1
    <3> QED BY <1>3, <1>7, <2>1, <3>1
  <2>2. CASE v # val
    <3>1. v \in DOMAIN a.table /\ t[v] = a.table[v]
      BY <1>5, <2>2
    <3>2. PICK j \in 1 .. k - 1 : v = ValueAt(entries, j) /\ a.table[v] = entries[j].name
      BY <3>1 DEF LuaSoFar
    <3>3. j \in 1 .. k
      BY <1>7
    <3> QED BY <3>1, <3>2, <3>3
  <2> QED BY <2>1, <2>2
<1> QED BY <1>1, <1>4, <1>5, <1>6, <1>9, <1>10 DEF LuaSoFar

\* For every enumeration, however its entries mix values of their own with
\* values counted on: GeneratePyEnum writes the very values that a C++ compiler
\* gives to what GenerateEnum writes, and the Lua table has those values, each
\* with the name of an entry that has it.
THEOREM EnumValuesAgree ==
  ASSUME NEW N, NEW entries \in Seq(EntrySet(N))
  PROVE  /\ GeneratePyEnum(entries) = CppPairs(entries)
         /\ DOMAIN LuaEnum(entries) = {CppPairs(entries)[k][2] : k \in DOMAIN entries}
         /\ \A val \in DOMAIN LuaEnum(entries) : <<LuaEnum(entries)[val], val>> \in ToSet(CppPairs(entries))
<1>1. PICK len : len = Len(entries) /\ len \in Nat /\ DOMAIN entries = 1 .. len
  BY LenProperties
<1>2. PICK pairs : pairs = CppPairs(entries)
  OBVIOUS
<1>3. pairs = [k \in 1 .. len |-> <<entries[k].name, ValueAt(entries, k)>>]
  BY <1>1, <1>2, PairsLemma
<1>4. GeneratePyEnum(entries) = pairs
  <2>1. PICK base : base = [class |-> <<>>, cur |-> 0]
    OBVIOUS
  <2>2. PICK g : PyFold!IsRun(g, 0, base, entries, len) /\ FoldLeft(PyEntry, base, entries) = g[len]
    BY <1>1, PyRun
  <2> DEFINE R == {k \in 0 .. len : PySoFar(entries, k, g[k])}
  <2>3. 0 \in R
    <3>1. g[0] = base
      BY <2>2 DEF PyFold!IsRun
    <3>2. base.cur = 0 /\ base.class = <<>>
      BY <2>1
    <3>3. <<>> = [j \in 1 .. 0 |-> <<entries[j].name, ValueAt(entries, j)>>]
      OBVIOUS
    <3>4. PySoFar(entries, 0, base)
      BY <3>2, <3>3 DEF PySoFar, CountAt
    <3> QED BY <1>1, <3>1, <3>4
  <2>4. ASSUME NEW k \in 1 .. len, k - 1 \in R PROVE k \in R
    <3>1. g[k] = PyEntry(g[k - 1], entries[k])
      BY <2>2 DEF PyFold!IsRun, PyStep
    <3>2. PySoFar(entries, k - 1, g[k - 1])
      BY <2>4
    <3>3. k \in 1 .. Len(entries) /\ k \in 0 .. len
      BY <1>1
    <3>4. PySoFar(entries, k, PyEntry(g[k - 1], entries[k]))
      BY <3>2, <3>3, PyEntryLemma
    <3> QED BY <3>1, <3>3, <3>4
  <2>5. 0 .. len \subseteq R
    <3> HIDE DEF R
    <3> QED BY <1>1, <2>3, <2>4, PyFold!IntervalInduction
  <2>6. PySoFar(entries, len, g[len])
    BY <1>1, <2>5
  <2>7. GeneratePyEnum(entries) = g[len].class
    BY <2>1, <2>2 DEF GeneratePyEnum
  <2> QED BY <1>3, <2>6, <2>7 DEF PySoFar
<1>5. PICK table : /\ table = LuaEnum(entries)
                   /\ DOMAIN table = {ValueAt(entries, j) : j \in 1 .. len}
                   /\ \A v \in DOMAIN table : \E j \in 1 .. len : v = ValueAt(entries, j) /\ table[v] = entries[j].name
  <2>1. PICK base : base = [table |-> Empty, val |-> 0]
    OBVIOUS
  <2>2. PICK g : LuaFold!IsRun(g, 0, base, entries, len) /\ FoldLeft(LuaEntry, base, entries) = g[len]
    BY <1>1, LuaRun
  <2> DEFINE R == {k \in 0 .. len : LuaSoFar(entries, k, g[k])}
  <2>3. 0 \in R
    <3>1. g[0] = base
      BY <2>2 DEF LuaFold!IsRun
    <3>2. base.val = 0 /\ DOMAIN base.table = {}
      BY <2>1 DEF Empty
    <3>3. 1 .. 0 = {}
      OBVIOUS
    <3>4. LuaSoFar(entries, 0, base)
      BY <3>2, <3>3 DEF LuaSoFar, CountAt
    <3> QED BY <1>1, <3>1, <3>4
  <2>4. ASSUME NEW k \in 1 .. len, k - 1 \in R PROVE k \in R
    <3>1. g[k] = LuaEntry(g[k - 1], entries[k])
      BY <2>2 DEF LuaFold!IsRun, LuaStep
    <3>2. LuaSoFar(entries, k - 1, g[k - 1])
      BY <2>4
    <3>3. k \in 1 .. Len(entries) /\ k \in 0 .. len
      BY <1>1
    <3>4. LuaSoFar(entries, k, LuaEntry(g[k - 1], entries[k]))
      BY <3>2, <3>3, LuaEntryLemma
    <3> QED BY <3>1, <3>3, <3>4
  <2>5. 0 .. len \subseteq R
    <3> HIDE DEF R
    <3> QED BY <1>1, <2>3, <2>4, LuaFold!IntervalInduction
  <2>6. LuaSoFar(entries, len, g[len])
    BY <1>1, <2>5
  <2>7. LuaEnum(entries) = g[len].table
    BY <2>1, <2>2 DEF LuaEnum
  <2> QED BY <2>6, <2>7 DEF LuaSoFar
<1>6. \A j \in 1 .. len : pairs[j] = <<entries[j].name, ValueAt(entries, j)>> /\ pairs[j][2] = ValueAt(entries, j)
  BY <1>3
<1>7. DOMAIN table = {pairs[k][2] : k \in DOMAIN entries}
  BY <1>1, <1>5, <1>6
<1>8. ASSUME NEW v \in DOMAIN table PROVE <<table[v], v>> \in ToSet(pairs)
  <2>1. PICK j \in 1 .. len : v = ValueAt(entries, j) /\ table[v] = entries[j].name
    BY <1>5
  <2>2. j \in DOMAIN pairs /\ pairs[j] = <<table[v], v>>
    BY <1>3, <2>1
  <2> QED BY <2>2 DEF ToSet
<1>9. GeneratePyEnum(entries) = CppPairs(entries)
  BY <1>2, <1>4
<1>10. table = LuaEnum(entries)
  BY <1>5
<1>11. DOMAIN LuaEnum(entries) = {CppPairs(entries)[k][2] : k \in DOMAIN entries}
  BY <1>2, <1>7, <1>10
<1>12. \A val \in DOMAIN LuaEnum(entries) : <<LuaEnum(entries)[val], val>> \in ToSet(CppPairs(entries))
  BY <1>2, <1>8, <1>10
<1> QED BY <1>9, <1>11, <1>12

-----------------------------------------------------------------------------
(* The functions that dissect a payload.                                     *)

IsField(f) == f.type.id \in 1 .. 12 /\ f.type.num \in Nat \cup {NoArray}
IsMessage(msg) == \E len \in Nat : DOMAIN msg.fields = 1 .. len /\ \A k \in 1 .. len : IsField(msg.fields[k])

\* The calls of addle are for bytes one behind the other, from 0 to end.
CallSet(Names) == [field : Names, offset : Nat, size : Nat]
EndAt(list, k) == IF k = 0 THEN 0 ELSE list[k].offset + list[k].size
Adjoins(list, end) ==
  /\ Len(list) \in Nat /\ DOMAIN list = 1 .. Len(list)
  /\ \A k \in 1 .. Len(list) : list[k].offset \in Nat /\ list[k].size \in Nat /\ list[k].offset = EndAt(list, k - 1)
  /\ EndAt(list, Len(list)) = end

LEMMA TimesLemma == \A a, b \in Nat : a * b \in Nat /\ a * b = b * a /\ (a + 1) * b = a * b + b /\ 1 * b = b /\ 0 * b = 0
OBVIOUS

LEMMA SizeLemma ==
  ASSUME NEW type, type.id \in 1 .. 12, type.num \in Nat \cup {NoArray}
  PROVE  GetSize(type) \in Nat /\ GetCount(type) \in Nat
<1>1. \A k \in 1 .. 12 : TypeSizes[k] \in Nat
  BY DEF TypeSizes
<1>2. GetSize(type) \in Nat
  BY <1>1 DEF GetSize
<1>3. GetCount(type) \in Nat
  BY DEF GetCount
<1> QED BY <1>2, <1>3

\* A field has calls for its bytes behind those of the fields before it.
LEMMA FieldCallsLemma ==
  ASSUME NEW Names, NEW msg, NEW f, IsField(f), \A i \in Int : <<msg.name, f.name, i>> \in Names,
         NEW calls, calls.list \in Seq(CallSet(Names)), calls.offset \in Nat, Adjoins(calls.list, calls.offset),
         NEW next, next = generate_field_dissector(calls, msg, f)
  PROVE  /\ next.list \in Seq(CallSet(Names)) /\ next.offset \in Nat /\ Adjoins(next.list, next.offset)
         /\ FieldSize(f) \in Nat /\ next.offset = calls.offset + FieldSize(f)
<1>1. GetSize(f.type) \in Nat /\ GetCount(f.type) \in Nat
  BY SizeLemma DEF IsField
<1>2. FieldSize(f) \in Nat
  BY <1>1, TimesLemma DEF FieldSize
<1>3. PICK count : count = (IF IsChar(f.type) THEN 1 ELSE GetCount(f.type)) /\ count \in Nat
  BY <1>1
<1>4. PICK size : size = (IF count > 1 THEN GetSize(f.type) ELSE FieldSize(f)) /\ size \in Nat
  BY <1>1, <1>2
<1>5. count * size = FieldSize(f)
  <2>1. CASE IsChar(f.type)
    <3>1. count = 1 /\ size = FieldSize(f)
      BY <1>3, <1>4, <2>1
    <3> QED BY <1>2, <3>1
  <2>2. CASE ~IsChar(f.type)
    <3>1. count = GetCount(f.type) /\ FieldSize(f) = GetSize(f.type) * count
      BY <1>3, <2>2 DEF FieldSize
    <3>2. CASE count > 1
      <4>1. size = GetSize(f.type)
        BY <1>4, <3>2
      <4>2. count * size = size * count
        BY <1>3, <1>4, TimesLemma
      <4> QED BY <3>1, <4>1, <4>2
    <3>3. CASE count = 1
      <4>1. size = FieldSize(f)
        BY <1>4, <3>3
      <4> QED BY <1>2, <3>3, <4>1
    <3>4. CASE count = 0
      <4>1. FieldSize(f) = 0 /\ size = FieldSize(f)
        BY <1>1, <1>4, <3>1, <3>4
      <4> QED BY <3>4, <4>1
    <3> QED BY <1>3, <3>2, <3>3, <3>4
  <2> QED BY <2>1, <2>2
<1>6. PICK o, list : o = calls.offset /\ o \in Nat /\ list = calls.list /\ list \in Seq(CallSet(Names))
  OBVIOUS
<1>7. PICK more : more = [k \in 1 .. count |-> [field |-> <<msg.name, f.name, Index(count, k - 1)>>,
                                               offset |-> o + (k - 1) * size, size |-> size]]
  OBVIOUS
<1>8. next.list = list \o more /\ next.offset = o + count * size
  BY <1>3, <1>4, <1>6, <1>7 DEF generate_field_dissector
<1>9. \A k \in 1 .. count : /\ more[k] \in CallSet(Names)
                            /\ more[k].offset = o + (k - 1) * size /\ more[k].size = size
                            /\ more[k].offset \in Nat
  <2> SUFFICES ASSUME NEW k \in 1 .. count
               PROVE  /\ more[k] \in CallSet(Names)
                      /\ more[k].offset = o + (k - 1) * size /\ more[k].size = size
                      /\ more[k].offset \in Nat
    OBVIOUS
  <2>1. k - 1 \in Nat
    BY <1>3
  <2>2. o + (k - 1) * size \in Nat
    BY <1>4, <1>6, <2>1, TimesLemma
  <2>3. Index(count, k - 1) \in Int
    BY <2>1 DEF Index, Whole
  <2>4. PICK x : x = <<msg.name, f.name, Index(count, k - 1)>> /\ x \in Names
    BY <2>3
  <2>5. PICK y : y = o + (k - 1) * size /\ y \in Nat
    BY <2>2
  <2>6. more[k] = [field |-> x, offset |-> y, size |-> size]
    BY <1>7, <2>4, <2>5
  <2> QED BY <1>4, <2>4, <2>5, <2>6 DEF CallSet
<1>10. more \in Seq(CallSet(Names)) /\ Len(more) = count
  <2>1. more \in [1 .. count -> CallSet(Names)]
    BY <1>7, <1>9
  <2>2. more \in Seq(CallSet(Names))
    BY <1>3, <2>1, SeqDef
  <2>3. Len(more) = count
    BY <1>3, <2>1, <2>2, LenProperties
  <2> QED BY <2>2, <2>3
<1>11. PICK n : n = Len(list) /\ n \in Nat
  BY <1>6, LenProperties
<1>12. PICK all : all = list \o more
  OBVIOUS
<1>13. /\ all \in Seq(CallSet(Names)) /\ Len(all) = n + count
       /\ \A i \in 1 .. n + count : all[i] = IF i <= n THEN list[i] ELSE more[i - n]
  BY <1>6, <1>10, <1>11, <1>12, ConcatProperties
<1>14. \A k \in 0 .. n : EndAt(all, k) = EndAt(list, k)
  BY <1>3, <1>11, <1>13 DEF EndAt
<1>15. EndAt(list, n) = o
  BY <1>6, <1>11 DEF Adjoins
<1>16. \A k \in 0 .. count : EndAt(all, n + k) = o + k * size
  <2> SUFFICES ASSUME NEW k \in 0 .. count PROVE EndAt(all, n + k) = o + k * size
    OBVIOUS
  <2>1. CASE k = 0
    <3>1. n + k = n /\ n \in 0 .. n /\ o + k * size = o
      BY <1>4, <1>6, <1>11, <2>1
    <3> QED BY <1>14, <1>15, <3>1
  <2>2. CASE k # 0
    <3>1. k \in 1 .. count /\ n + k \in 1 .. n + count /\ ~(n + k <= n) /\ (n + k) - n = k /\ n + k # 0
      BY <1>3, <1>11, <2>2
    <3>2. all[n + k] = more[k]
      BY <1>13, <3>1
    <3>3. EndAt(all, n + k) = (o + (k - 1) * size) + size
      BY <1>9, <3>1, <3>2 DEF EndAt
    <3>4. PICK j : j = k - 1 /\ j \in Nat /\ k = j + 1
      BY <3>1
    <3>5. PICK m : m = j * size /\ m \in Nat /\ (j + 1) * size = m + size
      BY <1>4, <3>4, TimesLemma
    <3>6. EndAt(all, n + k) = (o + m) + size /\ k * size = m + size
      BY <3>3, <3>4, <3>5
    <3>7. (o + m) + size = o + (m + size)
      <4>1. o \in Nat /\ m \in Nat /\ size \in Nat
        BY <1>4, <1>6, <3>5
      <4> QED BY <4>1
    <3> QED BY <3>6, <3>7
  <2> QED BY <2>1, <2>2
<1>17. ASSUME NEW k \in 1 .. n + count
       PROVE  all[k].offset \in Nat /\ all[k].size \in Nat /\ all[k].offset = EndAt(all, k - 1)
  <2>1. all[k].offset \in Nat /\ all[k].size \in Nat
    <3>1. all[k] \in CallSet(Names)
      BY <1>13
    <3> QED BY <3>1 DEF CallSet
  <2>2. CASE k <= n
    <3>1. k \in 1 .. n /\ k - 1 \in 0 .. n
      BY <1>11, <2>2
    <3>2. all[k] = list[k]
      BY <1>13, <2>2
    <3>3. list[k].offset = EndAt(list, k - 1)
      BY <1>6, <1>11, <3>1 DEF Adjoins
    <3> QED BY <1>14, <2>1, <3>1, <3>2, <3>3
  <2>3. CASE ~(k <= n)
    <3>a. PICK j : j = k - n
      OBVIOUS
    <3>1. j \in 1 .. count /\ j - 1 \in 0 .. count /\ n + (j - 1) = k - 1
      BY <1>3, <1>11, <2>3, <3>a
    <3>2. all[k].offset = o + (j - 1) * size
      BY <1>9, <1>13, <2>3, <3>1, <3>a
    <3>3. EndAt(all, n + (j - 1)) = o + (j - 1) * size
      BY <1>16, <3>1
    <3> QED BY <2>1, <3>1, <3>2, <3>3
  <2> QED BY <2>2, <2>3
<1>18. Adjoins(all, o + count * size)
  <2>1. EndAt(all, n + count) = o + count * size
    BY <1>3, <1>16
  <2>2. Len(all) \in Nat /\ DOMAIN all = 1 .. Len(all)
    BY <1>13, LenProperties
  <2> QED BY <1>13, <1>17, <2>1, <2>2 DEF Adjoins
<1>19. next.offset = o + FieldSize(f) /\ next.offset \in Nat
  BY <1>2, <1>5, <1>6, <1>8
<1> QED BY <1>2, <1>6, <1>8, <1>12, <1>13, <1>18, <1>19

\* The generators of the functions are runs over the fields and the messages,
\* and so is the sum of the sizes.
NoCalls == [list |-> <<>>, offset |-> 0]
LEMMA FieldsRun ==
  ASSUME NEW msg, NEW len \in Nat, DOMAIN msg.fields = 1 .. len
  PROVE  \E g : FieldFold!IsRun(g, msg, NoCalls, msg.fields, len) /\ generate_payload_dissector(msg).calls = g[len].list
<1> DEFINE F(h) == h = [S \in SUBSET DOMAIN msg.fields |->
                          IF S = {} THEN NoCalls ELSE generate_field_dissector(h[S \ {Max(S)}], msg, msg.fields[Max(S)])]
           V == FoldLeft(LAMBDA c, f : generate_field_dissector(c, msg, f), NoCalls, msg.fields)
<1>1. \A S : Max(S) = FieldFold!Greatest(S)
  BY DEF Max, FieldFold!Greatest
<1>2. \A h : F(h) <=> FieldFold!IsFold(h, msg, NoCalls, msg.fields, len)
  BY <1>1 DEF FieldFold!IsFold, FieldStep
<1>3. \E h : F(h)
  BY <1>2, FieldFold!FoldExists
<1>4. PICK h : F(h) /\ V = h[DOMAIN msg.fields]
  BY <1>3 DEF FoldLeft, MapThenFoldSet
<1>5. FieldFold!IsFold(h, msg, NoCalls, msg.fields, len) /\ V = h[1 .. len]
  BY <1>2, <1>4
<1>6. generate_payload_dissector(msg).calls = V.list
  BY DEF generate_payload_dissector, NoCalls
<1> HIDE DEF F, V
<1>7. PICK g : FieldFold!IsRun(g, msg, NoCalls, msg.fields, len) /\ g[len] = h[1 .. len]
  BY <1>5, FieldFold!FoldRuns
<1>8. V = g[len]
  BY <1>5, <1>7
<1> QED BY <1>6, <1>7, <1>8

LEMMA SumRun ==
  ASSUME NEW s, NEW len \in Nat, DOMAIN s = 1 .. len
  PROVE  \E g : SumFold!IsRun(g, 0, 0, s, len) /\ Total(s) = g[len]
<1> DEFINE F(h) == h = [S \in SUBSET DOMAIN s |-> IF S = {} THEN 0 ELSE h[S \ {Max(S)}] + s[Max(S)]]
<1>1. \A S : Max(S) = SumFold!Greatest(S)
  BY DEF Max, SumFold!Greatest
<1>2. \A h : F(h) <=> SumFold!IsFold(h, 0, 0, s, len)
  BY <1>1 DEF SumFold!IsFold, SumStep
<1>3. \E h : F(h)
  BY <1>2, SumFold!FoldExists
<1>4. PICK h : F(h) /\ Total(s) = h[DOMAIN s]
  BY <1>3 DEF Total, FoldLeft, MapThenFoldSet
<1>5. SumFold!IsFold(h, 0, 0, s, len) /\ Total(s) = h[1 .. len]
  BY <1>2, <1>4
<1> HIDE DEF F
<1>6. PICK g : SumFold!IsRun(g, 0, 0, s, len) /\ g[len] = h[1 .. len]
  BY <1>5, SumFold!FoldRuns
<1> QED BY <1>5, <1>6

LEMMA TableRun ==
  ASSUME NEW d, NEW s, NEW len \in Nat, DOMAIN s = 1 .. len
  PROVE  \E g : TableFold!IsRun(g, d, Empty, s, len) /\ generate_dissectors(d, s) = g[len]
<1> DEFINE F(h) == h = [S \in SUBSET DOMAIN s |-> IF S = {} THEN Empty ELSE TableStep(d, h[S \ {Max(S)}], s[Max(S)])]
<1>1. \A S : Max(S) = TableFold!Greatest(S)
  BY DEF Max, TableFold!Greatest
<1>2. \A h : F(h) <=> TableFold!IsFold(h, d, Empty, s, len)
  BY <1>1 DEF TableFold!IsFold
<1>3. \E h : F(h)
  BY <1>2, TableFold!FoldExists
<1>4. PICK h : F(h) /\ generate_dissectors(d, s) = h[DOMAIN s]
  BY <1>3 DEF generate_dissectors, FoldLeft, MapThenFoldSet, TableStep
<1>5. TableFold!IsFold(h, d, Empty, s, len) /\ generate_dissectors(d, s) = h[1 .. len]
  BY <1>2, <1>4
<1> HIDE DEF F
<1>6. PICK g : TableFold!IsRun(g, d, Empty, s, len) /\ g[len] = h[1 .. len]
  BY <1>5, TableFold!FoldRuns
<1> QED BY <1>5, <1>6

FieldNames(msg, len) == {<<msg.name, msg.fields[p[1]].name, p[2]>> : p \in (1 .. len) \X Int}

\* For every message, the generated function shows the bytes of its payload one
\* behind the other, without a gap and without showing one twice, from the first
\* to the length that it compares the payload's with.
THEOREM PayloadCovered ==
  ASSUME NEW msg, IsMessage(msg)
  PROVE  Adjoins(generate_payload_dissector(msg).calls, generate_payload_dissector(msg).len)
<1>1. PICK len \in Nat : DOMAIN msg.fields = 1 .. len /\ \A k \in 1 .. len : IsField(msg.fields[k])
  BY DEF IsMessage
<1>2. PICK Names : Names = FieldNames(msg, len)
  OBVIOUS
<1>3. PICK base : base = NoCalls
  OBVIOUS
<1>4. PICK g : /\ FieldFold!IsRun(g, msg, base, msg.fields, len)
               /\ generate_payload_dissector(msg).calls = g[len].list
  BY <1>1, <1>3, FieldsRun
<1>5. PICK sizes : sizes = [k \in 1 .. len |-> FieldSize(msg.fields[k])]
  OBVIOUS
<1>6. PICK h : SumFold!IsRun(h, 0, 0, sizes, len) /\ Total(sizes) = h[len]
  <2>1. DOMAIN sizes = 1 .. len
    BY <1>5
  <2> QED BY <2>1, SumRun
<1>7. /\ generate_payload_dissector(msg).calls = g[len].list
      /\ generate_payload_dissector(msg).len = h[len]
  <2>1. generate_payload_dissector(msg).calls = g[len].list
    BY <1>4
  <2>2. generate_payload_dissector(msg).len = Total(sizes)
    BY <1>1, <1>5 DEF generate_payload_dissector, Apply
  <2> QED BY <1>6, <2>1, <2>2
<1> DEFINE Good(c) == c.list \in Seq(CallSet(Names)) /\ c.offset \in Nat /\ Adjoins(c.list, c.offset)
           R == {k \in 0 .. len : Good(g[k]) /\ g[k].offset = h[k]}
<1>8. 0 \in R
  <2>1. g[0] = base /\ h[0] = 0
    BY <1>4, <1>6 DEF FieldFold!IsRun, SumFold!IsRun
  <2>2. base.list = <<>> /\ base.offset = 0
    BY <1>3 DEF NoCalls
  <2>3. <<>> \in Seq(CallSet(Names)) /\ Len(<<>>) = 0 /\ DOMAIN <<>> = 1 .. 0
    OBVIOUS
  <2>4. Adjoins(<<>>, 0)
    BY <2>3 DEF Adjoins, EndAt
  <2>5. Good(base) /\ base.offset = 0
    BY <2>2, <2>3, <2>4
  <2> HIDE DEF Good
  <2> QED BY <1>1, <2>1, <2>5
<1>9. ASSUME NEW k \in 1 .. len, k - 1 \in R PROVE k \in R
  <2>1. PICK c : c = g[k - 1] /\ Good(c) /\ c.offset = h[k - 1]
    BY <1>9
  <2>2. PICK f : f = msg.fields[k] /\ IsField(f)
    BY <1>1
  <2>3. PICK next : next = generate_field_dissector(c, msg, f) /\ g[k] = next
    BY <1>4, <2>1, <2>2 DEF FieldFold!IsRun, FieldStep
  <2>4. \A i \in Int : <<msg.name, f.name, i>> \in Names
    <3> SUFFICES ASSUME NEW i \in Int PROVE <<msg.name, f.name, i>> \in Names
      OBVIOUS
    <3>1. <<k, i>> \in (1 .. len) \X Int
      OBVIOUS
    <3> QED BY <1>2, <2>2, <3>1 DEF FieldNames
  <2>5. c.list \in Seq(CallSet(Names)) /\ c.offset \in Nat /\ Adjoins(c.list, c.offset)
    BY <2>1
  <2> HIDE DEF Good, R
  <2>6. /\ next.list \in Seq(CallSet(Names)) /\ next.offset \in Nat /\ Adjoins(next.list, next.offset)
        /\ next.offset = c.offset + FieldSize(f)
    BY <2>2, <2>3, <2>4, <2>5, FieldCallsLemma
  <2>7. h[k] = h[k - 1] + FieldSize(f)
    BY <1>5, <1>6, <2>2 DEF SumFold!IsRun, SumStep
  <2>8. k \in 0 .. len
    OBVIOUS
  <2>9. Good(g[k]) /\ g[k].offset = h[k]
    BY <2>1, <2>3, <2>6, <2>7 DEF Good
  <2> QED BY <2>8, <2>9 DEF R
<1>10. 0 .. len \subseteq R
  <2> HIDE DEF R
  <2> QED BY <1>8, <1>9, FieldFold!IntervalInduction
<1>11. Adjoins(g[len].list, h[len])
  BY <1>1, <1>10
<1> QED BY <1>7, <1>11

\* The tables of functions that are generated have the fields at offsets.
LEMMA TableLemma ==
  ASSUME NEW d, NEW messages, NEW len \in Nat, DOMAIN messages = 1 .. len,
         \A k \in 1 .. len : IsMessage(d.messages[messages[k]])
  PROVE  IsTable(generate_dissectors(d, messages))
<1>1. PICK g : TableFold!IsRun(g, d, Empty, messages, len) /\ generate_dissectors(d, messages) = g[len]
  BY TableRun
<1>2. ASSUME NEW msg, IsMessage(msg)
      PROVE  \A k \in DOMAIN generate_payload_dissector(msg).calls :
                /\ generate_payload_dissector(msg).calls[k].offset \in Nat
                /\ generate_payload_dissector(msg).calls[k].size \in Nat
  <2>1. PICK calls, end : calls = generate_payload_dissector(msg).calls /\ Adjoins(calls, end)
    BY <1>2, PayloadCovered
  <2> QED BY <2>1 DEF Adjoins
<1> DEFINE R == {k \in 0 .. len : IsTable(g[k])}
<1>3. 0 \in R
  <2>1. g[0] = Empty
    BY <1>1 DEF TableFold!IsRun
  <2>2. IsTable(Empty)
    BY DEF IsTable, Empty
  <2> QED BY <2>1, <2>2
<1>4. ASSUME NEW k \in 1 .. len, k - 1 \in R PROVE k \in R
  <2>1. PICK t : t = g[k - 1] /\ IsTable(t)
    BY <1>4
  <2>2. PICK msg : msg = d.messages[messages[k]] /\ IsMessage(msg)
    OBVIOUS
  <2>3. PICK fn : fn = generate_payload_dissector(msg)
    OBVIOUS
  <2>4. \A j \in DOMAIN fn.calls : fn.calls[j].offset \in Nat /\ fn.calls[j].size \in Nat
    BY <1>2, <2>2, <2>3
  <2>5. PICK u : u = g[k] /\ u = [i \in DOMAIN t \cup {msg.id} |-> IF i = msg.id THEN fn ELSE t[i]]
    BY <1>1, <2>1, <2>2, <2>3 DEF TableFold!IsRun, TableStep, Put
  <2>6. \A i \in DOMAIN u : u[i] = fn \/ (i \in DOMAIN t /\ u[i] = t[i])
    BY <2>5
  <2>7. IsTable(u)
    BY <2>1, <2>4, <2>6 DEF IsTable
  <2>8. k \in 0 .. len
    OBVIOUS
  <2> QED BY <2>5, <2>7, <2>8
<1>5. 0 .. len \subseteq R
  <2> HIDE DEF R
  <2> QED BY <1>3, <1>4, TableFold!IntervalInduction
<1> QED BY <1>1, <1>5

\* So the dissector that is generated for any messages, in whatever order they
\* come out of the dictionary, finds the frames of any stream of bytes, however
\* it is cut into segments.
THEOREM GeneratedStreamIsTiled ==
  ASSUME NEW CONSTANT stream \in Seq(Byte8), NEW CONSTANT d, NEW CONSTANT messages, NEW CONSTANT len \in Nat,
         DOMAIN messages = 1 .. len, \A k \in 1 .. len : IsMessage(d.messages[messages[k]])
  PROVE  StreamSpec(stream, generate_dissectors(d, messages)) => []StreamTiled(stream, generate_dissectors(d, messages))
<1>1. IsTable(generate_dissectors(d, messages))
  BY TableLemma
<1>2. NothingCaptured => TileInv(stream, generate_dissectors(d, messages))
  BY NothingLemma
<1>3. /\ TileInv(stream, generate_dissectors(d, messages))
      /\ [StreamNext(stream, generate_dissectors(d, messages))]_<<call, shown, pos>>
      => TileInv(stream, generate_dissectors(d, messages))'
  BY <1>1, StepLemma
<1>4. TileInv(stream, generate_dissectors(d, messages)) => StreamTiled(stream, generate_dissectors(d, messages))
  BY BetweenLemma
<1> QED BY <1>2, <1>3, <1>4, PTL DEF StreamSpec

=============================================================================
