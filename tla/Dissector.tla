----------------------------- MODULE Dissector -----------------------------
(* The Wireshark dissector that GenerateLuaOutput of mavgen.py writes out.  *)
(* A call gets a buffer of bytes and looks for frames in it; d is the state *)
(* of a call, with the offset, the length of the header it found last, the  *)
(* frames it showed, and the offset from which Wireshark is asked to keep   *)
(* the bytes for the next call (pinfo.desegment_offset).                    *)
EXTENDS Integers, Sequences, SequencesExt, FiniteSetsExt

VARIABLES call,    \* the dissector's call that runs or ran last
          shown,   \* the frames shown in all calls
          pos      \* how much of the stream was captured

Magic1 == 254       \* 0xfe
Magic2 == 253       \* 0xfd
trailer_len == 2
NotAsked == -1

Call(buffer) ==
    [buffer |-> buffer, offset |-> 0, header_len |-> 0, desegment_offset |-> NotAsked, frames |-> <<>>, done |-> FALSE]

Byte(d, k) == d.buffer[d.offset + k + 1]
Bytes(buffer, offset, size) == SubSeq(buffer, offset + 1, offset + size)

\* The bytes a field is shown from: zeros stand for those the payload lacks.
addle(buffer, base_offset, offset, size, len) ==
    LET given == IF offset >= len THEN <<>>
                 ELSE IF len < offset + size THEN Bytes(buffer, base_offset + offset, len - offset)
                 ELSE Bytes(buffer, base_offset + offset, size)
    IN given \o [k \in 1 .. size - Len(given) |-> 0]

\* The inner loop: on to a preamble.  header_len is that of an earlier frame
\* when there is none.
skip(d) ==
    LET found == {o \in d.offset .. Len(d.buffer) - 1 : d.buffer[o + 1] \in {Magic1, Magic2}}
    IN IF found = {} THEN [d EXCEPT !.offset = Len(d.buffer)]
       ELSE [d EXCEPT !.offset = Min(found), !.header_len = IF d.buffer[Min(found) + 1] = Magic1 THEN 6 ELSE 10]

\* Without an offset of its own, the request is for the whole buffer.
desegment_FromStart(d) == [d EXCEPT !.desegment_offset = 0, !.done = TRUE]
desegment(d) == [d EXCEPT !.desegment_offset = d.offset, !.done = TRUE]

msgid(d) == IF d.header_len = 6 THEN Byte(d, 5) ELSE Byte(d, 7) + 256 * Byte(d, 8) + 65536 * Byte(d, 9)
sender(d) == IF d.header_len = 6 THEN <<Byte(d, 2), Byte(d, 3), Byte(d, 4)>> ELSE <<Byte(d, 4), Byte(d, 5), Byte(d, 6)>>

\* The call of dissect_payload_<msgid>: the fields of the message with their
\* bytes, and how much of the payload they do not account for.
payload(d, fn) ==
    LET base == d.offset + d.header_len
        size == Byte(d, 1)
    IN [id |-> msgid(d), sender |-> sender(d),
        fields |-> [k \in DOMAIN fn.calls |->
                       <<fn.calls[k].field, addle(d.buffer, base, fn.calls[k].offset, fn.calls[k].size, size)>>],
        trimmed |-> IF size < fn.len /\ d.header_len = 10 THEN fn.len - size ELSE 0,
        longer |-> IF size > fn.len THEN size - fn.len ELSE 0]

\* One turn of the outer loop.  A frame with an id that has no function is
\* taken for junk that begins with a preamble.
turn(d0, myfuncs) ==
    LET d == skip(d0)
        remaining == Len(d.buffer) - d.offset
        frame_size == d.header_len + Byte(d, 1) + trailer_len
    IN IF d0.offset >= Len(d0.buffer) \/ d.header_len = 0 THEN [d EXCEPT !.done = TRUE]
       ELSE IF remaining < d.header_len + trailer_len THEN desegment(d)
       ELSE IF remaining < frame_size THEN desegment(d)
       ELSE IF msgid(d) \notin DOMAIN myfuncs THEN [d EXCEPT !.offset = @ + 1]
       ELSE [d EXCEPT !.offset = @ + frame_size, !.frames = Append(@, payload(d, myfuncs[msgid(d)]))]

\* Wireshark keeps the bytes it was asked to, and no others.
kept(d) == IF d.desegment_offset = NotAsked THEN <<>> ELSE SubSeq(d.buffer, d.desegment_offset + 1, Len(d.buffer))

----------------------------------------------------------------------------
(* A stream of bytes that arrives in segments.                              *)

NothingCaptured == call = [Call(<<>>) EXCEPT !.done = TRUE] /\ shown = <<>> /\ pos = 0

\* The next segment, behind what was kept.
CaptureSegment(stream) ==
    /\ call.done /\ pos < Len(stream)
    /\ \E end \in pos + 1 .. Len(stream) :
          call' = Call(kept(call) \o SubSeq(stream, pos + 1, end)) /\ pos' = end
    /\ UNCHANGED shown

DissectBuffer(myfuncs) ==
    /\ ~call.done
    /\ call' = turn(call, myfuncs)
    /\ shown' = IF call'.done THEN shown \o call'.frames ELSE shown
    /\ UNCHANGED pos

StreamNext(stream, myfuncs) == CaptureSegment(stream) \/ DissectBuffer(myfuncs)
StreamSpec(stream, myfuncs) == NothingCaptured /\ [][StreamNext(stream, myfuncs)]_<<call, shown, pos>>

\* A byte of the stream as the beginning of a frame.
HeadAt(stream, p) == [Call(stream) EXCEPT !.offset = p, !.header_len = IF stream[p + 1] = Magic1 THEN 6 ELSE 10]
Preamble(stream, p) == stream[p + 1] \in {Magic1, Magic2}
FrameEnd(stream, p) == p + HeadAt(stream, p).header_len + Byte(HeadAt(stream, p), 1) + trailer_len
Complete(stream, p, end) ==
    p + HeadAt(stream, p).header_len + trailer_len <= end /\ FrameEnd(stream, p) <= end
IdAt(stream, p) == msgid(HeadAt(stream, p))
Junk(stream, myfuncs, p, end) ==
    ~Preamble(stream, p) \/ (Complete(stream, p, end) /\ IdAt(stream, p) \notin DOMAIN myfuncs)

\* The frames begin at starts, in this order, and all bytes between them and up
\* to the last one before position to are junk.
EndOf(stream, starts, k) == IF k = 0 THEN 0 ELSE FrameEnd(stream, starts[k])
IsFrame(stream, myfuncs, frame, p, end) ==
    /\ Preamble(stream, p) /\ Complete(stream, p, end) /\ IdAt(stream, p) \in DOMAIN myfuncs
    /\ frame = payload(HeadAt(stream, p), myfuncs[IdAt(stream, p)])
AllJunk(stream, myfuncs, from, to, end) == \A p \in from .. to - 1 : Junk(stream, myfuncs, p, end)
Tiles(stream, myfuncs, frames, starts, to, end) ==
    /\ \A k \in 1 .. Len(frames) :
          /\ starts[k] \in Nat /\ EndOf(stream, starts, k - 1) <= starts[k]
          /\ AllJunk(stream, myfuncs, EndOf(stream, starts, k - 1), starts[k], end)
          /\ IsFrame(stream, myfuncs, frames[k], starts[k], end)
    /\ EndOf(stream, starts, Len(frames)) <= to
    /\ AllJunk(stream, myfuncs, EndOf(stream, starts, Len(frames)), to, end)

\* However a stream is cut into segments, between calls the frames shown are
\* those of the captured bytes, one after the other with only junk between
\* them, each with the payload it has in the stream; what is not shown yet is
\* kept, and begins with a frame that is not complete.
StreamTiled(stream, myfuncs) ==
    call.done => \E starts : \E to \in 0 .. pos :
        /\ Tiles(stream, myfuncs, shown, starts, to, pos)
        /\ to = pos \/ (Preamble(stream, to) /\ ~Complete(stream, to, pos))
        /\ kept(call) = SubSeq(stream, to + 1, pos)
=============================================================================
