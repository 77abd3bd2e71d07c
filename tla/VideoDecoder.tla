---------------------------- MODULE VideoDecoder ----------------------------
(***************************************************************************)
(* The streaming decoder under every scan: VideoDecoder (engine.rs) over   *)
(* Session (framescope-ffmpeg) over the native shim.  Each of the three    *)
(* keeps its own idea of the current frame; a snapshot is right only if    *)
(* they agree.                                                             *)
(*                                                                         *)
(* FFmpeg is external.  The demuxer hands out the packets of all streams   *)
(* in order and lands anywhere after a seek; the codec turns every packet  *)
(* into one frame, keeps some back until more are sent or it is flushed,   *)
(* and may refuse a packet for the moment.  Any call may fail.             *)
(*                                                                         *)
(* A packet is its position in the container, and so are the pixels        *)
(* decoded from it.  The time base of a stream is valid, as libavformat    *)
(* guarantees; frames differ in their timestamp only.                      *)
(***************************************************************************)
EXTENDS Integers, Sequences, SequencesExt

CONSTANTS
  Containers,  \* [streams: sequence of [kind, decodable, default], packets: sequence of [stream, ts]]
  MaxValue,    \* stands for i64::MAX in the cadence's checked subtraction
  MaxOpens, MaxCalls,
  None

VARIABLES
  container,
  native,      \* the shim's FsSession
  dimensions,  \* Session::last_frame_dimensions is set
  decoder,     \* VideoDecoder: source_id, current_frame, cadence
  cancelled,   \* the CancellationToken, shared with other threads
  pc,          \* where next_frame is: receiving, feeding, or no call at all
  answer,      \* of the last call
  opens, calls,
  handed,      \* every frame handed out, with the packet it was decoded from
  run          \* where the scan started and the packets it handed out; None after an error

vars == <<container, native, dimensions, decoder, cancelled, pc, answer, opens, calls, handed, run>>

Packets == 1 .. Len(container.packets)
Streams(c) == 1 .. Len(c.streams)

(***************************************************************************)
(* Opening.                                                                *)
(***************************************************************************)

Candidates(c, requested) ==
  {s \in Streams(c) : /\ c.streams[s].kind = "video" /\ c.streams[s].decodable
                      /\ requested = None \/ s = requested}

First(S) == CHOOSE s \in S : \A t \in S : s <= t

\* fs_select_video_stream: the requested stream, or the first default one that
\* can be decoded, or the first that can.
SelectStream(c, requested) ==
  LET candidates == Candidates(c, requested)
      preferred == {s \in candidates : c.streams[s].default}
  IN IF candidates = {} THEN None ELSE First(IF preferred = {} THEN candidates ELSE preferred)

\* from_session: the selected stream is among those discovered, as video.
Accepted(c, stream) == stream \in Streams(c) /\ c.streams[stream].kind = "video"

NoCadence == [last |-> None, first_delta |-> None, intervals |-> 0, variable |-> FALSE]

Fresh(stream) ==
  [stream |-> stream, position |-> 1, pending |-> None, demux_eof |-> FALSE, flush_sent |-> FALSE,
   queue |-> <<>>, epoch |-> 0, frame_index |-> 0, frame |-> None]

Init ==
  /\ container \in Containers
  /\ native = None /\ dimensions = FALSE /\ decoder = None
  /\ cancelled = FALSE /\ pc = "idle" /\ answer = [kind |-> "none"]
  /\ opens = 0 /\ calls = 0 /\ handed = {} /\ run = None

Failed == answer' = [kind |-> "error"] /\ run' = None

\* open_path_with_options, open_file_descriptor_with_options, from_session: a
\* decoder that was there before has been dropped.  Probing may fail.
Open(requested) ==
  /\ pc = "idle" /\ opens < MaxOpens /\ opens' = opens + 1
  /\ cancelled' = FALSE /\ dimensions' = FALSE
  /\ LET stream == SelectStream(container, requested)
     IN \/ /\ stream # None /\ Accepted(container, stream)
           /\ native' = Fresh(stream)
           /\ decoder' = [source_id |-> opens + 1, current_frame |-> None, cadence |-> NoCadence]
           /\ answer' = [kind |-> "opened"] /\ run' = [from |-> 1, got |-> <<>>]
        \/ native' = None /\ decoder' = None /\ Failed
  /\ UNCHANGED <<container, pc, calls, handed>>

\* cancel, from any thread and at any time.
Cancel ==
  /\ decoder # None /\ ~cancelled /\ cancelled' = TRUE
  /\ UNCHANGED <<container, native, dimensions, decoder, pc, answer, opens, calls, handed, run>>

(***************************************************************************)
(* next_frame.                                                             *)
(***************************************************************************)

Call == pc = "idle" /\ decoder # None /\ calls < MaxCalls /\ calls' = calls + 1

StartNext ==
  /\ Call
  /\ IF cancelled
     THEN pc' = "idle" /\ Failed /\ UNCHANGED dimensions
     ELSE pc' = "receive" /\ dimensions' = FALSE /\ UNCHANGED <<answer, run>>
  /\ UNCHANGED <<container, native, decoder, cancelled, opens, handed>>

\* TimestampCadence::record and mode; a difference outside i64 is variable.
Record(cadence, ts) ==
  IF cadence.last = None THEN [cadence EXCEPT !.last = ts]
  ELSE LET delta == ts - cadence.last
           inside == delta <= MaxValue
       IN [last |-> ts,
           first_delta |-> IF inside /\ delta > 0 /\ cadence.first_delta = None THEN delta ELSE cadence.first_delta,
           intervals |-> IF inside THEN cadence.intervals + 1 ELSE cadence.intervals,
           variable |-> \/ cadence.variable \/ ~inside \/ delta <= 0
                        \/ cadence.first_delta # None /\ delta # cadence.first_delta]

Mode(cadence) ==
  IF cadence.variable THEN "variable" ELSE IF cadence.intervals >= 2 THEN "constant" ELSE "undetermined"

\* fs_fill_frame_info and map_frame: the identity the rest of the program
\* knows a decoded frame by.
DecodedFrame(packet) ==
  [source_id |-> decoder.source_id, decode_epoch |-> native.epoch, index |-> native.frame_index,
   ts |-> container.packets[packet].ts]

Deliver(packet) ==
  LET frame == DecodedFrame(packet)
  IN /\ native' = [native EXCEPT !.queue = Tail(@), !.frame = packet, !.frame_index = @ + 1]
     /\ dimensions' = TRUE
     /\ decoder' = [decoder EXCEPT !.current_frame = frame,
                                   !.cadence = IF frame.ts = None THEN @ ELSE Record(@, frame.ts)]
     /\ answer' = [kind |-> "frame", frame |-> frame] /\ pc' = "idle"
     /\ handed' = handed \cup {[frame |-> frame, packet |-> packet]}
     /\ run' = IF run = None THEN None ELSE [run EXCEPT !.got = Append(@, packet)]

\* A frame without a size: Session has none to remember and map_frame refuses
\* it, but the AVFrame is already the new one.
Unusable(packet) ==
  /\ native' = [native EXCEPT !.queue = Tail(@), !.frame = packet, !.frame_index = @ + 1]
  /\ pc' = "idle" /\ Failed /\ UNCHANGED <<dimensions, decoder, handed>>

\* One round of the shim's outer loop: poll the token, drop the old AVFrame,
\* ask the codec.
Receive ==
  /\ pc = "receive"
  /\ \/ /\ cancelled /\ pc' = "idle" /\ Failed
        /\ UNCHANGED <<native, dimensions, decoder, handed>>
     \/ /\ ~cancelled /\ native.queue # <<>> /\ Deliver(Head(native.queue))
     \/ /\ ~cancelled /\ native.queue # <<>> /\ Unusable(Head(native.queue))
     \/ /\ ~cancelled /\ native.queue = <<>> /\ native.flush_sent
        /\ native' = [native EXCEPT !.frame = None]
        /\ decoder' = [decoder EXCEPT !.current_frame = None]
        /\ answer' = [kind |-> "end"] /\ pc' = "idle"
        /\ UNCHANGED <<dimensions, handed, run>>
     \/ /\ ~cancelled /\ ~native.flush_sent
        /\ native' = [native EXCEPT !.frame = None] /\ pc' = "feed"
        /\ UNCHANGED <<dimensions, decoder, answer, handed, run>>
     \/ /\ ~cancelled /\ pc' = "idle" /\ Failed
        /\ \E queue \in {native.queue, SubSeq(native.queue, 2, Len(native.queue))} :
             native' = [native EXCEPT !.frame = None, !.queue = queue]
        /\ UNCHANGED <<dimensions, decoder, handed>>
  /\ UNCHANGED <<container, cancelled, opens, calls>>

SubmitForgetting(packet, position) ==
  \/ /\ \E queue \in {native.queue, Append(native.queue, packet)} :
          native' = [native EXCEPT !.queue = queue, !.pending = None, !.position = position]
     /\ pc' = "receive" /\ UNCHANGED <<answer, run>>
  \/ /\ native' = [native EXCEPT !.pending = None, !.position = position]
     /\ pc' = "idle" /\ Failed

\* fs_submit_current_packet: accepted, refused for now, or dropped with an error.
Submit(packet, position) ==
  \/ /\ native' = [native EXCEPT !.queue = Append(@, packet), !.pending = None, !.position = position]
     /\ pc' = "receive" /\ UNCHANGED <<answer, run>>
  \/ /\ native' = [native EXCEPT !.pending = packet, !.position = position]
     /\ pc' = "receive" /\ UNCHANGED <<answer, run>>
  \/ /\ native' = [native EXCEPT !.pending = None, !.position = position]
     /\ pc' = "idle" /\ Failed

\* The next packet of the selected stream; av_read_frame skips the others.
NextPacket ==
  LET own == {p \in Packets : p >= native.position /\ container.packets[p].stream = native.stream}
  IN IF own = {} THEN None ELSE First(own)

\* The shim's inner loop, until something was sent.
Feed ==
  /\ pc = "feed"
  /\ \/ native.pending # None /\ Submit(native.pending, native.position)
     \/ /\ native.pending = None /\ ~native.demux_eof /\ NextPacket # None
        /\ Submit(NextPacket, NextPacket + 1)
     \/ /\ native.pending = None /\ (native.demux_eof \/ NextPacket = None)
        /\ \/ /\ \E sent \in BOOLEAN : native' = [native EXCEPT !.demux_eof = TRUE, !.flush_sent = sent]
              /\ pc' = "receive" /\ UNCHANGED <<answer, run>>
           \/ native' = [native EXCEPT !.demux_eof = TRUE] /\ pc' = "idle" /\ Failed
     \/ /\ native.pending = None /\ ~native.demux_eof
        /\ pc' = "idle" /\ Failed /\ UNCHANGED native
  /\ UNCHANGED <<container, dimensions, decoder, cancelled, opens, calls, handed>>

(***************************************************************************)
(* Snapshots and seeks.                                                    *)
(***************************************************************************)

\* copy_current_frame_rgba and its resized form.
Copyable == dimensions /\ native.frame # None

\* snapshot_current_frame_rgba and its preview form: the caller's frame must
\* be the current one, Session must know its size, and the AVFrame must hold
\* data.  A failed conversion changes nothing.
Snapshot(frame) ==
  /\ Call
  /\ \/ /\ ~cancelled /\ decoder.current_frame = frame /\ Copyable
        /\ answer' = [kind |-> "pixels", frame |-> frame, pixels |-> native.frame]
     \/ answer' = [kind |-> "error"]
  /\ UNCHANGED <<container, native, dimensions, decoder, cancelled, pc, opens, handed, run>>

Seeked(position) ==
  [Fresh(native.stream) EXCEPT !.position = position, !.epoch = native.epoch + 1]

\* seek_to_timestamp_us: negative or cancelled, refused by the demuxer
\* (wherever that leaves it), or done.
Seek(position) ==
  /\ Call
  /\ \/ /\ answer' = [kind |-> "error"] /\ UNCHANGED <<native, dimensions, decoder, run>>
     \/ /\ ~cancelled /\ dimensions' = FALSE /\ Failed
        /\ native' = [native EXCEPT !.position = position] /\ UNCHANGED decoder
     \/ /\ ~cancelled /\ dimensions' = FALSE
        /\ native' = Seeked(position)
        /\ decoder' = [decoder EXCEPT !.current_frame = None, !.cadence = NoCadence]
        /\ answer' = [kind |-> "seeked"] /\ run' = [from |-> position, got |-> <<>>]
  /\ UNCHANGED <<container, cancelled, pc, opens, handed>>

Next ==
  \/ \E requested \in {None} \cup Streams(container) : Open(requested)
  \/ Cancel \/ StartNext \/ Receive \/ Feed
  \/ \E h \in handed : Snapshot(h.frame)
  \/ \E position \in Packets \cup {Len(container.packets) + 1} : Seek(position)

Spec == Init /\ [][Next]_vars

(***************************************************************************)
(* Properties.                                                             *)
(***************************************************************************)

\* Pixels are only ever labelled with the frame they were decoded from: no
\* frame kept from before an error, a seek or another open is paired with the
\* reusable AVFrame of a newer one (snapshot_current_frame_rgba).
SnapshotIsOfItsFrame ==
  answer.kind = "pixels" =>
    \A h \in handed : h.frame = answer.frame => h.packet = answer.pixels

\* Packets of the stream between two positions.
Between(a, b) == {p \in a .. b : container.packets[p].stream = native.stream}

\* While no error was reported, a scan hands out every frame of the selected
\* stream, in order: none is lost or repeated when the codec refuses a packet
\* or a flush, and the end is told only when the codec has given up the last.
ScanIsComplete ==
  run # None =>
    /\ \A k \in 1 .. Len(run.got) - 1 : run.got[k] < run.got[k + 1]
    /\ run.got # <<>> => Range(run.got) = Between(run.from, Last(run.got))
    /\ answer.kind = "end" => Range(run.got) = Between(run.from, Len(container.packets))

\* Stream selection is stable: opening by the index that was selected selects
\* the same stream again, so scans that reopen the source see one stream.
ReopenFindsStream ==
  native # None =>
    /\ SelectStream(container, native.stream) = native.stream
    /\ container.streams[native.stream].decodable

\* The timestamps handed out in the current epoch, in order.
Stamps ==
  LET mine == {h.frame : h \in {h \in handed : /\ h.frame.source_id = decoder.source_id
                                               /\ h.frame.decode_epoch = native.epoch
                                               /\ h.frame.ts # None}}
  IN SetToSortSeq(mine, LAMBDA a, b : a.index < b.index)

\* The incrementally kept classification is that of all the intervals since
\* the last seek (TimestampCadence).
CadenceIsExact ==
  decoder # None /\ pc = "idle" =>
    LET deltas == [k \in 1 .. Len(Stamps) - 1 |-> Stamps[k + 1].ts - Stamps[k].ts]
        regular == \A k \in DOMAIN deltas : deltas[k] \in 1 .. MaxValue /\ deltas[k] = deltas[1]
    IN Mode(decoder.cadence) =
         IF ~regular THEN "variable" ELSE IF Len(deltas) >= 2 THEN "constant" ELSE "undetermined"
=============================================================================
