------------------------------- MODULE Frames -------------------------------
(***************************************************************************)
(* The frames of the hub protocol (app/protocol/serialization.py): a       *)
(* sender packs invocations, completions and pings as a length and that    *)
(* many bytes, the WebSocket message they make up is cut short or arrives  *)
(* whole, and the receiver unpacks frame after frame.                      *)
(*                                                                         *)
(* MessagePack itself is external: message i of the outbox packs to bytes  *)
(* that all are i, as many as its size, and exactly they unpack to it.     *)
(***************************************************************************)
EXTENDS Integers, Sequences

CONSTANTS
    Streams,                \* what may be sent at once: sequences of messages
    Back                    \* how far before a frame's end a cut may fall

Types == {"invocation", "completion", "ping",
          "empty",                          \* unpacks to an empty array or to none
          "corrupt"}                        \* does not unpack

\* MessagePack writes every value as one byte or more.
StreamsAssumption ==
    \A stream \in Streams :
        /\ Len(stream) \in Nat /\ DOMAIN stream = 1 .. Len(stream)
        /\ \A i \in DOMAIN stream : stream[i].type \in Types /\ stream[i].size \in Nat \ {0}

ASSUME FramesAssumption == StreamsAssumption /\ Back \in Nat

VARIABLES
    outbox,                 \* the messages sent
    data,                   \* the bytes of the WebSocket message
    ends,                   \* how long it was after each frame, when that was packed
    stage,                  \* "write", "wire", "read" or "done"
    offset,                 \* how far the receiver has come
    inbox                   \* the positions in the outbox of the messages unpacked

vars == <<outbox, data, ends, stage, offset, inbox>>

Init ==
    /\ outbox \in Streams
    /\ data = <<>> /\ ends = <<>>
    /\ stage = "write"
    /\ offset = 0 /\ inbox = <<>>

-----------------------------------------------------------------------------
(* Frames.                                                                 *)

\* Seven bits to a byte, the low ones first, and 128 more when others follow.
Varint[n \in Nat] ==
    IF n < 128 THEN <<n>> ELSE <<128 + (n % 128)>> \o Varint[n \div 128]

\* Value and size of the varint at offset o; a size of 0 is the ValueError.
ReadVarint(bytes, o) ==
    LET from[k \in 0 .. Len(bytes)] ==
            IF k = Len(bytes) THEN [value |-> 0, size |-> 0]
            ELSE IF bytes[k + 1] < 128 THEN [value |-> bytes[k + 1], size |-> 1]
            ELSE IF from[k + 1].size = 0 THEN [value |-> 0, size |-> 0]
            ELSE [value |-> (bytes[k + 1] % 128) + (128 * from[k + 1].value),
                  size |-> from[k + 1].size + 1]
    IN  from[o]

Packed(i) == [k \in 1 .. outbox[i].size |-> i]
Frame(i) == Varint[outbox[i].size] \o Packed(i)

Unpacks(bytes) ==
    /\ bytes # <<>> /\ bytes[1] \in DOMAIN outbox
    /\ bytes = Packed(bytes[1]) /\ outbox[bytes[1]].type # "corrupt"

-----------------------------------------------------------------------------
(* The way of a message.                                                   *)

\* pack_invocation, pack_completion, pack_ping.
Pack ==
    /\ stage = "write" /\ Len(ends) < Len(outbox)
    /\ data' = data \o Frame(Len(ends) + 1)
    /\ ends' = Append(ends, Len(data'))
    /\ UNCHANGED <<outbox, stage, offset, inbox>>

Send ==
    /\ stage = "write" /\ Len(ends) = Len(outbox)
    /\ stage' = "wire"
    /\ UNCHANGED <<outbox, data, ends, offset, inbox>>

\* The connection breaks within the message: near one of its frames' ends.
Cut ==
    /\ stage = "wire"
    /\ \E i \in DOMAIN ends, back \in 0 .. Back :
         /\ ends[i] - back \in 0 .. (Len(data) - 1)
         /\ data' = SubSeq(data, 1, ends[i] - back)
    /\ UNCHANGED <<outbox, ends, stage, offset, inbox>>

Receive ==
    /\ stage = "wire"
    /\ stage' = "read"
    /\ UNCHANGED <<outbox, data, ends, offset, inbox>>

\* The frame at the receiver's offset.
Length == ReadVarint(data, offset)
End == offset + Length.size + Length.value
Body == SubSeq(data, offset + Length.size + 1, End)

\* Faulty variant: a frame that ends with the data is taken for cut short.
ArrivedShort ==
    offset < Len(data) /\ Length.size > 0 /\ End < Len(data) /\ Unpacks(Body)

Arrived == offset < Len(data) /\ Length.size > 0 /\ End <= Len(data) /\ Unpacks(Body)

\* One round of unpack_messages' loop.
Unpack ==
    /\ stage = "read" /\ Arrived
    /\ offset' = End
    /\ inbox' = IF outbox[Body[1]].type = "empty" THEN inbox ELSE Append(inbox, Body[1])
    /\ UNCHANGED <<outbox, data, ends, stage>>

\* An incomplete frame, and one that does not unpack, end the loop as the end
\* of the data does, and the rest is dropped.
Break ==
    /\ stage = "read" /\ ~Arrived
    /\ stage' = "done"
    /\ UNCHANGED <<outbox, data, ends, offset, inbox>>

Next == Pack \/ Send \/ Cut \/ Receive \/ Unpack \/ Break

Spec == Init /\ [][Next]_vars

-----------------------------------------------------------------------------
(* Properties.                                                             *)

\* The messages unpacked are those whose frames arrived whole, up to the first
\* that does not unpack: in order, none twice, none made up of the bytes of
\* others, whatever their lengths (unpack_messages, _read_varint).
FramesSurvive ==
    stage = "done" =>
        /\ \A j, k \in DOMAIN inbox : j < k => inbox[j] < inbox[k]
        /\ {inbox[k] : k \in DOMAIN inbox} =
             {i \in DOMAIN outbox : /\ ends[i] <= Len(data)
                                    /\ \A k \in 1 .. i : outbox[k].type # "corrupt"
                                    /\ outbox[i].type # "empty"}

=============================================================================
