----------------------------- MODULE TcpFraming -----------------------------
(***************************************************************************)
(* How one connection of tcpserver.cpp turns the byte stream into          *)
(* messages: dealwith_recv with the head and body lengths of               *)
(* protocol_codec.cpp.  An event allows one read: of what the head still   *)
(* lacks, or else of what the body lacks but at most the 4096 bytes of     *)
(* charbody.  A read may return less than it asks for.                     *)
(*                                                                         *)
(* Bytes are counted, not stored: a frame is the length its head announces *)
(* and a body of that many bytes.                                          *)
(***************************************************************************)
EXTENDS Integers, Sequences

CONSTANTS HeadLen,     \* sizeof(STU_PROTOCOL_HEAD): 4 in the code
          Chunk,       \* sizeof(charbody): 4096
          BodyLimit,   \* a head announcing this much or more is refused: 5000
          Bodies,      \* body lengths the peer announces
          MaxFrames    \* bound: frames the peer sends

ASSUME LengthAssumption ==
    /\ HeadLen \in Nat \ {0} /\ Chunk \in Nat \ {0} /\ BodyLimit \in Nat
    /\ Bodies \subseteq Nat /\ MaxFrames \in Nat

VARIABLES sent,        \* lengths of the frames the peer has sent
          ends,        \* offsets in the stream: of its start, and of each frame's end
          got,         \* lengths of the messages given to data_notify_callback
          read,        \* bytes read from the socket so far
          recved,      \* m_data_recv.size()
          closed       \* why dealwith_recv returned -1, or "no"

vars == <<sent, ends, got, read, recved, closed>>

Init == /\ sent = <<>> /\ ends = <<0>>
        /\ got = <<>> /\ read = 0 /\ recved = 0
        /\ closed = "no"

AtMost(a, b) == IF a <= b THEN a ELSE b

\* bytes on their way or in the socket
Unread == ends[Len(ends)] - read

\* the frame, if there is one, whose first byte is the first of m_data_recv
Start == read - recved
Frame == CHOOSE k \in 1 .. Len(sent) : ends[k] = Start

\* the length in the head at the start of m_data_recv; elsewhere there is no head
Announced == IF \E k \in 1 .. Len(sent) : ends[k] = Start THEN sent[Frame] ELSE 0

\* protocol_codec::get_body_length
BodyLength(n) == IF n >= BodyLimit \/ n = 0 THEN -1 ELSE n

\* encode_buffer at the other end
PeerSend(n) ==
    /\ Len(sent) < MaxFrames
    /\ sent' = Append(sent, n)
    /\ ends' = Append(ends, ends[Len(ends)] + HeadLen + n)
    /\ UNCHANGED <<got, read, recved, closed>>

-----------------------------------------------------------------------------
\* mutant: a whole head is asked for, whatever was received before
RecvHeadWhole ==
    /\ closed = "no" /\ recved < HeadLen
    /\ \E n \in 1 .. AtMost(HeadLen, Unread) :
           recved' = recved + n /\ read' = read + n
    /\ UNCHANGED <<sent, ends, got, closed>>

RecvHead ==
    /\ closed = "no" /\ recved < HeadLen
    /\ \E n \in 1 .. AtMost(HeadLen - recved, Unread) :
           recved' = recved + n /\ read' = read + n
    /\ UNCHANGED <<sent, ends, got, closed>>

RefuseHead ==
    /\ closed = "no" /\ recved >= HeadLen /\ Unread > 0
    /\ BodyLength(Announced) = -1
    /\ closed' = "head"
    /\ UNCHANGED <<sent, ends, got, read, recved>>

\* mutant: what was already received of the body is not subtracted
BodyWantedWhole == AtMost(BodyLength(Announced), Chunk)

\* body_needto_recved
BodyWanted == AtMost(BodyLength(Announced) - (recved - HeadLen), Chunk)

RecvBodyPart ==
    /\ closed = "no" /\ recved >= HeadLen
    /\ BodyLength(Announced) # -1
    /\ \E n \in 1 .. AtMost(BodyWanted - 1, Unread) :
           recved' = recved + n /\ read' = read + n
    /\ UNCHANGED <<sent, ends, got, closed>>

\* mutant: m_data_recv is not cleared after the callback
RecvBodyNoClear ==
    /\ closed = "no" /\ recved >= HeadLen
    /\ BodyLength(Announced) # -1
    /\ BodyWanted > 0 /\ BodyWanted <= Unread
    /\ read' = read + BodyWanted
    /\ recved' = recved + BodyWanted
    /\ IF recved + BodyWanted = HeadLen + BodyLength(Announced)
       THEN got' = Append(got, Announced) /\ UNCHANGED closed
       ELSE closed' = "length" /\ UNCHANGED got
    /\ UNCHANGED <<sent, ends>>

\* mutant: only the last piece of the body is handed on
RecvBodyLastPiece ==
    /\ closed = "no" /\ recved >= HeadLen
    /\ BodyLength(Announced) # -1
    /\ BodyWanted > 0 /\ BodyWanted <= Unread
    /\ read' = read + BodyWanted
    /\ got' = Append(got, BodyWanted) /\ recved' = 0
    /\ UNCHANGED <<sent, ends, closed>>

\* mutant: the last byte is waited for once more
RecvBodyOneMore ==
    /\ closed = "no" /\ recved >= HeadLen
    /\ BodyLength(Announced) # -1
    /\ BodyWanted > 0 /\ BodyWanted < Unread
    /\ read' = read + BodyWanted
    /\ got' = Append(got, Announced) /\ recved' = 0
    /\ UNCHANGED <<sent, ends, closed>>

(***************************************************************************)
(* The read returned all it asked for: data_notify_callback, whose         *)
(* get_body compares the buffer with the announced length.                 *)
(***************************************************************************)
RecvBodyAll ==
    /\ closed = "no" /\ recved >= HeadLen
    /\ BodyLength(Announced) # -1
    /\ BodyWanted > 0 /\ BodyWanted <= Unread
    /\ read' = read + BodyWanted
    /\ IF recved + BodyWanted = HeadLen + BodyLength(Announced)
       THEN got' = Append(got, Announced) /\ recved' = 0 /\ UNCHANGED closed
       ELSE closed' = "length" /\ recved' = recved + BodyWanted /\ UNCHANGED got
    /\ UNCHANGED <<sent, ends>>

\* end of file, an error of the socket, or a message the callback refuses
Disconnect ==
    /\ closed = "no"
    /\ closed' = "peer"
    /\ UNCHANGED <<sent, ends, got, read, recved>>

Recv == RecvHead \/ RefuseHead \/ RecvBodyPart \/ RecvBodyAll

Next == Recv \/ Disconnect \/ \E n \in Bodies : PeerSend(n)

Spec == Init /\ [][Next]_vars

\* epoll is level-triggered: while bytes are in the socket there is another event
FairSpec == Spec /\ WF_vars(Recv)

-----------------------------------------------------------------------------
\* types of the variables
TypeOK ==
    /\ sent \in Seq(Bodies) /\ got \in Seq(Bodies)
    /\ ends \in Seq(Nat) /\ read \in Nat /\ recved \in Nat
    /\ closed \in {"no", "head", "length", "peer"}

(***************************************************************************)
(* m_data_recv never holds more than the frame being received, nor all of  *)
(* it: the next recv asks for at least one byte, so its 0 means that the   *)
(* peer closed, and for no byte of the following frame.                    *)
(***************************************************************************)
WithinFrame ==
    closed = "no" /\ recved > HeadLen => recved < HeadLen + BodyLength(Announced)

(***************************************************************************)
(* m_data_recv always starts where a frame starts: no byte is lost, read   *)
(* twice or taken over from the frame before, however reads are cut.       *)
(***************************************************************************)
Aligned == closed = "no" => read - recved = ends[Len(got) + 1]

(***************************************************************************)
(* A body that get_body_length accepts is received and handed on, in as    *)
(* many reads as it takes: the connection is not closed for its length.    *)
(***************************************************************************)
AcceptedBodyReceived == closed # "length"

\* messages come out in the order and with the lengths the peer sent them
Fifo == INSTANCE FifoQueue WITH Data <- Bodies

ImplementsFifo == Fifo!Spec

(***************************************************************************)
(* Every frame with a body reaches the callback unless the connection      *)
(* ends, however the network cuts the stream into reads.  A head that      *)
(* announces no body is refused only when another byte follows it: the     *)
(* reactor has no event before.                                            *)
(***************************************************************************)
EveryFrameReceived ==
    \A n \in 1..MaxFrames :
        (Len(sent) >= n /\ sent[n] # 0) ~> (Len(got) >= n \/ closed # "no")

=============================================================================
