------------------------------ MODULE DeviceCodec ------------------------------
(***************************************************************************)
(* The receive path of one device connection of the remote-terminal        *)
(* tunnel: RTTYS_Device_ConnectionHandler::onSocketReadable and the        *)
(* do_msgType* handlers it dispatches to (src/src/rttys/RTTYS_device.cpp). *)
(*                                                                         *)
(* The device writes a sequence of frames (1-byte command, 2-byte          *)
(* big-endian length, payload) to its socket.  TCP delivers the bytes in   *)
(* order but in chunks of any size; every readable event appends one      *)
(* chunk to inBuf_ and runs the whole parse loop under the connection's    *)
(* mutex, so one delivery plus the loop is one atomic step here.  Bytes    *)
(* are naturals 0..255 so that a payload byte mistaken for a header is     *)
(* interpreted exactly as the code interprets it, including the sign of a  *)
(* char on the build's platform.                                           *)
(***************************************************************************)
EXTENDS Integers, Sequences, SequencesExt, Bitwise

CONSTANTS
    Frames,        \* the frames the device sends, as [cmd, payload] records
    MaxChunk,      \* the most bytes one receiveBytes call may return
    ClientPaired,  \* the session has a client: SendToClient/ValidClient succeed
    CharSigned,    \* the build's char is signed (x86) rather than unsigned (ARM)
    MaxCalls,      \* outbound calls (KeyStrokes, WindowSize, Login, Logout) made
    SendMayFail    \* a sendBytes on the device socket may write short or throw

\* Command codes of the rtty protocol (RTTYS_device.h, not in the sources).
msgTypeRegister  == 0
msgTypeLogin     == 1
msgTypeLogout    == 2
msgTypeTermData  == 3
msgTypeWinsize   == 4
msgTypeCmd       == 5
msgTypeHeartbeat == 6
msgTypeFile      == 7
msgTypeHttp      == 8
msgTypeAck       == 9
msgTypeMax       == 10

\* Handlers that only log and return true: they consume nothing of inBuf_.
NoOpTypes == {msgTypeLogout, msgTypeWinsize, msgTypeCmd, msgTypeFile,
              msgTypeHttp, msgTypeAck, msgTypeMax}

Byte == 0..255

\* The wire encoding of one frame: command, big-endian length, payload.
EncodeHeader(cmd, n) == <<cmd, n \div 256, n % 256>>

Encode(f) == EncodeHeader(f.cmd, Len(f.payload)) \o f.payload

Stream == FlattenSeq([i \in DOMAIN Frames |-> Encode(Frames[i])])

(***************************************************************************)
(* The send path of the same connection: the frames the server writes to  *)
(* the device.  Each is a pure function of its arguments; payload bytes    *)
(* do not matter to the header, so KeyStrokes is given by its length.      *)
(***************************************************************************)

\* Mutant: the two length bytes written in little-endian order.
KeyStrokesHeader_Swapped(len) ==
    <<msgTypeTermData, len & 255, shiftR(len & 65280, 8)>>

\* KeyStrokes: Msg[1] = (len & 0xff00) >> 8, Msg[2] = len & 0x00ff, in both
\* the 64-byte stack branch (len <= 60) and the heap branch; the payload
\* follows.
KeyStrokesHeader(len) ==
    <<msgTypeTermData, shiftR(len & 65280, 8), len & 255>>

\* WindowSize: length 4 + 1, then sid_, cols and rows, each int written as
\* its high byte (x >> 8 into a u_char) and its low byte (x & 0x00ff).
WindowSizeFrame(sid, cols, rows) ==
    <<msgTypeWinsize, 0, 5, sid, shiftR(cols, 8) % 256, cols & 255,
      shiftR(rows, 8) % 256, rows & 255>>

\* Login: command and a zero length.  Logout: length 1 and sid_.
LoginFrame == <<msgTypeLogin, 0, 0>>

LogoutFrame(sid) == <<msgTypeLogout, 0, 1, sid>>

\* The replies onSocketReadable sends: the heartbeat acknowledgment and
\* the 7-byte "OK" of do_msgTypeRegister (length 4: 0, 'O', 'K', 0).
HeartbeatReply == <<msgTypeHeartbeat, 0, 0>>

\* The inputs of the outbound calls: KeyStrokes lengths at the edges of
\* the 64-byte stack buffer, of a byte and of the 2-byte length field;
\* window dimensions around a byte boundary.
KeyLens == {0, 59, 60, 61, 255, 256, 65535}

Dims == {80, 256}

RegisterAck == <<msgTypeRegister, 0, 4, 0, 79, 75, 0>>

\* What the history out keeps of a frame written as the bytes b for the
\* command cmd: the 3 header bytes and the number of bytes after them.
Written(cmd, b) == [cmd |-> cmd, hdr |-> SubSeq(b, 1, 3), plen |-> Len(b) - 3]

ASSUME /\ \A i \in DOMAIN Frames : Frames[i].cmd \in Byte
                                  /\ Frames[i].payload \in Seq(Byte)
       /\ MaxChunk \in Nat \ {0}
       /\ ClientPaired \in BOOLEAN
       /\ CharSigned \in BOOLEAN
       /\ MaxCalls \in Nat

VARIABLES
    sent,      \* how many bytes of Stream the socket has delivered
    inBuf,     \* inBuf_: received bytes not yet consumed
    waiting,   \* waiting_for_bytes_: rest of a terminal-data payload
    lastCmd,   \* last_command_
    open,      \* valid_: the connection has not been ended
    fwd,       \* terminal bytes handed to SendToClient, in order
    disp,      \* the command of every header the loop parsed (history)
    regs,      \* ids of the device registrations notified to the server
    logins,    \* login messages forwarded to the client
    failed,    \* the loop ended the connection with good = false (history)
    sid,       \* sid_, the session slot the device's login reported
    out,       \* frames written to the device: [cmd, hdr, plen] (history)
    calls      \* outbound calls made so far

vars == <<sent, inBuf, waiting, lastCmd, open, fwd, disp, regs, logins, failed,
          sid, out, calls>>

(***************************************************************************)
(* The parse loop works on a record holding the connection's state; good  *)
(* is the loop's local flag.                                               *)
(***************************************************************************)
Conn == [buf |-> inBuf, waiting |-> waiting, lastCmd |-> lastCmd,
         good |-> TRUE, sendOK |-> TRUE, fwd |-> fwd, disp |-> disp, regs |-> regs,
         logins |-> logins, sid |-> sid, out |-> out]

Drain(buf, n) == SubSeq(buf, n + 1, Len(buf))

Least(a, b) == IF a <= b THEN a ELSE b

\* ReadString: the bytes up to the first 0, consuming the 0 too; all of
\* the buffer when there is no 0.
ReadString(buf) ==
    LET z == SelectInSeq(buf, LAMBDA b : b = 0)
    IN  IF z = 0 THEN [str |-> buf, rest |-> <<>>]
                 ELSE [str |-> SubSeq(buf, 1, z - 1), rest |-> Drain(buf, z)]

\* do_msgTypeRegister: id, description and token are read as strings
\* whatever msg_len says; the registration is notified and "OK" is sent.
\* A short or failed send ends the connection (good = false) after the
\* registration has been notified.
do_msgTypeRegister(st) ==
    LET id   == ReadString(st.buf)
        desc == ReadString(id.rest)
        tok  == ReadString(desc.rest)
        reg  == [st EXCEPT !.buf = tok.rest, !.regs = Append(@, id.str)]
    IN  IF st.sendOK
        THEN [reg EXCEPT !.out = Append(@, Written(msgTypeRegister, RegisterAck))]
        ELSE [reg EXCEPT !.good = FALSE]

\* do_msgTypeLogin: reads the error and sid bytes (as many as there are)
\* and forwards a login message to the client.
do_msgTypeLogin(st) ==
    [st EXCEPT !.buf = Drain(@, Least(2, Len(@))),
               !.sid = IF Len(st.buf) >= 2 THEN st.buf[2] ELSE @,
               !.logins = IF ClientPaired THEN @ + 1 ELSE @,
               !.good = ClientPaired]

(***************************************************************************)
(* size_t arithmetic: msg_len and waiting_for_bytes_ are size_t.  A value  *)
(* v < 0 here stands for the wrapped 2^64 + v, larger than any real count. *)
(***************************************************************************)
SizeLess(a, b) == IF (a < 0) = (b < 0) THEN a < b ELSE b < 0

\* Mutant: the owed count computed after the drain (msg_len - 0).
do_msgTypeTermData_DrainFirst(st, msgLen) ==
    LET used == Len(st.buf) IN
    IF st.waiting # 0
    THEN IF SizeLess(used, st.waiting)
         THEN [st EXCEPT !.waiting = @ - used, !.fwd = @ \o st.buf,
                         !.buf = <<>>, !.good = ClientPaired]
         ELSE [st EXCEPT !.fwd = @ \o SubSeq(st.buf, 1, st.waiting),
                         !.buf = Drain(@, st.waiting), !.waiting = 0,
                         !.good = ClientPaired]
    ELSE IF SizeLess(used, msgLen)
         THEN [st EXCEPT !.fwd = @ \o st.buf, !.waiting = msgLen,
                         !.buf = <<>>, !.good = ClientPaired]
         ELSE [st EXCEPT !.waiting = 0, !.fwd = @ \o SubSeq(st.buf, 1, msgLen),
                         !.buf = Drain(@, msgLen), !.good = ClientPaired]

\* Mutant: the owed count decremented instead of reset when it is met.
do_msgTypeTermData_NoReset(st, msgLen) ==
    LET used == Len(st.buf) IN
    IF st.waiting # 0
    THEN IF SizeLess(used, st.waiting)
         THEN [st EXCEPT !.waiting = @ - used, !.fwd = @ \o st.buf,
                         !.buf = <<>>, !.good = ClientPaired]
         ELSE [st EXCEPT !.fwd = @ \o SubSeq(st.buf, 1, st.waiting),
                         !.buf = Drain(@, st.waiting), !.waiting = @ - used,
                         !.good = ClientPaired]
    ELSE IF SizeLess(used, msgLen)
         THEN [st EXCEPT !.fwd = @ \o st.buf, !.waiting = msgLen - used,
                         !.buf = <<>>, !.good = ClientPaired]
         ELSE [st EXCEPT !.waiting = 0, !.fwd = @ \o SubSeq(st.buf, 1, msgLen),
                         !.buf = Drain(@, msgLen), !.good = ClientPaired]

\* do_msgTypeTermData: forward what is there now, remember what is owed.
do_msgTypeTermData(st, msgLen) ==
    LET used == Len(st.buf) IN
    IF st.waiting # 0
    THEN IF SizeLess(used, st.waiting)
         THEN [st EXCEPT !.waiting = @ - used, !.fwd = @ \o st.buf,
                         !.buf = <<>>, !.good = ClientPaired]
         ELSE [st EXCEPT !.fwd = @ \o SubSeq(st.buf, 1, st.waiting),
                         !.buf = Drain(@, st.waiting), !.waiting = 0,
                         !.good = ClientPaired]
    ELSE IF SizeLess(used, msgLen)
         THEN [st EXCEPT !.fwd = @ \o st.buf, !.waiting = msgLen - used,
                         !.buf = <<>>, !.good = ClientPaired]
         ELSE [st EXCEPT !.waiting = 0, !.fwd = @ \o SubSeq(st.buf, 1, msgLen),
                         !.buf = Drain(@, msgLen), !.good = ClientPaired]

\* do_msgTypeHeartbeat: fails unless the session still has a client and
\* the 3-byte heartbeat reply is sent whole.  Consumes nothing.
do_msgTypeHeartbeat(st) ==
    IF ClientPaired /\ st.sendOK
    THEN [st EXCEPT !.out = Append(@, Written(msgTypeHeartbeat, HeartbeatReply))]
    ELSE [st EXCEPT !.good = FALSE]

\* The switch on last_command_.
Dispatch(st, cmd, msgLen) ==
    CASE cmd = msgTypeRegister  -> do_msgTypeRegister(st)
      [] cmd = msgTypeLogin     -> do_msgTypeLogin(st)
      [] cmd = msgTypeTermData  -> do_msgTypeTermData(st, msgLen)
      [] cmd = msgTypeHeartbeat -> do_msgTypeHeartbeat(st)
      [] cmd \in NoOpTypes      -> st
      [] OTHER                  -> [st EXCEPT !.good = FALSE]

\* inBuf_ is read as char (ReadString reads it into a char C; line 109
\* casts its begin() to unsigned char *), so a byte >= 0x80 is negative
\* where the build's char is signed, as on x86_64.
CharValue(b) == IF CharSigned /\ b >= 128 THEN b - 256 ELSE b

\* msg_len = inBuf_.begin()[1] * 256 + inBuf_.begin()[2], stored in size_t:
\* a negative sum stands for its wrap-around (see SizeLess).
HeaderLen(hi, lo) == CharValue(hi) * 256 + CharValue(lo)

\* The while loop of onSocketReadable: a pending terminal payload is
\* continued without a header; otherwise a header needs 3 bytes, and
\* fewer than 3 end the loop with good = false.
RECURSIVE ReadLoop(_)
ReadLoop(st) ==
    IF st.buf = <<>> \/ ~st.good THEN st
    ELSE IF st.waiting # 0
    THEN ReadLoop(Dispatch(st, st.lastCmd, 0))
    ELSE IF Len(st.buf) >= 3
    THEN LET cmd == st.buf[1]
             len == HeaderLen(st.buf[2], st.buf[3])
         IN  ReadLoop(Dispatch([st EXCEPT !.buf = Drain(@, 3), !.lastCmd = cmd,
                                          !.disp = Append(@, cmd)], cmd, len))
    ELSE [st EXCEPT !.good = FALSE]

-----------------------------------------------------------------------------
Init ==
    /\ sent = 0
    /\ inBuf = <<>>
    /\ waiting = 0
    /\ lastCmd = 0
    /\ open = TRUE
    /\ fwd = <<>>
    /\ disp = <<>>
    /\ regs = <<>>
    /\ logins = 0
    /\ failed = FALSE
    /\ sid = 0
    /\ out = <<>>
    /\ calls = 0

\* The outcomes of the device socket's sendBytes during one read.
SendOutcomes == IF SendMayFail THEN BOOLEAN ELSE {TRUE}

\* onSocketReadable with receiveBytes returning k > 0 bytes: append them,
\* run the loop, and EndConnection if it ended with good = false.
onSocketReadable ==
    /\ open
    /\ \E k \in 1..MaxChunk, ok \in SendOutcomes :
        /\ sent + k <= Len(Stream)
        /\ LET st == ReadLoop([Conn EXCEPT !.sendOK = ok,
                                 !.buf = @ \o SubSeq(Stream, sent + 1, sent + k)])
           IN  /\ sent' = sent + k
               /\ inBuf' = st.buf
               /\ waiting' = st.waiting
               /\ lastCmd' = st.lastCmd
               /\ open' = st.good
               /\ fwd' = st.fwd
               /\ disp' = st.disp
               /\ regs' = st.regs
               /\ logins' = st.logins
               /\ failed' = ~st.good
               /\ sid' = st.sid
               /\ out' = st.out
               /\ UNCHANGED calls

\* onSocketReadable with receiveBytes returning 0 (the device closed), or
\* throwing: EndConnection.
onPeerClosed ==
    /\ open
    /\ open' = FALSE
    /\ UNCHANGED <<sent, inBuf, waiting, lastCmd, fwd, disp, regs, logins, failed,
                   sid, out, calls>>

\* onSocketShutdown: the reactor stops; EndConnection.
onSocketShutdown ==
    /\ open
    /\ open' = FALSE
    /\ UNCHANGED <<sent, inBuf, waiting, lastCmd, fwd, disp, regs, logins, failed,
                   sid, out, calls>>

(* The calls other threads make on the connection (the processor's Login, *)
(* the client side's KeyStrokes and WindowSize, the endpoint's Logout):    *)
(* each returns false unless valid_, and otherwise writes one frame.       *)
Send(w) ==
    /\ open
    /\ calls < MaxCalls
    /\ out' = Append(out, w)
    /\ calls' = calls + 1
    /\ UNCHANGED <<sent, inBuf, waiting, lastCmd, open, fwd, disp, regs, logins,
                   failed, sid>>

KeyStrokes(len) ==
    Send([cmd |-> msgTypeTermData, hdr |-> KeyStrokesHeader(len), plen |-> len])

WindowSize(cols, rows) == Send(Written(msgTypeWinsize, WindowSizeFrame(sid, cols, rows)))

Login == Send(Written(msgTypeLogin, LoginFrame))

Logout == Send(Written(msgTypeLogout, LogoutFrame(sid)))

Next ==
    \/ onSocketReadable \/ onPeerClosed \/ onSocketShutdown
    \/ \E len \in KeyLens : KeyStrokes(len)
    \/ \E cols, rows \in Dims : WindowSize(cols, rows)
    \/ Login
    \/ Logout

Spec == Init /\ [][Next]_vars

-----------------------------------------------------------------------------
TypeOK ==
    /\ sent \in 0..Len(Stream)
    /\ inBuf \in Seq(Byte)
    /\ waiting \in 0..65535
    /\ lastCmd \in Byte
    /\ open \in BOOLEAN
    /\ fwd \in Seq(Byte)
    /\ disp \in Seq(Byte)
    /\ logins \in Nat
    /\ failed \in BOOLEAN
    /\ sid \in Byte
    /\ out \in Seq([cmd : Byte, hdr : Seq(Byte), plen : Nat])
    /\ calls \in 0..MaxCalls

\* Reference: the terminal bytes the device sent, in order.
TermPayload ==
    FlattenSeq([i \in DOMAIN Frames |->
                  IF Frames[i].cmd = msgTypeTermData THEN Frames[i].payload
                                                     ELSE <<>>])

\* Terminal-data integrity (do_msgTypeTermData, the waiting_for_bytes_
\* bookkeeping): however TCP chunks the stream, the bytes forwarded to the
\* client are always a prefix of the terminal bytes the device sent, and
\* all of them once the stream is delivered and the connection is open.
TermDataIntegrity ==
    /\ IsPrefix(fwd, TermPayload)
    /\ (sent = Len(Stream) /\ open) => fwd = TermPayload

\* The outcome of a read of the whole stream at once.
Whole == ReadLoop([buf |-> Stream, waiting |-> 0, lastCmd |-> 0, good |-> TRUE,
                   sendOK |-> TRUE,
                   fwd |-> <<>>, disp |-> <<>>, regs |-> <<>>, logins |-> 0,
                   sid |-> 0, out |-> <<>>])

\* Read-boundary invariance (spec section 8): the parse loop ends the
\* connection only if a read of the whole stream would, and once the whole
\* stream has been delivered onSocketReadable has forwarded, dispatched and
\* registered exactly as if the stream had arrived in one read.
ReadBoundaryInvariant ==
    /\ failed => ~Whole.good
    /\ (sent = Len(Stream) /\ open) =>
        /\ fwd = Whole.fwd
        /\ disp = Whole.disp
        /\ regs = Whole.regs
        /\ logins = Whole.logins

\* Framing (the switch of onSocketReadable): every header the loop parses
\* is the header of the next frame the device sent, so no payload byte is
\* ever taken for a command.
FramesInOrder == IsPrefix(disp, [i \in DOMAIN Frames |-> Frames[i].cmd])

\* Outbound framing (spec sections 4.1 and 8): every frame the server has
\* written to the device -- KeyStrokes, WindowSize, Login, Logout, the
\* heartbeat reply and the registration acknowledgment -- carries its
\* command and, big-endian, exactly the number of payload bytes written
\* after the header, so the device's parser stays in step with the stream.
OutboundFramesWellFormed ==
    \A k \in DOMAIN out : out[k].hdr = EncodeHeader(out[k].cmd, out[k].plen)

=============================================================================
