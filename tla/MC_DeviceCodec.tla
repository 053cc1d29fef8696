---------------------------- MODULE MC_DeviceCodec ----------------------------
(* Frame sequences a device sends, for the runs of DeviceCodec. *)
EXTENDS DeviceCodec

TD(p) == [cmd |-> msgTypeTermData, payload |-> p]

\* A 129-byte payload: its length byte 0x81 has the high bit set, so the
\* header decodes to 0 * 256 + (-127) where char is signed.
Long == [k \in 1..129 |-> k % 7]

\* Terminal output and one heartbeat: payloads of 0 to 8 bytes, some of
\* whose bytes are also command codes; every length is below 0x80.
TermFrames == << TD(<<1, 0, 3>>), [cmd |-> msgTypeHeartbeat, payload |-> <<>>], TD(<<>>), TD(<<3, 0, 0, 2, 9, 3>>), TD(<<7>>),
                 TD(<<0, 1, 4, 4, 6>>), TD(<<3, 3, 3>>), TD(<<2, 0, 1, 5, 5, 8, 0>>),
                 TD(<<1, 0, 3>>), TD(<<0, 0, 2, 9, 3, 1, 1, 1>>), TD(<<6, 6>>),
                 TD(<<>>), TD(<<4, 3, 2, 1, 0>>), TD(<<9>>) >>

\* Short output, the 129-byte output, and one more frame behind it.
SignedFrames == << TD(<<1, 2>>), TD(Long), TD(<<9, 3>>) >>

\* Terminal output, then the device's logout for session slot 0 (rtty sends
\* the sid as the logout payload), then more output.
LogoutFrames == << TD(<<5>>),
                   [cmd |-> msgTypeLogout, payload |-> <<0>>],
                   TD(<<7, 8>>) >>

\* A device's start of session: its register frame (id "AB", description
\* "C", token "D", each NUL-terminated), the server's login answer as the
\* device sends it back (error 0, sid 3), then terminal output.
RegisterFrames == << [cmd |-> msgTypeRegister, payload |-> <<65, 66, 0, 67, 0, 68, 0>>],
                     [cmd |-> msgTypeLogin, payload |-> <<0, 3>>],
                     TD(<<1, 2>>) >>
=============================================================================
