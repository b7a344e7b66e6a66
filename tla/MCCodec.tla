------------------------------ MODULE MCCodec ------------------------------
(***************************************************************************)
(* Checks the operators of Codec against the layouts of spec.md sections   *)
(* 4.1 and 4.4, read by a reference decoder written from those layouts.    *)
(* The single variable `case` holds one input; Init enumerates every       *)
(* input of the bounded domain and each invariant checks the kind it is    *)
(* about.                                                                  *)
(***************************************************************************)
EXTENDS Codec

CONSTANTS CodePoints,  \* code points text values are made of
          MaxChars,    \* longest peer id or session code enumerated
          Ports,       \* port numbers
          Lengths      \* announced frame lengths

VARIABLE case

Strs == SeqOf(CodePoints, MaxChars)
IpStrs == SeqOf(CodePoints, 1)
Payloads == {<<>>, <<0>>, <<255, 1, 2>>}

(* The optional private endpoint of REGISTER and of a descriptor. *)
Privs == [given : {FALSE}, ip : {<<>>}, port : {0}]
         \cup [given : {TRUE}, ip : IpStrs, port : Ports]

-----------------------------------------------------------------------------
(* Reference layouts (spec.md 4.4): every length prefix is one byte that  *)
(* counts the UTF-8 bytes of the string after it.                         *)

LenPrefixed(str) == <<Len(Encode(str))>> \o Encode(str)

RegisterLayout(id, s, pv) ==
    LenPrefixed(id) \o LenPrefixed(s)
        \o (IF pv.given THEN LenPrefixed(pv.ip) \o BE(pv.port, 2) ELSE <<>>)

ReadStr(b, off) ==
    IF Len(b) < off + 1 \/ Len(b) < off + 1 + b[off + 1] THEN Failed
    ELSE LET n == b[off + 1]
             d == Decode(SubSeq(b, off + 2, off + 1 + n))
         IN IF d.ok THEN [ok |-> TRUE, str |-> d.str, next |-> off + 1 + n]
            ELSE Failed

ReadPort(b, off) ==
    IF Len(b) < off + 2 THEN Failed
    ELSE [ok |-> TRUE, port |-> FromBE(SubSeq(b, off + 1, off + 2)),
          next |-> off + 2]

NoEndpoint == [ip |-> <<>>, port |-> 0]

(* id | ip | port, then an optional ip | port; the whole payload is read. *)
ReadEndpoint(b, off, withPriv) ==
    LET i == ReadStr(b, off)
        a == ReadStr(b, i.next)
        p == ReadPort(b, a.next)
        pa == ReadStr(b, p.next)
        pp == ReadPort(b, pa.next)
        Ep(pv, next) == [ok |-> TRUE, id |-> i.str, ip |-> a.str,
                         port |-> p.port, priv |-> pv, next |-> next]
    IN CASE ~i.ok \/ ~a.ok \/ ~p.ok                 -> Failed
         [] ~withPriv \/ p.next = Len(b)            -> Ep(NoEndpoint, p.next)
         [] ~pa.ok \/ ~pp.ok                        -> Failed
         [] OTHER -> Ep([ip |-> pa.str, port |-> pp.port], pp.next)

-----------------------------------------------------------------------------
Cases ==
         [kind : {"frame"}, type : KnownCodes, payload : Payloads]
    \cup [kind : {"header"}, type : KnownCodes, length : Lengths]
    \cup [kind : {"register"}, id : Strs, session : Strs, priv : Privs]
    \cup [kind : {"peer"}, id : Strs, ip : IpStrs, port : Ports]
    \cup [kind : {"relay"}, id : Strs, data : Payloads]
    \cup [kind : {"intro"}, id : Strs, ip : IpStrs, port : Ports, priv : Privs]

Init == case \in Cases
Next == UNCHANGED case
Spec == Init /\ [][Next]_case

-----------------------------------------------------------------------------
(* Framing (_make_message, the header read of _handle_client): a frame    *)
(* the server builds is read back with its type, length and payload, and  *)
(* a header is read exactly when its length is at most 10 * 2^20 bytes    *)
(* (spec 4.1 and the boundary cases of section 8).                        *)
FrameCodec ==
    /\ case.kind = "frame" =>
         LET f == MakeMessage(case.type, case.payload)
             h == ReadHeader(SubSeq(f, 1, 5))
         IN /\ h.verdict = "read"
            /\ h.type = case.type /\ h.length = Len(case.payload)
            /\ SubSeq(f, 6, Len(f)) = case.payload
    /\ case.kind = "header" =>
         LET h == ReadHeader(<<case.type>> \o BE(case.length, 4))
         IN IF case.length <= 10 * 2^20
            THEN h.verdict = "read" /\ h.length = case.length
            ELSE h.verdict = "close"

(* _handle_register decodes every REGISTER laid out as spec 4.4 says,     *)
(* with and without the optional private endpoint, into the fields that   *)
(* were laid out (the offset arithmetic around the session code slice).   *)
RegisterLayoutParsed ==
    case.kind = "register" =>
        ParseRegister(RegisterLayout(case.id, case.session, case.priv))
          = [ok |-> TRUE, id |-> case.id, session |-> case.session,
             privIp |-> case.priv.ip, privPort |-> case.priv.port]

(* The PEER_LIST entries and relayed DATA payloads the server builds are  *)
(* read back by a client that follows spec 4.4, for any UTF-8 peer id.    *)
ByteCountedRoundTrip ==
    /\ case.kind = "peer" =>
         LET b == NotifyPayload(case.id, case.ip, case.port)
             e == ReadEndpoint(b, 1, FALSE)
         IN b[1] = 1 /\ e.ok /\ e.next = Len(b)
            /\ e.id = case.id /\ e.ip = case.ip /\ e.port = case.port
    /\ case.kind = "relay" =>
         LET b == RelayPayload(case.id, case.data)
             i == ReadStr(b, 0)
         IN i.ok /\ i.str = case.id /\ SubSeq(b, i.next + 1, Len(b)) = case.data

(* The CONNECT / CONNECT_ACK descriptors and the DISCONNECT payload the   *)
(* server builds are read back by a client that follows spec 4.4, for any *)
(* UTF-8 peer id and private IP (_handle_connect_request, _remove_peer).  *)
IntroductionRoundTrip ==
    case.kind = "intro" =>
        LET b == ConnectDescriptor(case.id, case.ip, case.port,
                                   case.priv.ip, case.priv.port)
            e == ReadEndpoint(b, 0, TRUE)
            d == ReadStr(DisconnectPayload(case.id), 0)
        IN /\ e.ok /\ e.next = Len(b)
           /\ e.id = case.id /\ e.ip = case.ip /\ e.port = case.port
           /\ e.priv = IF case.priv.ip # <<>>
                       THEN [ip |-> case.priv.ip, port |-> case.priv.port]
                       ELSE NoEndpoint
           /\ d.ok /\ d.str = case.id
=============================================================================
