------------------------------- MODULE Codec -------------------------------
(***************************************************************************)
(* The wire codec of src/relay/relay_server.py, as pure operators over     *)
(* byte sequences (naturals 0..255).                                      *)
(*                                                                         *)
(* A text value (peer id, session code, IP) is a sequence of Unicode code  *)
(* points, which is what a Python str is: Len(str) is len(s) in the code,  *)
(* the number of characters. Encode(str) is str.encode() and Decode(b) is *)
(* bytes.decode('utf-8'); Decode returns [ok |-> FALSE] where Python       *)
(* raises UnicodeDecodeError.                                              *)
(*                                                                         *)
(* Python indexing payload[i] raises IndexError when i >= len(payload);    *)
(* slicing payload[lo:hi] never raises and truncates at the end.           *)
(***************************************************************************)
EXTENDS Integers, Sequences, SequencesExt

(* MessageType (IntEnum), lines 41-55. *)
KnownCodes == {1, 2, 3, 4, 5, 6, 7, 8, 16, 17, 18, 255}

(* The sanity check on the frame length, line 139. *)
MaxPayload == 10 * 1024 * 1024

Failed == [ok |-> FALSE]

-----------------------------------------------------------------------------
(* Bytes and integers *)

(* struct.pack('!H' / '!I', n): w bytes, big-endian. *)
BE(n, w) == [i \in 1..w |-> (n \div (256 ^ (w - i))) % 256]

(* struct.unpack of a big-endian unsigned integer. *)
FromBE(b) == FoldLeft(LAMBDA acc, x : (acc * 256) + x, 0, b)

(* payload[lo:hi] with 0-based lo and hi. *)
Slice(s, lo, hi) == SubSeq(s, lo + 1, IF hi < Len(s) THEN hi ELSE Len(s))

-----------------------------------------------------------------------------
(* UTF-8, as CPython's str.encode() and bytes.decode('utf-8') do it.       *)

Utf8(cp) ==
    CASE cp < 128   -> <<cp>>
      [] cp < 2048  -> <<192 + cp \div 64, 128 + (cp % 64)>>
      [] cp < 65536 -> <<224 + cp \div 4096, 128 + ((cp \div 64) % 64),
                         128 + (cp % 64)>>
      [] OTHER      -> <<240 + cp \div 262144, 128 + ((cp \div 4096) % 64),
                         128 + ((cp \div 64) % 64), 128 + (cp % 64)>>

Encode(str) == FlattenSeq([i \in DOMAIN str |-> Utf8(str[i])])

(* Length of the well-formed UTF-8 sequence at the head of b, 0 if b does *)
(* not start with one (a stray continuation byte, an overlong form, a     *)
(* surrogate, a code point above U+10FFFF or a truncated sequence).       *)
Utf8Width(b) ==
    LET b1 == b[1]
        lo2 == CASE b1 = 224 -> 160 [] b1 = 240 -> 144 [] OTHER -> 128
        hi2 == CASE b1 = 237 -> 159 [] b1 = 244 -> 143 [] OTHER -> 191
        Second == Len(b) >= 2 /\ b[2] \in lo2..hi2
        Cont(i) == Len(b) >= i /\ b[i] \in 128..191
    IN CASE b1 < 128                                       -> 1
         [] b1 \in 194..223 /\ Second                      -> 2
         [] b1 \in 224..239 /\ Second /\ Cont(3)           -> 3
         [] b1 \in 240..244 /\ Second /\ Cont(3) /\ Cont(4) -> 4
         [] OTHER                                          -> 0

CodePoint(u) ==
    LET lead == CASE Len(u) = 1 -> u[1]
                  [] Len(u) = 2 -> u[1] - 192
                  [] Len(u) = 3 -> u[1] - 224
                  [] OTHER      -> u[1] - 240
    IN FoldLeft(LAMBDA acc, x : (acc * 64) + (x - 128), lead, Tail(u))

RECURSIVE Decode(_)
Decode(b) ==
    IF b = <<>> THEN [ok |-> TRUE, str |-> <<>>]
    ELSE LET w == Utf8Width(b)
             rest == Decode(SubSeq(b, w + 1, Len(b)))
         IN IF w = 0 \/ ~rest.ok THEN Failed
            ELSE [ok |-> TRUE, str |-> <<CodePoint(SubSeq(b, 1, w))>> \o rest.str]

-----------------------------------------------------------------------------
(* Frames *)

(* _make_message: type byte, 4-byte big-endian length, payload. *)
MakeMessage(type, payload) == <<type>> \o BE(Len(payload), 4) \o payload

(* The header read of _handle_client: MessageType(header[0]) raises       *)
(* ValueError on an unknown code, which ends the read loop like the       *)
(* oversize check does; otherwise the payload of `length` bytes is read.  *)
ReadHeaderCapExclusive(h) ==
    LET length == FromBE(SubSeq(h, 2, 5))
    IN IF h[1] \notin KnownCodes \/ length >= MaxPayload
       THEN [verdict |-> "close"]
       ELSE [verdict |-> "read", type |-> h[1], length |-> length]

ReadHeader(h) ==
    LET length == FromBE(SubSeq(h, 2, 5))
    IN IF h[1] \notin KnownCodes \/ length > MaxPayload
       THEN [verdict |-> "close"]
       ELSE [verdict |-> "read", type |-> h[1], length |-> length]

-----------------------------------------------------------------------------
(* The REGISTER parser of _handle_register. `offset` after the session    *)
(* code slice still points at the slice's start; the guarded branch       *)
(* advances it by session_code_len before reading the private endpoint.   *)

AfterSessionNotAdvanced(offset, sessionCodeLen) == offset

AfterSession(offset, sessionCodeLen) == offset + sessionCodeLen

ParseRegister(p) ==
    LET idLen == p[1]
        idRaw == Decode(Slice(p, 1, 1 + idLen))
        o1    == 1 + idLen
        scLen == p[o1 + 1]
        o2    == o1 + 1
        scRaw == Decode(Slice(p, o2, o2 + scLen))
        o3    == AfterSession(o2, scLen)
        ipLen == p[o3 + 1]
        o4    == o3 + 1
        ipRaw == Decode(Slice(p, o4, o4 + ipLen))
        o5    == o4 + ipLen
        port  == IF Len(p) >= o5 + 2 THEN FromBE(Slice(p, o5, o5 + 2)) ELSE 0
        Parsed(ip, pt) == [ok |-> TRUE, id |-> idRaw.str, session |-> scRaw.str,
                           privIp |-> ip, privPort |-> pt]
    IN CASE Len(p) = 0 \/ o1 >= Len(p)         -> Failed  \* IndexError
         [] ~idRaw.ok \/ ~scRaw.ok              -> Failed
         [] ~(o2 + scLen < Len(p))              -> Parsed(<<>>, 0)
         [] ~(Len(p) > o3)                      -> Parsed(<<>>, 0)
         [] ~ipRaw.ok                           -> Failed
         [] OTHER                               -> Parsed(ipRaw.str, port)

-----------------------------------------------------------------------------
(* Payloads the server builds *)

(* One PEER_LIST entry (_handle_peer_list, _notify_session_peers): the    *)
(* id and IP length prefixes count the encoded bytes.                     *)
PeerEntryCharCount(id, ip, port) ==
    <<Len(id)>> \o Encode(id) \o <<Len(ip)>> \o Encode(ip) \o BE(port, 2)

PeerEntry(id, ip, port) ==
    <<Len(Encode(id))>> \o Encode(id) \o <<Len(Encode(ip))>> \o Encode(ip)
        \o BE(port, 2)

(* The join notification of _notify_session_peers: count 1, one entry. *)
NotifyPayload(id, ip, port) == <<1>> \o PeerEntry(id, ip, port)

(* The relayed DATA payload of _handle_relay_data. *)
RelayPayload(from, data) == <<Len(Encode(from))>> \o Encode(from) \o data

(* The CONNECT / CONNECT_ACK descriptor of _handle_connect_request: the   *)
(* prefixes are len() of the str, a character count. The private         *)
(* endpoint is appended when private_ip is non-empty.                     *)
ConnectDescriptor(id, ip, port, privIp, privPort) ==
    <<Len(id)>> \o Encode(id) \o <<Len(ip)>> \o Encode(ip) \o BE(port, 2)
        \o (IF privIp # <<>>
            THEN <<Len(privIp)>> \o Encode(privIp) \o BE(privPort, 2)
            ELSE <<>>)

(* The DISCONNECT payload of _remove_peer: bytes([len(peer_id)]) + ... *)
DisconnectPayload(id) == <<Len(id)>> \o Encode(id)

=============================================================================
