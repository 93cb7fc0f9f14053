------------------------------ MODULE ProxyTunnel ------------------------------
(***************************************************************************)
(* The handshake that opens a tunnel through a proxy (proxy.rs): SOCKS5    *)
(* with optional credentials, or HTTP CONNECT.                             *)
(*                                                                         *)
(* A SOCKS5 reply is a sequence of bytes, and is read from the socket      *)
(* itself by its exact length.  An HTTP reply is a sequence of lines, read *)
(* through a buffer that takes from the socket whatever has come.  What    *)
(* the tunnelled server sends first may follow the reply at once.          *)
(***************************************************************************)
EXTENDS Integers, SequencesExt

CONSTANT MAX_HTTP_RESPONSE_HEADER  \* MAX_HTTP_RESPONSE_HEADER_BYTES, in lines

VARIABLES
  proxy,   \* the proxy: [kind, password, reachable, onGreeting, onAuth, onConnect, payload]
  tunnel   \* the handshake: [pc, wire, buffer, headers, sent, result]

SOCKS5_VERSION == 5
SOCKS5_METHOD_NO_AUTH == 0
SOCKS5_METHOD_USER_PASS == 2
SOCKS5_ATYP_IPV4 == 1
SOCKS5_ATYP_DOMAIN == 3
SOCKS5_ATYP_IPV6 == 4

NoTunnel == [pc |-> "idle", wire |-> <<>>, buffer |-> <<>>, headers |-> <<>>, sent |-> {}, result |-> "none"]

-----------------------------------------------------------------------------
(* Parsing. *)

\* The methods of the greeting in socks5_handshake.
OfferedMethods ==
  {SOCKS5_METHOD_NO_AUTH} \cup (IF proxy.password THEN {SOCKS5_METHOD_USER_PASS} ELSE {})

\* parse_socks5_method_reply and the choice that socks5_handshake makes on it.
MethodOutcome(reply) ==
  IF reply[1] # SOCKS5_VERSION THEN "SocksProtocol"
  ELSE IF reply[2] = 255 THEN "SocksMethodRejected"
  ELSE IF reply[2] = SOCKS5_METHOD_NO_AUTH THEN "connect"
  ELSE IF reply[2] = SOCKS5_METHOD_USER_PASS /\ proxy.password THEN "auth"
  ELSE "SocksProtocol"

\* parse_socks5_auth_reply.
AuthOutcome(reply) ==
  IF reply[1] # 1 THEN "SocksProtocol" ELSE IF reply[2] # 0 THEN "SocksAuthRejected" ELSE "connect"

\* Variant: the byte that holds the length of a name is not counted.
ConnectReplyLengthShort(bytes) ==
  CASE bytes[4] = SOCKS5_ATYP_IPV4 -> 4 + 4 + 2
    [] bytes[4] = SOCKS5_ATYP_IPV6 -> 4 + 16 + 2
    [] bytes[4] = SOCKS5_ATYP_DOMAIN -> IF Len(bytes) < 5 THEN 5 ELSE 4 + bytes[5] + 2
    [] OTHER -> 0

\* read_socks5_connect_reply: how many bytes the reply has that begins with
\* header; zero for an address type that is not known.
ConnectReplyLength(bytes) ==
  CASE bytes[4] = SOCKS5_ATYP_IPV4 -> 4 + 4 + 2
    [] bytes[4] = SOCKS5_ATYP_IPV6 -> 4 + 16 + 2
    [] bytes[4] = SOCKS5_ATYP_DOMAIN -> IF Len(bytes) < 5 THEN 5 ELSE 4 + 1 + bytes[5] + 2
    [] OTHER -> 0

\* parse_socks5_connect_reply.
ConnectOutcome(reply) ==
  IF reply[1] # SOCKS5_VERSION \/ reply[3] # 0 THEN "SocksProtocol"
  ELSE IF reply[2] # 0 THEN "SocksConnectFailed"
  ELSE "ok"

\* parse_http_connect_response.
HttpOutcome(headers) ==
  CASE headers[1] = "200" -> "ok"
    [] headers[1] = "407" -> "HttpStatus"
    [] OTHER -> "HttpMalformed"

-----------------------------------------------------------------------------
(* What a proxy sends. *)

\* How long a SOCKS5 reply is that begins so (RFC 1928): a header, an address by
\* its type, where a name has its length before it, and a port.
SocksAddressTypes == {1, 3, 4}
SocksReplyLength(reply) ==
  LET name == IF Len(reply) < 5 THEN 0 ELSE reply[5]
  IN 4 + (CASE reply[4] = 1 -> 4 [] reply[4] = 3 -> 1 + name [] reply[4] = 4 -> 16) + 2

\* The replies of a proxy p are no longer than what it was asked for, right or
\* wrong, and the server's first bytes come only behind a whole reply: a SOCKS5
\* reply has the length that its address type says, an HTTP reply ends with its
\* first blank line.
Conforms(p) ==
  \/ /\ p.kind = "Socks5"
     /\ {p.onGreeting, p.onAuth, p.onConnect, p.payload} \subseteq Seq(Nat)
     /\ Len(p.onGreeting) <= 2 /\ Len(p.onAuth) <= 2
     /\ Len(p.onConnect) >= 4 /\ p.onConnect[4] \in SocksAddressTypes =>
          /\ Len(p.onConnect) <= SocksReplyLength(p.onConnect)
          /\ p.payload # <<>> => Len(p.onConnect) = SocksReplyLength(p.onConnect)
     /\ p.payload # <<>> => Len(p.onConnect) >= 4
  \/ /\ p.kind = "HttpConnect"
     /\ {p.onConnect, p.payload} \subseteq Seq(STRING)
     /\ \A i \in 1..(Len(p.onConnect) - 1) : p.onConnect[i] # "blank"
     /\ p.payload # <<>> => p.onConnect # <<>> /\ Last(p.onConnect) = "blank"

-----------------------------------------------------------------------------
(* The handshake. *)

Ends(result) == tunnel' = [tunnel EXCEPT !.pc = "done", !.result = result]

\* http_connect_request: the credentials go with it, asked for or not.
HttpRequest == {"connect"} \cup (IF proxy.password THEN {"password"} ELSE {})

\* http_connect_handshake, up to its first read.
HttpBegins ==
  [NoTunnel EXCEPT !.pc = "headers", !.wire = proxy.onConnect \o proxy.payload, !.sent = HttpRequest]

\* connect_via_proxy: each call opens a connection of its own.
TunnelOpens ==
  /\ tunnel.pc = "opening"
  /\ IF ~proxy.reachable THEN Ends("Io")
     ELSE tunnel' =
       IF proxy.kind = "Socks5"
       THEN [NoTunnel EXCEPT !.pc = "method", !.wire = proxy.onGreeting, !.sent = {"greeting"}]
       ELSE HttpBegins

\* What the next read needs is not there.
Waits ==
  LET have == Len(tunnel.buffer) + Len(tunnel.wire)
  IN CASE tunnel.pc \in {"method", "auth"} -> have < 2
       [] tunnel.pc = "reply" -> have < (IF have < 4 THEN 4 ELSE ConnectReplyLength(tunnel.wire))
       [] tunnel.pc = "headers" -> have < 1
       [] OTHER -> FALSE

Rest(n) == SubSeq(tunnel.wire, n + 1, Len(tunnel.wire))

SendConnect ==
  tunnel' = [tunnel EXCEPT !.pc = "reply", !.sent = @ \cup {"connect"},
                           !.wire = Rest(2) \o proxy.onConnect \o proxy.payload]

ReadMethod ==
  /\ tunnel.pc = "method" /\ ~Waits
  /\ LET outcome == MethodOutcome(tunnel.wire) IN
       CASE outcome = "connect" -> SendConnect
         [] outcome = "auth" -> tunnel' = [tunnel EXCEPT !.pc = "auth", !.sent = @ \cup {"password"},
                                                         !.wire = Rest(2) \o proxy.onAuth]
         [] OTHER -> Ends(outcome)

ReadAuth ==
  /\ tunnel.pc = "auth" /\ ~Waits
  /\ IF AuthOutcome(tunnel.wire) = "connect" THEN SendConnect ELSE Ends(AuthOutcome(tunnel.wire))

ReadReply ==
  /\ tunnel.pc = "reply" /\ ~Waits
  /\ LET length == ConnectReplyLength(tunnel.wire)
     IN tunnel' = [tunnel EXCEPT !.pc = "done", !.wire = Rest(length),
                       !.result = IF length = 0 THEN "SocksProtocol" ELSE ConnectOutcome(tunnel.wire)]

\* An empty buffer takes some of what has come.
FillBuffer ==
  /\ tunnel.pc = "headers" /\ tunnel.buffer = <<>>
  /\ \E n \in 1..Len(tunnel.wire) :
       tunnel' = [tunnel EXCEPT !.buffer = SubSeq(tunnel.wire, 1, n), !.wire = Rest(n)]

\* read_http_response_headers, one line.
ReadHeader ==
  /\ tunnel.pc = "headers" /\ tunnel.buffer # <<>>
  /\ LET headers == Append(tunnel.headers, Head(tunnel.buffer))
         done == Len(headers) > MAX_HTTP_RESPONSE_HEADER \/ Last(headers) = "blank"
     IN tunnel' = [tunnel EXCEPT
          !.buffer = Tail(@), !.headers = headers,
          !.pc = IF done THEN "done" ELSE @,
          !.result = IF ~done THEN @
                     ELSE IF Len(headers) > MAX_HTTP_RESPONSE_HEADER THEN "HttpMalformed"
                     ELSE HttpOutcome(headers)]

\* The proxy closes where a reply should come.
ProxyCloses == Waits /\ Ends(IF tunnel.pc = "headers" THEN "HttpMalformed" ELSE "Io")

TunnelStep ==
  \/ TunnelOpens \/ ReadMethod \/ ReadAuth \/ ReadReply \/ FillBuffer \/ ReadHeader \/ ProxyCloses

-----------------------------------------------------------------------------
(* Properties. *)

\* An open tunnel is granted and intact: the proxy chose a method that was
\* offered, accepted the credentials if it asked for them and gave the one
\* reply that means success; and the tunnel hands on what the server sends,
\* whole and from its first byte, as the handshake takes exactly its own reply
\* and what the buffer took too much is still in it (connect_via_proxy:
\* "retains any bytes the HTTP response parser over-read, so the tunneled
\* stream is not corrupted").
TunnelIsSound ==
  tunnel.result = "ok" =>
    /\ tunnel.buffer \o tunnel.wire = proxy.payload
    /\ IF proxy.kind = "Socks5"
       THEN /\ proxy.onGreeting[1] = 5 /\ proxy.onGreeting[2] \in OfferedMethods
            /\ proxy.onGreeting[2] = 2 => proxy.onAuth = <<1, 0>>
            /\ proxy.onConnect[1] = 5 /\ proxy.onConnect[2] = 0
       ELSE proxy.onConnect[1] = "200"

=============================================================================
