--------------------------------- MODULE MCDial ---------------------------------
(* Instances of Dial for TLC. *)
EXTENDS Dial

Field(bracket, host, suffix, port) ==
  [bracket |-> bracket, host |-> host, suffix |-> suffix, port |-> port]
Domain == Field("none", "name", "none", 0)
Endpoint(port) == Field("none", "name", "port", port)

Srv(priority, weight, target, addresses, port) ==
  [priority |-> priority, weight |-> weight, target |-> target, addresses |-> addresses, port |-> port]
Dns(plain, tls, srv, takes) == [plain |-> plain, tls |-> tls, srv |-> srv, takes |-> takes]
On(field, answers) == [server |-> field, dns |-> answers]

Backup == Srv(20, 0, "b", <<"s2">>, 5222)

\* Every order of answers that a phase tells apart: one address and two, a
\* domain with and without SRV, answers at once and almost too late.
DialNetworks ==
  {On(Endpoint(5222), Dns(<<"i1", "i2">>, <<>>, <<>>, 0)),
   On(Endpoint(5223), Dns(<<"i1">>, <<>>, <<>>, 32)),
   On(Field("none", "ip", "none", 0), Dns(<<>>, <<>>, <<>>, 0)),
   On(Domain, Dns(<<"i1", "i2">>, <<"i1">>, <<>>, 12)),
   On(Domain, Dns(<<"i1">>, <<"i1">>, <<Srv(10, 0, "a", <<"s1">>, 5222)>>, 31)),
   On(Domain, Dns(<<"i1">>, <<"i1">>, <<Srv(10, 0, "a", <<"s1">>, 5222), Srv(20, 0, "b", <<"s2">>, 5269)>>, 0)),
   On(Domain, Dns(<<"i1">>, <<>>, <<Srv(10, 0, "a", <<"s1">>, 5222)>>, 0)),
   On(Domain, Dns(<<>>, <<>>, <<>>, 0))}

\* Server fields of every form that an account may have: one without brackets
\* is not empty and has nothing but a port behind its host.
WideFields ==
  {f \in [bracket : {"none", "closed", "unclosed"}, host : {"name", "ip", "empty"},
          suffix : {"none", "port", "junk", "notnumber"}, port : {0, 5222}] :
     f.bracket = "none" => f.suffix # "junk" /\ (f.host = "empty" => f.suffix # "none")}

\* Every field, and SRV answers in any order.  A host that keeps its brackets
\* is no name that a resolver knows.
WidePlans ==
  {On(f, Dns(IF f.bracket = "closed" /\ f.suffix = "none" THEN <<>> ELSE <<"i1">>, <<>>, <<>>, 0)) :
     f \in WideFields}
  \cup
  {On(Domain, Dns(plain, tls, srv, 1)) :
     plain \in {<<>>, <<"i1", "i2", "i3">>}, tls \in {<<>>, <<"i1">>},
     srv \in SetToSeqs({Srv(10, 0, "a", <<"i1">>, 5222), Srv(10, 5, "b", <<"s1", "s2">>, 5223)})
       \cup SetToSeqs({Srv(10, 5, "a", <<"s1">>, 5222), Srv(20, 9, "b", <<"s2">>, 5222),
                       Srv(10, 7, "c", <<"s3">>, 5269), Srv(0, 0, ".", <<>>, 0)})}

Reply(rep, atyp, address) == <<5, rep, 0, atyp>> \o address \o <<0, 0>>
Zeros(n) == [i \in 1..n |-> 0]

Socks(password, greeting, auth, reply) ==
  [kind |-> "Socks5", password |-> password, reachable |-> TRUE, onGreeting |-> greeting,
   onAuth |-> auth, onConnect |-> reply, payload |-> IF Len(reply) < 4 THEN <<>> ELSE <<9>>]
Granted == Reply(0, 1, Zeros(4))

SocksProxies ==
  {Socks(password, greeting, <<1, 0>>, Granted) : password \in BOOLEAN,
     greeting \in {<<5, 0>>, <<5, 2>>, <<5, 255>>, <<5, 7>>, <<4, 0>>, <<5>>}}
  \cup {Socks(TRUE, <<5, 2>>, auth, Granted) : auth \in {<<1, 1>>, <<5, 0>>, <<1>>}}
  \cup {Socks(FALSE, <<5, 0>>, <<>>, reply) :
          reply \in {Reply(0, 4, Zeros(16)), Reply(0, 3, <<2, 0, 0>>), Reply(5, 1, Zeros(4)),
                     Reply(0, 9, <<>>), <<4, 0, 0, 1, 0, 0, 0, 0, 0, 0>>, <<5, 0>>}}
  \cup {[Socks(FALSE, <<5, 0>>, <<>>, Granted) EXCEPT !.reachable = FALSE]}

HttpProxies ==
  {[kind |-> "HttpConnect", password |-> password, reachable |-> TRUE, onGreeting |-> <<>>,
    onAuth |-> <<>>, onConnect |-> reply, payload |-> <<"data", "more">>] :
     password \in BOOLEAN,
     reply \in {<<"200", "blank">>, <<"200", "header", "blank">>, <<"407", "blank">>, <<"blank">>,
                <<"200", "header", "header", "header", "blank">>}}

AllProxies == SocksProxies \cup HttpProxies

\* A domain, an endpoint, an address in brackets and a field that is refused.
TunnelledFields ==
  {Domain, Endpoint(5222), Field("closed", "ip", "none", 0), Field("none", "name", "notnumber", 0)}

AllRegistrars ==
  [offers : BOOLEAN, asks : {"legacy", "other"}, owner : {"nobody", "other"}]

=============================================================================
