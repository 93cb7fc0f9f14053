---------------------------------- MODULE Dial ----------------------------------
(***************************************************************************)
(* The calls that reach the network, from the handle down (ffi.rs):        *)
(* connect_account and connect_account_with_proxy, whose worker runs the   *)
(* connect phase; register_account, which runs a registration, adds the    *)
(* account and connects it; and test_proxy, which runs one handshake.      *)
(***************************************************************************)
EXTENDS ConnectPhase, Registration

CONSTANTS
  Networks,      \* server fields and resolver answers: [server, dns]
  Plans,         \* further ones, to look only at the plan they lead to
  ProxyFields,   \* server fields of accounts that use a proxy
  Proxies,       \* proxies
  Registrars     \* registrations of the server

ASSUME DialAssumption ==
  /\ \A n \in Networks \cup Plans : n.dns \in Resolved
  /\ Registrars \subseteq [offers : BOOLEAN, asks : {"legacy", "other"}, owner : {"nobody", "other"}]

ASSUME ProxiesAssumption == \A p \in Proxies : Conforms(p)

\* The budgets of two groups and the head start of a third fit into the phase,
\* as late as the resolvers may answer.
ASSUME BudgetAssumption ==
  DNS_TOTAL_TIMEOUT + 2 * (HAPPY_EYEBALLS_HEAD_START + CONNECT_ATTEMPT_TIMEOUT)
    + HAPPY_EYEBALLS_HEAD_START <= CONNECT_PHASE_TIMEOUT

VARIABLES
  call,    \* the call in progress
  account  \* the connection state of the account in the core

vars == <<network, proxy, tunnel, dial, registrar, reg, call, account>>

NoProxy == [kind |-> "none"]
NoAnswers == [plain |-> <<>>, tls |-> <<>>, srv |-> <<>>, takes |-> 0]
NoRegistrar == [offers |-> FALSE, asks |-> "legacy", owner |-> "nobody"]
ServerNames(n) == server = n.server /\ dns = n.dns
Paths == {<<c.ip, c.tls>> : c \in ToSet(Attempts)}

TypeOK ==
  /\ call \in {"connect", "register", "probe", "session", "over"}
  /\ account \in {"Absent", "Connecting", "Online", "Offline", "Failed"}
  /\ dial.pc \in {"idle", "resolve", "groups", "head", "race", "proxy", "tunnel", "done"}
  /\ dial.elapsed \in 0..CONNECT_PHASE_TIMEOUT
  /\ tunnel.pc \in {"idle", "opening", "method", "auth", "reply", "headers", "done"}
  /\ reg.pc \in {"idle", "resolve", "next", "open", "done"} \cup Exchanging
  /\ reg.elapsed \in 0..REGISTRATION_PHASE_TIMEOUT
  /\ registrar.owner \in {"nobody", "other", "us"}

Init ==
  /\ tunnel = NoTunnel /\ dial = NoDial /\ reg = NoRegistration
  /\ \/ /\ call = "connect" /\ account = "Offline" /\ proxy = NoProxy /\ registrar = NoRegistrar
        /\ \/ (\E n \in Networks : ServerNames(n)) /\ net \in [Paths -> Behaviours]
           \/ (\E n \in Plans : ServerNames(n)) /\ net = [path \in Paths |-> "silent"]
     \/ /\ call = "connect" /\ account = "Offline" /\ proxy \in Proxies /\ registrar = NoRegistrar
        /\ server \in ProxyFields /\ dns = NoAnswers
        /\ net \in [{"tunnel"} \X {TRUE} -> Behaviours]
     \/ /\ call = "register" /\ account = "Absent" /\ proxy = NoProxy /\ registrar \in Registrars
        /\ \E n \in Networks : ServerNames(n)
        /\ server.suffix = "none"  \* it is the domain of the new address
        /\ net \in [Paths -> Behaviours \ {"rejects", "busy"}]
     \/ /\ call = "probe" /\ account = "Absent" /\ proxy \in Proxies /\ registrar = NoRegistrar
        /\ server \in ProxyFields /\ dns = NoAnswers
        /\ net = [path \in {"tunnel"} \X {TRUE} |-> "silent"]

-----------------------------------------------------------------------------
(* Calls. *)

\* connect_with_proxy and TokioXmppTransport::connect: the strategy is that of
\* the proxy, and a server field that does not parse is refused at once.
StartSession ==
  IF SplitHostAndPort(server) = Malformed
  THEN account' = "Failed" /\ call' = "over" /\ UNCHANGED dial
  ELSE /\ account' = "Connecting" /\ call' = "session"
       /\ dial' = [NoDial EXCEPT !.pc = IF proxy = NoProxy THEN "resolve" ELSE "proxy"]

ConnectAccount ==
  /\ call = "connect"
  /\ StartSession
  /\ UNCHANGED <<network, proxy, tunnel, registrar, reg>>

\* The terminal event of the phase, as the core applies it.
SessionStarts ==
  /\ call = "session" /\ dial.pc = "done"
  /\ account' = CASE dial.result.is = "ready" -> "Online"
                  [] dial.result.is = "failed" ->
                       IF dial.result.with.recoverable THEN "Offline" ELSE "Failed"
  /\ call' = "over"
  /\ UNCHANGED <<network, proxy, tunnel, dial, registrar, reg>>

\* register_account: the account is added and connected only after register
\* returned, and never through a proxy.
RegisterBegins ==
  /\ call = "register" /\ reg.pc = "idle"
  /\ reg' = [reg EXCEPT !.pc = "resolve"]
  /\ UNCHANGED <<network, proxy, tunnel, dial, registrar, call, account>>

RegisterReturns ==
  /\ call = "register" /\ reg.pc = "done"
  /\ IF reg.result = "ok" THEN StartSession
     ELSE call' = "over" /\ UNCHANGED <<account, dial>>
  /\ UNCHANGED <<network, proxy, tunnel, registrar, reg>>

\* test_proxy and proxy_probe: one handshake with the proxy itself as its
\* target, under a limit of its own.
ProbeBegins ==
  /\ call = "probe" /\ tunnel.pc = "idle"
  /\ tunnel' = [NoTunnel EXCEPT !.pc = "opening"]
  /\ UNCHANGED <<network, proxy, dial, registrar, reg, call, account>>

ProbeReturns ==
  /\ call = "probe" /\ tunnel.pc # "idle"
  /\ tunnel.pc = "done" \/ Waits
  /\ call' = "over"
  /\ UNCHANGED <<network, proxy, tunnel, dial, registrar, reg, account>>

Worker == call = "session" /\ DialStep /\ UNCHANGED <<network, proxy, registrar, reg, call, account>>
Registers == call = "register" /\ RegStep /\ UNCHANGED <<network, proxy, tunnel, dial, call, account>>
Probes == call = "probe" /\ TunnelStep /\ UNCHANGED <<network, proxy, dial, registrar, reg, call, account>>

Next ==
  \/ ConnectAccount \/ SessionStarts \/ RegisterBegins \/ RegisterReturns
  \/ ProbeBegins \/ ProbeReturns
  \/ Worker \/ Registers \/ Probes

\* A worker, a registration and a timer do not stop.
Fairness ==
  /\ WF_vars(Next)
  /\ WF_vars(/\ call = "session" /\ ProxyTimesOut
             /\ UNCHANGED <<network, proxy, registrar, reg, call, account>>)

Spec == Init /\ [][Next]_vars /\ Fairness

-----------------------------------------------------------------------------
(* Properties. *)

\* The groups are the plan cut where the port or the TLS mode changes, and none
\* is empty (group_attempts, the expect of try_group).
GroupsCut(plan) ==
  LET groups == GroupAttempts(plan)
      mode(group) == {<<c.port, c.tls>> : c \in ToSet(group)}
  IN /\ FlattenSeq(groups) = plan
     /\ \A i \in DOMAIN groups :
          Cardinality(mode(groups[i])) = 1 /\ (i > 1 => mode(groups[i - 1]) # mode(groups[i]))

\* A domain's own addresses, and those a usable record of its SRV answers adds.
OwnAddresses == ToSet(ResolveHost(dns.plain, 5222, FALSE)) \cup ToSet(ResolveHost(dns.tls, 5223, TRUE))
UsableRecords == {r \in ToSet(dns.srv) : r.target # "."}
AddressesFrom(r) == ToSet(ResolveHost(r.addresses, r.port, r.port = 5223)) \ OwnAddresses

PutFirst(r, s) == r.priority < s.priority \/ (r.priority = s.priority /\ r.weight > s.weight)

\* Own addresses come before those of SRV targets, and an address of a target
\* comes before one that only targets behind it have
\* (resolve_endpoints_with, order_srv_candidates).
OrderKept(plan) ==
  LET before(c, d) == \E i, j \in DOMAIN plan : i < j /\ plan[i] = c /\ plan[j] = d
  IN \A d \in ToSet(plan) \ OwnAddresses :
       /\ \A c \in OwnAddresses : before(c, d)
       /\ \A r \in UsableRecords : \A c \in AddressesFrom(r) :
            (\A s \in UsableRecords : d \in AddressesFrom(s) => PutFirst(r, s)) => before(c, d)

\* Every address that was found is tried, and none twice (dedupe_candidates).
EachOnce(plan) ==
  /\ \A i, j \in DOMAIN plan : i # j => plan[i] # plan[j]
  /\ ToSet(plan) = OwnAddresses \cup UNION {AddressesFrom(r) : r \in UsableRecords}

\* The plan is what its comments say.
PlanIsFaithful ==
  dial.pc = "resolve" =>
  LET plan == Attempts
  IN /\ GroupsCut(plan)
     /\ SplitHostAndPort(server) = NoPort /\ server.host = "name" => OrderKept(plan) /\ EachOnce(plan)

\* The verdict of a phase has its reason: online only with a server that is,
\* failed for good only where credentials were refused, and given up before
\* the deadline only if no candidate was usable, or one of its own group
\* answered first with a failure (connect_attempt, try_group).
VerdictIsExplained ==
  dial.pc = "done" =>
    CASE dial.result.is = "ready" -> At(dial.result.with) = "online"
      [] dial.result.is = "failed" /\ proxy = NoProxy ->
           IF ~dial.result.with.recoverable
           THEN \E c \in dial.contacted : At(c) = "rejects"
           ELSE dial.elapsed < CONNECT_PHASE_TIMEOUT /\ dns.takes < DNS_TOTAL_TIMEOUT =>
                  \A group \in ToSet(Groups) :
                    (\E c \in ToSet(group) : At(c) = "online") =>
                      \E d \in ToSet(group) : At(d) \in {"busy", "dies"}
      [] OTHER -> TRUE

\* A group is dialled only after the one before it was silent or failed in a
\* way that a retry may cure: rejected credentials are not sent again
\* (terminal_if_auth, connect_attempt: "Fail fast without a second handshake").
NoRetryAfterVerdict ==
  dial.pc = "head" =>
  LET groups == Groups
      i == Len(groups) - Len(dial.groups)
  IN i >= 1 => \/ \A c \in ToSet(groups[i]) : ~Answers(c)
               \/ \E c \in ToSet(groups[i]) : At(c) \in {"busy", "dies"}

\* Two dead groups leave time for a third, as slow as the resolvers may be: a
\* domain whose own addresses are dead is rescued by its first SRV target
\* (resolve_endpoints_with: "so SRV can still rescue SRV-dependent domains").
ThirdGroupIsReached ==
  dial.pc = "done" /\ proxy = NoProxy /\ dns.takes < DNS_TOTAL_TIMEOUT =>
  LET groups == Groups
  IN /\ Len(groups) >= 3
     /\ \A c \in ToSet(groups[1] \o groups[2]) : ~Answers(c)
     /\ \A c \in ToSet(groups[3]) : At(c) = "online"
     => dial.result.is = "ready"

\* With a proxy the XMPP server is neither looked up nor dialled from here,
\* whatever fails (ConnectStrategy: "never silently falls back to a direct
\* connection").
ProxyNeverLeaks ==
  proxy # NoProxy => dial.lookups \subseteq {"proxy"} /\ dial.contacted \subseteq {"proxy"}

\* An account enters the core only when this call created it on the server,
\* and a password is submitted only to a server that offers the legacy flow
\* (register_account, registration_refusal, registration_attempt).
RegisteredMeansCreated ==
  /\ reg.submitted # {} => registrar.offers /\ registrar.asks = "legacy"
  /\ reg.result = "ok" \/ (reg.pc # "idle" /\ account # "Absent") =>
       registrar.owner = "us" /\ reg.submitted # {}

\* Every call ends, and leaves no account on Connecting (CONNECT_PHASE_TIMEOUT,
\* REGISTRATION_PHASE_TIMEOUT, PROBE_TIMEOUT).
AlwaysAnswers == <>[](call = "over" /\ account # "Connecting")

\* CHANGELOG: "Classified TLS certificate validation failures ... as terminal,
\* non-recoverable errors": a phase in which every server had a certificate
\* that fails verification ends with that error.
BadCertificateIsTerminal ==
  dial.pc = "done" /\ dial.contacted # {} /\ proxy = NoProxy
    /\ (\A c \in dial.contacted : At(c) = "badcert")
  => dial.result.with = Failure(FALSE, "TlsVerificationFailed")

\* run_registration: "Runs the XEP-0077 exchange against the first reachable
\* endpoint".
ReachableServerIsTried ==
  call = "over" /\ reg.pc = "done" /\ dns.takes < DNS_TOTAL_TIMEOUT
    /\ (\E i \in DOMAIN Attempts :
          /\ At(Attempts[i]) = "online"
          /\ \A j \in 1..(i - 1) : At(Attempts[j]) = "silent")
  => \E c \in reg.opened : At(c) = "online"

\* RegistrationAttemptError::Connection: "Another candidate may still succeed".
AnotherMaySucceed == reg.pc = "open" => registrar.owner # "us"

=============================================================================
