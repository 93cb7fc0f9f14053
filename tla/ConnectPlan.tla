------------------------------ MODULE ConnectPlan ------------------------------
(***************************************************************************)
(* Which endpoints a connection tries, and in which order (xmpp.rs): the   *)
(* server field of an account, the answers of the resolvers, the ordered   *)
(* candidates and the groups that race; and what a tunnel is asked for     *)
(* instead (proxy.rs).  A time is a number of quarters of a second.        *)
(***************************************************************************)
EXTENDS Integers, FiniteSets, SequencesExt, TLC

CONSTANTS
  MAX_ADDRESSES_PER_PORT,
  DNS_TOTAL_TIMEOUT,
  HAPPY_EYEBALLS_HEAD_START,
  CONNECT_ATTEMPT_TIMEOUT,
  CONNECT_PHASE_TIMEOUT,
  REGISTRATION_READ_TIMEOUT,
  REGISTRATION_PHASE_TIMEOUT

ASSUME ConnectPlanAssumption ==
  {MAX_ADDRESSES_PER_PORT, DNS_TOTAL_TIMEOUT, HAPPY_EYEBALLS_HEAD_START, CONNECT_ATTEMPT_TIMEOUT,
   CONNECT_PHASE_TIMEOUT, REGISTRATION_READ_TIMEOUT, REGISTRATION_PHASE_TIMEOUT} \subseteq Nat \ {0}

VARIABLES
  server,  \* the server field: [bracket, host, suffix, port]
  dns,     \* the resolvers' answers: [plain, tls, srv, takes]
  net      \* what answers at each address and TLS mode

network == <<server, dns, net>>

\* What the resolvers answer: addresses of the name with each port, SRV
\* records with those of their targets, and the time it takes.
Resolved ==
  [plain : Seq(STRING), tls : Seq(STRING), takes : Nat,
   srv : Seq([target : STRING, port : Nat, priority : Nat, weight : Nat, addresses : Seq(STRING)])]

-----------------------------------------------------------------------------
(* The server field. *)

Malformed == [form |-> "malformed"]
NoPort == [form |-> "noport"]

\* split_host_and_port and parse_endpoint of xmpp.rs.
SplitHostAndPort(field) ==
  IF field.bracket = "unclosed" \/ field.suffix \in {"junk", "notnumber"} THEN Malformed
  ELSE IF field.suffix = "none" THEN NoPort
  ELSE IF field.host = "empty" \/ field.port = 0 THEN Malformed
  ELSE [form |-> "endpoint", host |-> field.host, port |-> field.port]

\* ProxyTarget::from_server with its own split_host_and_port and
\* validate_host: a field without a port is taken verbatim, brackets included.
ProxyTargetOf(field) ==
  IF field.bracket = "unclosed" \/ field.suffix \in {"junk", "notnumber"} THEN Malformed
  ELSE IF field.suffix = "none"
       THEN [form |-> "endpoint", port |-> 5223,
             host |-> IF field.bracket = "closed" THEN "bracketed" ELSE field.host]
  ELSE IF field.host = "empty" \/ field.port = 0 THEN Malformed
  ELSE [form |-> "endpoint", host |-> field.host, port |-> field.port]

-----------------------------------------------------------------------------
(* Candidates. *)

Candidate(ip, port, tls) == [ip |-> ip, port |-> port, tls |-> tls]

\* resolve_host: at most MAX_ADDRESSES_PER_PORT addresses; none is a failure.
ResolveHost(addresses, port, tls) ==
  [i \in 1..(IF Len(addresses) < MAX_ADDRESSES_PER_PORT THEN Len(addresses)
             ELSE MAX_ADDRESSES_PER_PORT) |-> Candidate(addresses[i], port, tls)]

\* Variant: the lightest record comes first.
SrvBeforeLight(records, i, j) ==
  \/ records[i].priority < records[j].priority
  \/ /\ records[i].priority = records[j].priority
     /\ \/ records[i].weight < records[j].weight
        \/ records[i].weight = records[j].weight /\ i < j

\* Whether sort_by puts record i before record j: it is stable.
SrvBefore(records, i, j) ==
  \/ records[i].priority < records[j].priority
  \/ /\ records[i].priority = records[j].priority
     /\ \/ records[i].weight > records[j].weight
        \/ records[i].weight = records[j].weight /\ i < j

\* order_srv_candidates, as the order of the records' numbers: each stands
\* behind those that come before it.  One that points at the root names no host.
OrderSrv(records) ==
  LET usable == {i \in DOMAIN records : records[i].target # "."}
      before(i) == {j \in usable : SrvBefore(records, j, i)}
  IN [k \in 1..Cardinality(usable) |-> CHOOSE i \in usable : Cardinality(before(i)) = k - 1]

\* srv_endpoints.
SrvEndpoints(answers) ==
  LET order == OrderSrv(answers.srv)
      resolved(r) == ResolveHost(r.addresses, r.port, r.port = 5223)
  IN FlattenSeq([k \in DOMAIN order |-> resolved(answers.srv[order[k]])])

\* dedupe_candidates keeps the first of equal candidates.
DedupeCandidates(attempts) ==
  LET kept[i \in 0..Len(attempts)] ==
        IF i = 0 THEN <<>>
        ELSE IF \E j \in 1..(i - 1) : attempts[j] = attempts[i] THEN kept[i - 1]
        ELSE Append(kept[i - 1], attempts[i])
  IN kept[Len(attempts)]

\* resolve_endpoints_with, but for its timeout; no candidate is an error.
ResolveEndpoints(field, answers) ==
  CASE SplitHostAndPort(field) = Malformed -> <<>>
    [] SplitHostAndPort(field).form = "endpoint" ->
         ResolveHost(answers.plain, field.port, field.port = 5223)
    [] SplitHostAndPort(field) = NoPort /\ field.host = "ip" /\ field.bracket = "none" ->
         <<Candidate("literal", 5222, FALSE), Candidate("literal", 5223, TRUE)>>
    [] OTHER ->
         DedupeCandidates(ResolveHost(answers.plain, 5222, FALSE) \o ResolveHost(answers.tls, 5223, TRUE)
                            \o SrvEndpoints(answers))

\* group_attempts: a candidate joins the last group if that has its port and TLS
\* mode.
GroupAttempts(attempts) ==
  LET joins(i) == /\ i > 1
                  /\ attempts[i].port = attempts[i - 1].port /\ attempts[i].tls = attempts[i - 1].tls
      groups[i \in 0..Len(attempts)] ==
        IF i = 0 THEN <<>>
        ELSE LET before == groups[i - 1]
             IN IF joins(i) THEN [before EXCEPT ![Len(before)] = Append(@, attempts[i])]
                ELSE Append(before, <<attempts[i]>>)
  IN groups[Len(attempts)]

\* What the account's server is reached by, one by one and in groups.
Attempts == ResolveEndpoints(server, dns)
Groups == GroupAttempts(Attempts)

-----------------------------------------------------------------------------
(* What a candidate's first event says. *)

Failure(recoverable, kind) == [recoverable |-> recoverable, kind |-> kind]
NetworkLost == Failure(TRUE, "NetworkLost")

\* What answers there.  A client retries a refused connection and a
\* certificate it does not trust without a word, so both look silent to it.
Behaviours == {"online", "rejects", "busy", "dies", "silent", "badcert"}
At(c) == net[<<c.ip, c.tls>>]
Answers(c) == At(c) \in {"online", "rejects", "busy", "dies"}

\* Variant: every refusal of the credentials is final.
FirstEventFailureFinal(c) ==
  IF At(c) \in {"rejects", "busy"} THEN Failure(FALSE, "AuthenticationFailed") ELSE NetworkLost

\* terminal_failure_for_event with disconnected_is_recoverable, is_auth_error
\* and classify_disconnect: a temporary refusal of the credentials and a
\* connection that dies in the negotiation are recoverable.
FirstEventFailure(c) ==
  CASE At(c) = "rejects" -> Failure(FALSE, "AuthenticationFailed")
    [] At(c) = "busy" -> Failure(TRUE, "AuthenticationFailed")
    [] At(c) = "dies" -> NetworkLost

=============================================================================
