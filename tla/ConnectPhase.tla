------------------------------ MODULE ConnectPhase ------------------------------
(***************************************************************************)
(* The connect phase of a worker (run_worker, connect_attempt, try_group,  *)
(* connect_attempt_proxy): the groups of candidates in order, the head     *)
(* start of the first address of each and the race of all of them, the     *)
(* budget of a group and the deadline of the phase; or one attempt through *)
(* a tunnel.                                                               *)
(*                                                                         *)
(* A server that answers does so at once, or after the head start; time    *)
(* passes otherwise only when a timeout runs out.  A client never ends     *)
(* without an event (client.next() returning None), so the branches for it *)
(* are left out.                                                           *)
(***************************************************************************)
EXTENDS ConnectPlan, ProxyTunnel

VARIABLE dial  \* [pc, groups, racing, last, elapsed, result, lookups, contacted]

NoDial == [pc |-> "idle", groups |-> <<>>, racing |-> {}, last |-> NetworkLost, elapsed |-> 0,
           result |-> [is |-> "none"], lookups |-> {}, contacted |-> {}]

Ready(c) == [is |-> "ready", with |-> c]
Failed(failure) == [is |-> "failed", with |-> failure]

Done(result) == [dial EXCEPT !.pc = "done", !.racing = {}, !.result = result]

\* What the phase is after t: its deadline, if that comes first.
After(t, next) ==
  IF dial.elapsed + t >= CONNECT_PHASE_TIMEOUT
  THEN [Done(Failed(NetworkLost)) EXCEPT !.elapsed = CONNECT_PHASE_TIMEOUT]
  ELSE [next EXCEPT !.elapsed = dial.elapsed + t]

\* Variant: every group that fails is only remembered.
GroupFailsOn(failure) ==
  [dial EXCEPT !.pc = "groups", !.racing = {}, !.last = failure, !.groups = Tail(@)]

\* A group that fails ends the phase if no other candidate can help
\* (terminal_if_auth), and is remembered otherwise.
GroupFails(failure) ==
  IF failure.recoverable
  THEN [dial EXCEPT !.pc = "groups", !.racing = {}, !.last = failure, !.groups = Tail(@)]
  ELSE Done(Failed(failure))

\* first_event_to_ready.
FirstEventOf(c) == IF At(c) = "online" THEN Done(Ready(c)) ELSE GroupFails(FirstEventFailure(c))

-----------------------------------------------------------------------------
(* Direct connections. *)

\* resolve_endpoints_with answers with the plan, or DNS_TOTAL_TIMEOUT runs out.
Resolve ==
  /\ dial.pc = "resolve"
  /\ \E plan \in {Attempts} : dial' =
       LET asked == [dial EXCEPT !.lookups = @ \cup {"xmpp"}, !.pc = "groups", !.groups = GroupAttempts(plan)]
       IN IF dns.takes >= DNS_TOTAL_TIMEOUT
          THEN [Done(Failed(NetworkLost)) EXCEPT !.lookups = asked.lookups, !.elapsed = DNS_TOTAL_TIMEOUT]
          ELSE IF plan = <<>> THEN [Done(Failed(NetworkLost)) EXCEPT !.lookups = asked.lookups]
          ELSE After(dns.takes, asked)
  /\ UNCHANGED tunnel

\* connect_attempt takes the next group, or returns the last failure.
NextGroup ==
  /\ dial.pc = "groups"
  /\ dial' = IF dial.groups = <<>> THEN Done(Failed(dial.last))
             ELSE LET first == Head(Head(dial.groups))
                  IN [dial EXCEPT !.pc = "head", !.racing = {first}, !.contacted = @ \cup {first}]
  /\ UNCHANGED tunnel

\* Variant: the first address has the time of an attempt before the others race.
HeadStartIsAttempt ==
  /\ dial.pc = "head"
  /\ LET group == ToSet(Head(dial.groups))
     IN dial' = After(CONNECT_ATTEMPT_TIMEOUT,
                      [dial EXCEPT !.pc = "race", !.racing = group, !.contacted = @ \cup group])
  /\ UNCHANGED tunnel

HeadStartElapses ==
  /\ dial.pc = "head"
  /\ LET group == ToSet(Head(dial.groups))
     IN dial' = After(HAPPY_EYEBALLS_HEAD_START,
                      [dial EXCEPT !.pc = "race", !.racing = group, !.contacted = @ \cup group])
  /\ UNCHANGED tunnel

\* The first event of any client that runs decides for all of them.
FirstEvent ==
  /\ dial.pc \in {"head", "race"}
  /\ \E c \in dial.racing : Answers(c) /\ dial' = FirstEventOf(c)
  /\ UNCHANGED tunnel

GroupTimesOut ==
  /\ dial.pc = "race" /\ \A c \in dial.racing : ~Answers(c)
  /\ dial' = After(CONNECT_ATTEMPT_TIMEOUT, GroupFails(NetworkLost))
  /\ UNCHANGED tunnel

-----------------------------------------------------------------------------
(* Connections through a proxy. *)

\* connect_attempt_proxy: the target is what the server field says, and only
\* the name of the proxy is looked up here.
DialProxy ==
  /\ dial.pc = "proxy"
  /\ IF ProxyTargetOf(server) = Malformed
     THEN dial' = Done(Failed(Failure(TRUE, "Unknown"))) /\ UNCHANGED tunnel
     ELSE /\ dial' = [dial EXCEPT !.pc = "tunnel", !.lookups = {"proxy"}, !.contacted = {"proxy"}]
          /\ tunnel' = [NoTunnel EXCEPT !.pc = "opening"]

\* ProxyServerConnector: TLS and the stream run inside the tunnel.
ThroughTunnel == Candidate("tunnel", ProxyTargetOf(server).port, TRUE)

TunnelledEvent ==
  /\ dial.pc = "tunnel" /\ tunnel.result = "ok" /\ Answers(ThroughTunnel)
  /\ dial' = IF At(ThroughTunnel) = "online" THEN Done(Ready(ThroughTunnel))
             ELSE Done(Failed(FirstEventFailure(ThroughTunnel)))
  /\ UNCHANGED tunnel

\* The client retries a tunnel that fails, and one whose server does not
\* answer, with a fresh handshake.
TunnelRetries ==
  /\ dial.pc = "tunnel" /\ tunnel.pc = "done"
  /\ tunnel.result # "ok" \/ ~Answers(ThroughTunnel)
  /\ tunnel' = [NoTunnel EXCEPT !.pc = "opening"]
  /\ UNCHANGED dial

\* Variant: a tunnel that does not open is given up for a direct connection.
ProxyFallsBack ==
  /\ dial.pc = "tunnel"
  /\ tunnel.result = "ok" => ~Answers(ThroughTunnel)
  /\ dial' = After(CONNECT_ATTEMPT_TIMEOUT, [dial EXCEPT !.pc = "resolve"])
  /\ tunnel' = NoTunnel

ProxyTimesOut ==
  /\ dial.pc = "tunnel"
  /\ tunnel.result = "ok" => ~Answers(ThroughTunnel)
  /\ dial' = After(CONNECT_ATTEMPT_TIMEOUT, Done(Failed(NetworkLost)))
  /\ tunnel' = NoTunnel

DialTunnelStep == dial.pc = "tunnel" /\ TunnelStep /\ UNCHANGED dial

DialStep ==
  \/ Resolve \/ NextGroup \/ HeadStartElapses \/ FirstEvent \/ GroupTimesOut
  \/ DialProxy \/ TunnelledEvent \/ TunnelRetries \/ ProxyTimesOut \/ DialTunnelStep

=============================================================================
