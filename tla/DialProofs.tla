----------------------------- MODULE DialProofs -----------------------------
(***************************************************************************)
(* Proofs about Dial, for any networks, proxies, registrations and limits  *)
(* that satisfy its assumptions.                                           *)
(***************************************************************************)
EXTENDS PlanProofs

-----------------------------------------------------------------------------
(* Types. *)

\* The records keep their fields, and what comes from outside its type.
Shapes ==
  /\ DOMAIN dial = {"pc", "groups", "racing", "last", "elapsed", "result", "lookups", "contacted"}
  /\ DOMAIN tunnel = {"pc", "wire", "buffer", "headers", "sent", "result"}
  /\ DOMAIN reg = {"pc", "left", "opened", "submitted", "elapsed", "result"}
  /\ registrar \in [offers : BOOLEAN, asks : {"legacy", "other"}, owner : {"nobody", "other", "us"}]
  /\ dns \in Resolved /\ dns.takes \in Nat

\* A phase that is over has a verdict.
DoneIsDecided == dial.pc = "done" => dial.result.is \in {"ready", "failed"}

Typed == TypeOK /\ Shapes /\ DoneIsDecided

LEMMA Limits ==
  /\ DNS_TOTAL_TIMEOUT \in Nat /\ DNS_TOTAL_TIMEOUT > 0
  /\ HAPPY_EYEBALLS_HEAD_START \in Nat /\ HAPPY_EYEBALLS_HEAD_START > 0
  /\ CONNECT_ATTEMPT_TIMEOUT \in Nat /\ CONNECT_ATTEMPT_TIMEOUT > 0
  /\ CONNECT_PHASE_TIMEOUT \in Nat /\ CONNECT_PHASE_TIMEOUT > 0
  /\ REGISTRATION_READ_TIMEOUT \in Nat /\ REGISTRATION_PHASE_TIMEOUT \in Nat
  /\ DNS_TOTAL_TIMEOUT <= CONNECT_PHASE_TIMEOUT
  BY ConnectPlanAssumption, BudgetAssumption

LEMMA InitTyped == Init => Typed
<1> SUFFICES ASSUME Init PROVE Typed
  OBVIOUS
<1>1. tunnel = NoTunnel /\ dial = NoDial /\ reg = NoRegistration
  BY DEF Init
<1>2. registrar \in [offers : BOOLEAN, asks : {"legacy", "other"}, owner : {"nobody", "other"}]
  <2>1. registrar = NoRegistrar \/ registrar \in Registrars
    BY Zenon DEF Init
  <2> DEFINE f == FALSE
  <2>2. NoRegistrar = [offers |-> f, asks |-> "legacy", owner |-> "nobody"] /\ f \in BOOLEAN
    BY DEF NoRegistrar
  <2> HIDE DEF f
  <2>3. NoRegistrar \in [offers : BOOLEAN, asks : {"legacy", "other"}, owner : {"nobody", "other"}]
    BY <2>2
  <2> QED
    BY <2>1, <2>3, DialAssumption
<1>3. dns \in Resolved /\ dns.takes \in Nat
  <2>1. dns = NoAnswers \/ \E n \in Networks \cup Plans : dns = n.dns
    BY Zenon DEF Init, ServerNames
  <2>2. NoAnswers \in Resolved
    BY DEF NoAnswers, Resolved
  <2>3. dns \in Resolved
    BY <2>1, <2>2, DialAssumption
  <2> QED
    BY <2>3, RecordsResolved
<1>4. call \in {"connect", "register", "probe"} /\ account \in {"Absent", "Offline"}
  BY DEF Init
<1> QED
  BY <1>1, <1>2, <1>3, <1>4, Limits
     DEF Typed, TypeOK, Shapes, DoneIsDecided, NoTunnel, NoDial, NoRegistration

\* The end of a phase, and time that passes in it.
LEMMA DoneFields ==
  ASSUME Shapes, NEW result
  PROVE  /\ DOMAIN Done(result) = DOMAIN dial
         /\ Done(result).pc = "done" /\ Done(result).result = result
         /\ Done(result).elapsed = dial.elapsed /\ Done(result).groups = dial.groups
         /\ Done(result).lookups = dial.lookups /\ Done(result).contacted = dial.contacted
  BY DEF Shapes, Done

LEMMA AfterFields ==
  ASSUME Shapes, NEW t, NEW next, DOMAIN next = DOMAIN dial
  PROVE  LET after == After(t, next) IN
         \/ /\ dial.elapsed + t >= CONNECT_PHASE_TIMEOUT
            /\ DOMAIN after = DOMAIN dial
            /\ after.pc = "done" /\ after.result = Failed(NetworkLost)
            /\ after.elapsed = CONNECT_PHASE_TIMEOUT /\ after.groups = dial.groups
            /\ after.lookups = dial.lookups /\ after.contacted = dial.contacted
         \/ /\ ~(dial.elapsed + t >= CONNECT_PHASE_TIMEOUT)
            /\ DOMAIN after = DOMAIN dial
            /\ after.elapsed = dial.elapsed + t
            /\ after.pc = next.pc /\ after.groups = next.groups /\ after.racing = next.racing
            /\ after.last = next.last /\ after.result = next.result
            /\ after.lookups = next.lookups /\ after.contacted = next.contacted
  BY DEF Shapes, After, Done

LEMMA GroupFailsFields ==
  ASSUME Shapes, NEW failure
  PROVE  /\ DOMAIN GroupFails(failure) = DOMAIN dial
         /\ GroupFails(failure).elapsed = dial.elapsed
         /\ GroupFails(failure).lookups = dial.lookups /\ GroupFails(failure).contacted = dial.contacted
         /\ \/ failure.recoverable /\ GroupFails(failure).pc = "groups"
                 /\ GroupFails(failure).last = failure /\ GroupFails(failure).groups = Tail(dial.groups)
                 /\ GroupFails(failure).result = dial.result
            \/ ~failure.recoverable /\ GroupFails(failure) = Done(Failed(failure))
  BY DEF Shapes, GroupFails, Done

LEMMA TunnelStepTyped ==
  ASSUME Shapes, TunnelStep
  PROVE  /\ DOMAIN tunnel' = DOMAIN tunnel
         /\ tunnel'.pc \in {"idle", "opening", "method", "auth", "reply", "headers", "done"}
<1>1. ASSUME NEW result, Ends(result)
      PROVE  DOMAIN tunnel' = DOMAIN tunnel /\ tunnel'.pc = "done"
  BY <1>1 DEF Ends, Shapes
<1>2. ASSUME SendConnect PROVE DOMAIN tunnel' = DOMAIN tunnel /\ tunnel'.pc = "reply"
  BY <1>2 DEF SendConnect, Shapes
<1>3. CASE TunnelOpens
  BY <1>1, <1>3 DEF TunnelOpens, HttpBegins, NoTunnel, Shapes
<1>4. CASE ReadMethod
  BY <1>1, <1>2, <1>4 DEF ReadMethod, Shapes
<1>5. CASE ReadAuth
  BY <1>1, <1>2, <1>5 DEF ReadAuth
<1>6. CASE ReadReply
  BY <1>6 DEF ReadReply, Shapes
<1>7. CASE FillBuffer
  BY <1>7 DEF FillBuffer, Shapes
<1>8. CASE ReadHeader
  BY <1>8 DEF ReadHeader, Shapes
<1>9. CASE ProxyCloses
  BY <1>1, <1>9 DEF ProxyCloses
<1> QED
  BY <1>3, <1>4, <1>5, <1>6, <1>7, <1>8, <1>9 DEF TunnelStep

\* Every step of the phase, as far as the plan does not matter.
LEMMA DialStepTyped ==
  ASSUME Typed, DialStep, UNCHANGED <<network, registrar, reg, call, account>>
  PROVE  Typed' /\ dial'.pc \in {"groups", "head", "race", "tunnel", "done"}
<1> DEFINE Ok == /\ DOMAIN dial' = DOMAIN dial
                 /\ dial'.pc \in {"groups", "head", "race", "tunnel", "done"}
                 /\ dial'.elapsed \in 0..CONNECT_PHASE_TIMEOUT
                 /\ dial'.pc = "done" => dial'.result.is \in {"ready", "failed"}
           TunnelOk == /\ DOMAIN tunnel' = DOMAIN tunnel
                       /\ tunnel'.pc \in {"idle", "opening", "method", "auth", "reply", "headers", "done"}
<1>1. SUFFICES Ok /\ TunnelOk
  BY DEF Typed, TypeOK, Shapes, DoneIsDecided, network
<1>2. dial.elapsed \in 0..CONNECT_PHASE_TIMEOUT /\ dns.takes \in Nat /\ Shapes
  BY DEF Typed, TypeOK, Shapes
<1>3. \A r : Failed(r).is = "failed" /\ Ready(r).is = "ready"
  BY DEF Failed, Ready
<1>4. ASSUME UNCHANGED tunnel PROVE TunnelOk
  BY <1>4 DEF Typed, TypeOK
<1>5. CASE Resolve
  <2>1. TunnelOk
    BY <1>4, <1>5 DEF Resolve
  <2> DEFINE asked == [dial EXCEPT !.lookups = @ \cup {"xmpp"}, !.pc = "groups", !.groups = Groups]
             lost == Done(Failed(NetworkLost))
  <2>2. DOMAIN asked = DOMAIN dial /\ asked.pc = "groups"
    BY <1>2 DEF Shapes
  <2>3. \/ dial' = [lost EXCEPT !.lookups = asked.lookups, !.elapsed = DNS_TOTAL_TIMEOUT]
        \/ dial' = [lost EXCEPT !.lookups = asked.lookups]
        \/ dial' = After(dns.takes, asked)
    BY <1>5 DEF Resolve, Groups
  <2>4. /\ DOMAIN lost = DOMAIN dial /\ lost.pc = "done" /\ lost.result = Failed(NetworkLost)
        /\ lost.elapsed = dial.elapsed
    BY <1>2, DoneFields
  <2> HIDE DEF asked, lost
  <2>5. CASE dial' = After(dns.takes, asked)
    BY <1>2, <1>3, <2>1, <2>2, <2>5, AfterFields, Limits
  <2>6. CASE dial' = [lost EXCEPT !.lookups = asked.lookups, !.elapsed = DNS_TOTAL_TIMEOUT]
    BY <1>2, <1>3, <2>1, <2>4, <2>6, Limits DEF Shapes
  <2>7. CASE dial' = [lost EXCEPT !.lookups = asked.lookups]
    BY <1>2, <1>3, <2>1, <2>4, <2>7 DEF Shapes
  <2> QED
    BY <2>3, <2>5, <2>6, <2>7
<1>6. CASE NextGroup
  <2>1. TunnelOk
    BY <1>4, <1>6 DEF NextGroup
  <2>2. CASE dial' = Done(Failed(dial.last))
    BY <1>2, <1>3, <2>1, <2>2, DoneFields
  <2>3. CASE dial' # Done(Failed(dial.last))
    BY <1>2, <1>6, <2>1, <2>3 DEF NextGroup, Shapes
  <2> QED
    BY <2>2, <2>3
<1>7. CASE HeadStartElapses
  <2>1. TunnelOk
    BY <1>4, <1>7 DEF HeadStartElapses
  <2> DEFINE group == ToSet(Head(dial.groups))
             next == [dial EXCEPT !.pc = "race", !.racing = group, !.contacted = @ \cup group]
  <2>2. dial' = After(HAPPY_EYEBALLS_HEAD_START, next)
    BY <1>7 DEF HeadStartElapses
  <2>3. DOMAIN next = DOMAIN dial /\ next.pc = "race"
    BY <1>2 DEF Shapes
  <2> HIDE DEF next
  <2> QED
    BY <1>2, <1>3, <2>1, <2>2, <2>3, AfterFields, Limits
<1>8. CASE FirstEvent
  <2>1. TunnelOk
    BY <1>4, <1>8 DEF FirstEvent
  <2>2. PICK c : dial' = FirstEventOf(c)
    BY <1>8 DEF FirstEvent
  <2>3. CASE dial' = Done(Ready(c))
    BY <1>2, <1>3, <2>1, <2>3, DoneFields
  <2>4. CASE dial' = GroupFails(FirstEventFailure(c))
    BY <1>2, <1>3, <2>1, <2>4, GroupFailsFields, DoneFields
  <2> QED
    BY <2>2, <2>3, <2>4 DEF FirstEventOf
<1>9. CASE GroupTimesOut
  <2>1. TunnelOk
    BY <1>4, <1>9 DEF GroupTimesOut
  <2> DEFINE next == GroupFails(NetworkLost)
  <2>2. dial' = After(CONNECT_ATTEMPT_TIMEOUT, next)
    BY <1>9 DEF GroupTimesOut
  <2>3. DOMAIN next = DOMAIN dial /\ next.pc = "groups"
    BY <1>2, GroupFailsFields DEF NetworkLost, Failure
  <2> HIDE DEF next
  <2> QED
    BY <1>2, <1>3, <2>1, <2>2, <2>3, AfterFields, Limits
<1>10. CASE DialProxy
  <2>1. TunnelOk
    BY <1>4, <1>10 DEF DialProxy, NoTunnel, Shapes, Typed
  <2>2. \/ dial' = Done(Failed(Failure(TRUE, "Unknown")))
        \/ dial' = [dial EXCEPT !.pc = "tunnel", !.lookups = {"proxy"}, !.contacted = {"proxy"}]
    BY <1>10 DEF DialProxy
  <2>3. CASE dial' = Done(Failed(Failure(TRUE, "Unknown")))
    <3> DEFINE failure == Failure(TRUE, "Unknown")
    <3>1. dial' = Done(Failed(failure))
      BY <2>3
    <3> HIDE DEF failure
    <3> QED
      BY <1>2, <1>3, <2>1, <3>1, DoneFields
  <2>4. CASE dial' = [dial EXCEPT !.pc = "tunnel", !.lookups = {"proxy"}, !.contacted = {"proxy"}]
    BY <1>2, <2>1, <2>4 DEF Shapes
  <2> QED
    BY <2>2, <2>3, <2>4
<1>11. CASE TunnelledEvent
  <2>1. TunnelOk
    BY <1>4, <1>11 DEF TunnelledEvent
  <2>2. \E r : dial' = Done(Ready(r)) \/ dial' = Done(Failed(r))
    BY <1>11 DEF TunnelledEvent
  <2> QED
    BY <1>2, <1>3, <2>1, <2>2, DoneFields
<1>12. CASE TunnelRetries
  <2>1. TunnelOk
    BY <1>12 DEF TunnelRetries, NoTunnel, Shapes, Typed
  <2> QED
    BY <1>2, <1>12, <2>1 DEF TunnelRetries
<1>13. CASE ProxyTimesOut
  <2>1. TunnelOk
    BY <1>13 DEF ProxyTimesOut, NoTunnel, Shapes, Typed
  <2> DEFINE next == Done(Failed(NetworkLost))
  <2>2. dial' = After(CONNECT_ATTEMPT_TIMEOUT, next)
    BY <1>13 DEF ProxyTimesOut
  <2>3. DOMAIN next = DOMAIN dial /\ next.pc = "done" /\ next.result = Failed(NetworkLost)
    BY <1>2, DoneFields
  <2> HIDE DEF next
  <2> QED
    BY <1>2, <1>3, <2>1, <2>2, <2>3, AfterFields, Limits
<1>14. CASE DialTunnelStep
  <2>1. TunnelOk
    BY <1>2, <1>14, TunnelStepTyped DEF DialTunnelStep
  <2> QED
    BY <1>2, <1>14, <2>1 DEF DialTunnelStep
<1> QED
  BY <1>5, <1>6, <1>7, <1>8, <1>9, <1>10, <1>11, <1>12, <1>13, <1>14 DEF DialStep

LEMMA RegAfterFields ==
  ASSUME Shapes, NEW t \in Nat, NEW next, DOMAIN next = DOMAIN reg,
         reg.elapsed \in 0..REGISTRATION_PHASE_TIMEOUT
  PROVE  LET after == RegAfter(t, next) IN
         /\ DOMAIN after = DOMAIN reg /\ after.elapsed \in 0..REGISTRATION_PHASE_TIMEOUT
         /\ \/ /\ after.pc = "done" /\ after.result = "ConnectionFailed"
               /\ after.submitted = reg.submitted
            \/ /\ after.pc = next.pc /\ after.result = next.result /\ after.submitted = next.submitted
  BY Limits DEF Shapes, RegAfter, Over

\* What a registration knows: a password goes only to a server that offers the
\* legacy flow, and success means that the server took the name for us.
RegSound ==
  /\ reg.pc = "fields" => registrar.offers
  /\ reg.pc \in {"submit", "unanswered", "accepted", "conflict"} \/ reg.submitted # {} =>
       registrar.offers /\ registrar.asks = "legacy"
  /\ reg.pc = "accepted" \/ reg.result = "ok" => registrar.owner = "us" /\ reg.submitted # {}
  /\ reg.result = "ok" => reg.pc = "done"

\* A step of the registration keeps types and what it knows.
LEMMA RegStepSound ==
  ASSUME Typed, RegSound, RegStep, UNCHANGED <<network, tunnel, dial, call, account>>
  PROVE  Typed' /\ RegSound' /\ reg'.pc # "idle"
<1> DEFINE Ok == /\ DOMAIN reg' = DOMAIN reg
                 /\ reg'.pc \in {"next", "open", "done"} \cup Exchanging
                 /\ reg'.elapsed \in 0..REGISTRATION_PHASE_TIMEOUT
           RegistrarOk ==
             registrar' \in [offers : BOOLEAN, asks : {"legacy", "other"}, owner : {"nobody", "other", "us"}]
<1>1. ASSUME Ok, RegistrarOk PROVE Typed' /\ reg'.pc # "idle"
  <2>1. registrar'.owner \in {"nobody", "other", "us"}
    BY <1>1
  <2> QED
    BY <1>1, <2>1 DEF Typed, TypeOK, Shapes, DoneIsDecided, network, Exchanging
<1>2. reg.elapsed \in 0..REGISTRATION_PHASE_TIMEOUT /\ Shapes /\ dns.takes \in Nat
  BY DEF Typed, TypeOK, Shapes
<1>3. ASSUME UNCHANGED registrar PROVE RegistrarOk
  BY <1>3 DEF Typed, Shapes
<1>4. \A result : LET over == Over(result) IN
        /\ DOMAIN over = DOMAIN reg /\ over.pc = "done" /\ over.result = result
        /\ over.submitted = reg.submitted /\ over.elapsed = reg.elapsed
  BY <1>2 DEF Over, Shapes
<1>5. /\ DOMAIN AttemptFails = DOMAIN reg /\ AttemptFails.pc = "next"
      /\ AttemptFails.result = reg.result /\ AttemptFails.submitted = reg.submitted
      /\ AttemptFails.elapsed = reg.elapsed
  BY <1>2 DEF AttemptFails, Shapes
<1>6. ASSUME UNCHANGED registrar, NEW result, reg' = Over(result), result # "ok"
      PROVE  Ok /\ RegSound'
  BY <1>2, <1>4, <1>6 DEF RegSound
<1>7. CASE RegResolve
  <2>1. CASE reg' = Over("ConnectionFailed")
    BY <1>1, <1>3, <1>6, <1>7, <2>1 DEF RegResolve
  <2>2. CASE reg' = RegAfter(dns.takes, [reg EXCEPT !.pc = "next", !.left = Attempts])
    <3> DEFINE next == [reg EXCEPT !.pc = "next", !.left = Attempts]
    <3>1. /\ DOMAIN next = DOMAIN reg /\ next.pc = "next" /\ next.result = reg.result
          /\ next.submitted = reg.submitted
      BY <1>2 DEF Shapes
    <3> HIDE DEF next
    <3>2. /\ DOMAIN reg' = DOMAIN reg /\ reg'.elapsed \in 0..REGISTRATION_PHASE_TIMEOUT
          /\ reg'.submitted = reg.submitted
          /\ (reg'.pc = "done" /\ reg'.result = "ConnectionFailed")
               \/ (reg'.pc = "next" /\ reg'.result = reg.result)
      BY <1>2, <2>2, <3>1, RegAfterFields DEF next
    <3>3. reg.result # "ok" /\ UNCHANGED registrar
      BY <1>7 DEF RegResolve, RegSound
    <3> QED
      BY <1>1, <1>3, <3>2, <3>3 DEF RegSound
  <2> QED
    BY <1>7, <2>1, <2>2 DEF RegResolve
<1>8. CASE RegNext
  <2>1. CASE reg' = Over("ConnectionFailed")
    BY <1>1, <1>3, <1>6, <1>8, <2>1 DEF RegNext
  <2>2. CASE reg' = [reg EXCEPT !.pc = "open", !.opened = @ \cup {Head(reg.left)}]
    <3>1. /\ DOMAIN reg' = DOMAIN reg /\ reg'.pc = "open" /\ reg'.result = reg.result
          /\ reg'.submitted = reg.submitted /\ reg'.elapsed = reg.elapsed
      BY <1>2, <2>2 DEF Shapes
    <3>2. reg.result # "ok" /\ UNCHANGED registrar
      BY <1>8 DEF RegNext, RegSound
    <3> QED
      BY <1>1, <1>2, <1>3, <3>1, <3>2 DEF RegSound
  <2> QED
    BY <1>8, <2>1, <2>2 DEF RegNext
<1>9. CASE RegOpen
  <2>1. reg.result # "ok" /\ UNCHANGED registrar
    BY <1>9 DEF RegOpen, RegSound
  <2>2. CASE \E result \in {"TlsVerification", "ConnectionFailed"} : reg' = Over(result)
    BY <1>1, <1>3, <1>6, <2>1, <2>2
  <2>3. CASE reg' = AttemptFails
    BY <1>1, <1>2, <1>3, <1>5, <2>1, <2>3 DEF RegSound
  <2>4. CASE reg' = RegAfter(REGISTRATION_PHASE_TIMEOUT, reg)
    <3>1. /\ DOMAIN reg' = DOMAIN reg /\ reg'.elapsed \in 0..REGISTRATION_PHASE_TIMEOUT
          /\ reg'.submitted = reg.submitted
          /\ (reg'.pc = "done" /\ reg'.result = "ConnectionFailed")
               \/ (reg'.pc = reg.pc /\ reg'.result = reg.result)
      BY <1>2, <2>4, RegAfterFields, Limits
    <3>2. reg.pc = "open"
      BY <1>9 DEF RegOpen
    <3> QED
      BY <1>1, <1>3, <2>1, <3>1, <3>2 DEF RegSound
  <2>5. CASE ~RegistrationRefusal /\ reg' = [reg EXCEPT !.pc = "fields"]
    <3>1. /\ DOMAIN reg' = DOMAIN reg /\ reg'.pc = "fields" /\ reg'.result = reg.result
          /\ reg'.submitted = reg.submitted /\ reg'.elapsed = reg.elapsed
      BY <1>2, <2>5 DEF Shapes
    <3> QED
      BY <1>1, <1>2, <1>3, <2>1, <2>5, <3>1 DEF RegSound, RegistrationRefusal, Exchanging
  <2> QED
    BY <1>9, <2>2, <2>3, <2>4, <2>5 DEF RegOpen
<1>10. CASE RegFields
  <2>1. reg.result # "ok" /\ UNCHANGED registrar /\ registrar.offers
    BY <1>10 DEF RegFields, RegSound
  <2>2. CASE reg' = Over("ConnectionFailed")
    BY <1>1, <1>3, <1>6, <2>1, <2>2
  <2>3. CASE registrar.asks = "legacy" /\ reg' = [reg EXCEPT !.pc = "submit"]
    <3>1. /\ DOMAIN reg' = DOMAIN reg /\ reg'.pc = "submit" /\ reg'.result = reg.result
          /\ reg'.submitted = reg.submitted /\ reg'.elapsed = reg.elapsed
      BY <1>2, <2>3 DEF Shapes
    <3> QED
      BY <1>1, <1>2, <1>3, <2>1, <2>3, <3>1 DEF RegSound, Exchanging
  <2> QED
    BY <1>10, <2>2, <2>3 DEF RegFields
<1>11. CASE RegSubmit
  <2>1. reg.result # "ok" /\ registrar.offers /\ registrar.asks = "legacy"
    BY <1>11 DEF RegSubmit, RegSound
  <2>2. PICK pc \in {"accepted", "conflict", "unanswered"} :
          /\ reg' = [reg EXCEPT !.pc = pc, !.submitted = @ \cup {Head(reg.left)}]
          /\ IF pc = "accepted" THEN registrar' = [registrar EXCEPT !.owner = "us"]
             ELSE UNCHANGED registrar
    BY <1>11 DEF RegSubmit
  <2>3. /\ DOMAIN reg' = DOMAIN reg /\ reg'.pc = pc /\ reg'.result = reg.result
        /\ reg'.submitted # {} /\ reg'.elapsed = reg.elapsed
    BY <1>2, <2>2 DEF Shapes
  <2>4. /\ RegistrarOk /\ registrar'.offers = registrar.offers /\ registrar'.asks = registrar.asks
        /\ pc = "accepted" => registrar'.owner = "us"
    BY <1>2, <1>3, <2>2 DEF Shapes
  <2>5. RegSound'
    BY <2>1, <2>2, <2>3, <2>4 DEF RegSound
  <2>6. Ok
    BY <1>2, <2>2, <2>3 DEF Exchanging
  <2> QED
    BY <1>1, <2>4, <2>5, <2>6
<1>12. CASE RegAnswer
  <2> DEFINE result == IF reg.pc = "accepted" THEN "ok" ELSE "ConnectionFailed"
  <2>1. UNCHANGED registrar /\ reg.pc \in {"accepted", "conflict"}
    BY <1>12 DEF RegAnswer
  <2>2. PICK t \in CloseTimes : reg' = RegAfter(t, Over(result))
    BY <1>12 DEF RegAnswer
  <2> DEFINE next == Over(result)
  <2>3. /\ DOMAIN next = DOMAIN reg /\ next.pc = "done" /\ next.result = result
        /\ next.submitted = reg.submitted
    BY <1>4
  <2>4. t \in Nat
    BY <2>2 DEF CloseTimes
  <2> HIDE DEF next
  <2>5. /\ DOMAIN reg' = DOMAIN reg /\ reg'.elapsed \in 0..REGISTRATION_PHASE_TIMEOUT
        /\ reg'.submitted = reg.submitted /\ reg'.pc = "done"
        /\ reg'.result = "ConnectionFailed" \/ reg'.result = result
    BY <1>2, <2>2, <2>3, <2>4, RegAfterFields DEF next
  <2>6. RegSound'
    BY <2>1, <2>5 DEF RegSound
  <2> QED
    BY <1>1, <1>3, <2>1, <2>5, <2>6
<1>13. CASE RegStreamLost
  <2>1. UNCHANGED registrar /\ reg.pc \in Exchanging
    BY <1>13 DEF RegStreamLost
  <2>2. PICK t \in {0, REGISTRATION_READ_TIMEOUT} : reg' = RegAfter(t, AttemptFails)
    BY <1>13 DEF RegStreamLost
  <2>3. t \in Nat
    BY Limits
  <2> DEFINE next == AttemptFails
  <2> HIDE DEF next
  <2>4. /\ DOMAIN reg' = DOMAIN reg /\ reg'.elapsed \in 0..REGISTRATION_PHASE_TIMEOUT
        /\ reg'.submitted = reg.submitted
        /\ (reg'.pc = "done" /\ reg'.result = "ConnectionFailed")
             \/ (reg'.pc = "next" /\ reg'.result = reg.result)
    BY <1>2, <1>5, <2>2, <2>3, RegAfterFields DEF next
  <2>5. reg.result # "ok"
    BY <2>1 DEF RegSound, Exchanging
  <2> QED
    BY <1>1, <1>3, <2>1, <2>4, <2>5 DEF RegSound
<1>14. CASE RegStreamError
  BY <1>1, <1>3, <1>6, <1>14 DEF RegStreamError
<1> QED
  BY <1>7, <1>8, <1>9, <1>10, <1>11, <1>12, <1>13, <1>14 DEF RegStep

-----------------------------------------------------------------------------
(* The calls. *)

\* What each call has left alone so far, and that an account whose registration
\* was attempted is in the core only after it succeeded.
CallsApart ==
  /\ call \in {"connect", "register", "probe"} => dial = NoDial
  /\ call = "register" => account = "Absent"
  /\ call \in {"connect", "probe"} => reg = NoRegistration
  /\ call = "session" => account # "Absent"
  /\ reg.pc # "idle" /\ account # "Absent" => reg.result = "ok"

\* A phase with a proxy never enters the states of a direct connection, nor one
\* without a proxy those of a tunnel.
ProxyApart ==
  /\ proxy # NoProxy => /\ dial.pc \notin {"resolve", "groups", "head", "race"}
                        /\ dial.lookups \subseteq {"proxy"} /\ dial.contacted \subseteq {"proxy"}
  /\ dial.pc \in {"proxy", "tunnel"} => proxy # NoProxy

\* The inductive invariant of the calls.
IInv == Typed /\ RegSound /\ CallsApart /\ ProxyApart

LEMMA InitIInv == Init => IInv
<1> SUFFICES ASSUME Init PROVE IInv
  OBVIOUS
<1>1. Typed
  BY InitTyped
<1>2. tunnel = NoTunnel /\ dial = NoDial /\ reg = NoRegistration
  BY DEF Init
<1>3. (call \in {"connect", "probe"}) \/ (call = "register" /\ account = "Absent")
  BY DEF Init
<1> QED
  BY <1>1, <1>2, <1>3 DEF IInv, RegSound, CallsApart, ProxyApart, NoDial, NoRegistration

\* A step of the phase stays on its side of the proxy.
LEMMA DialStepApart ==
  ASSUME Typed, ProxyApart, DialStep, UNCHANGED proxy
  PROVE  ProxyApart'
<1>1. Shapes
  BY DEF Typed
<1>2. CASE proxy = NoProxy
  <2>1. dial.pc \notin {"proxy", "tunnel"}
    BY <1>2 DEF ProxyApart
  <2>2. dial'.pc \notin {"proxy", "tunnel"}
    <3>1. CASE Resolve
      <4> DEFINE asked == [dial EXCEPT !.lookups = @ \cup {"xmpp"}, !.pc = "groups", !.groups = Groups]
                 lost == Done(Failed(NetworkLost))
      <4>1. DOMAIN asked = DOMAIN dial /\ asked.pc = "groups"
        BY <1>1 DEF Shapes
      <4>2. \/ dial' = [lost EXCEPT !.lookups = asked.lookups, !.elapsed = DNS_TOTAL_TIMEOUT]
            \/ dial' = [lost EXCEPT !.lookups = asked.lookups]
            \/ dial' = After(dns.takes, asked)
        BY <3>1 DEF Resolve, Groups
      <4>3. DOMAIN lost = DOMAIN dial /\ lost.pc = "done"
        BY <1>1, DoneFields
      <4> HIDE DEF asked, lost
      <4>4. CASE dial' = After(dns.takes, asked)
        BY <1>1, <4>1, <4>4, AfterFields
      <4>5. CASE dial' # After(dns.takes, asked)
        BY <1>1, <4>2, <4>3, <4>5 DEF Shapes
      <4> QED
        BY <4>4, <4>5
    <3>2. CASE NextGroup
      <4>1. CASE dial' = Done(Failed(dial.last))
        BY <1>1, <4>1, DoneFields
      <4>2. CASE dial' # Done(Failed(dial.last))
        BY <1>1, <3>2, <4>2 DEF NextGroup, Shapes
      <4> QED
        BY <4>1, <4>2
    <3>3. CASE HeadStartElapses
      <4> DEFINE group == ToSet(Head(dial.groups))
                 next == [dial EXCEPT !.pc = "race", !.racing = group, !.contacted = @ \cup group]
      <4>1. dial' = After(HAPPY_EYEBALLS_HEAD_START, next)
        BY <3>3 DEF HeadStartElapses
      <4>2. DOMAIN next = DOMAIN dial /\ next.pc = "race"
        BY <1>1 DEF Shapes
      <4> HIDE DEF next
      <4> QED
        BY <1>1, <4>1, <4>2, AfterFields
    <3>4. CASE FirstEvent
      <4>1. PICK c : dial' = FirstEventOf(c)
        BY <3>4 DEF FirstEvent
      <4> QED
        BY <1>1, <4>1, DoneFields, GroupFailsFields DEF FirstEventOf
    <3>5. CASE GroupTimesOut
      <4> DEFINE next == GroupFails(NetworkLost)
      <4>1. dial' = After(CONNECT_ATTEMPT_TIMEOUT, next)
        BY <3>5 DEF GroupTimesOut
      <4>2. DOMAIN next = DOMAIN dial /\ next.pc \in {"groups", "done"}
        BY <1>1, GroupFailsFields, DoneFields
      <4> HIDE DEF next
      <4> QED
        BY <1>1, <4>1, <4>2, AfterFields
    <3> QED
      BY <2>1, <3>1, <3>2, <3>3, <3>4, <3>5
         DEF DialStep, DialProxy, TunnelledEvent, TunnelRetries, ProxyTimesOut, DialTunnelStep
  <2> QED
    BY <1>2, <2>2 DEF ProxyApart
<1>3. CASE proxy # NoProxy
  <2>1. /\ dial.pc \notin {"resolve", "groups", "head", "race"}
        /\ dial.lookups \subseteq {"proxy"} /\ dial.contacted \subseteq {"proxy"}
    BY <1>3 DEF ProxyApart
  <2>2. /\ dial'.pc \notin {"resolve", "groups", "head", "race"}
        /\ dial'.lookups \subseteq {"proxy"} /\ dial'.contacted \subseteq {"proxy"}
    <3>1. ASSUME NEW result, dial' = Done(result)
          PROVE  /\ dial'.pc \notin {"resolve", "groups", "head", "race"}
                 /\ dial'.lookups \subseteq {"proxy"} /\ dial'.contacted \subseteq {"proxy"}
      BY <1>1, <2>1, <3>1, DoneFields
    <3>2. CASE DialProxy
      <4>1. CASE dial' = [dial EXCEPT !.pc = "tunnel", !.lookups = {"proxy"}, !.contacted = {"proxy"}]
        BY <1>1, <4>1 DEF Shapes
      <4> DEFINE failure == Failed(Failure(TRUE, "Unknown"))
      <4>2. dial' = Done(failure) \/ dial' = [dial EXCEPT !.pc = "tunnel", !.lookups = {"proxy"}, !.contacted = {"proxy"}]
        BY <3>2 DEF DialProxy
      <4> HIDE DEF failure
      <4> QED
        BY <3>1, <4>1, <4>2
    <3>3. CASE TunnelledEvent
      BY <3>1, <3>3 DEF TunnelledEvent
    <3>4. CASE ProxyTimesOut
      <4> DEFINE next == Done(Failed(NetworkLost))
      <4>1. dial' = After(CONNECT_ATTEMPT_TIMEOUT, next)
        BY <3>4 DEF ProxyTimesOut
      <4>2. /\ DOMAIN next = DOMAIN dial /\ next.pc = "done"
            /\ next.lookups = dial.lookups /\ next.contacted = dial.contacted
        BY <1>1, DoneFields
      <4> HIDE DEF next
      <4> QED
        BY <1>1, <2>1, <4>1, <4>2, AfterFields
    <3> QED
      BY <2>1, <3>2, <3>3, <3>4
         DEF DialStep, Resolve, NextGroup, HeadStartElapses, FirstEvent, GroupTimesOut,
             TunnelRetries, DialTunnelStep
  <2> QED
    BY <1>3, <2>2 DEF ProxyApart
<1> QED
  BY <1>2, <1>3

\* The steps that begin and end a call.
LEMMA StartSessionSound ==
  ASSUME IInv, StartSession, call \in {"connect", "register"}, reg.pc # "idle" => reg.result = "ok",
         UNCHANGED <<network, proxy, tunnel, registrar, reg>>
  PROVE  IInv'
<1>1. Typed /\ Shapes /\ dial = NoDial
  BY DEF IInv, Typed, CallsApart
<1> DEFINE pc == IF proxy = NoProxy THEN "resolve" ELSE "proxy"
<1>2. \/ account' = "Failed" /\ call' = "over" /\ dial' = NoDial
      \/ account' = "Connecting" /\ call' = "session" /\ dial' = [NoDial EXCEPT !.pc = pc]
  BY <1>1 DEF StartSession
<1>3. pc \in {"resolve", "proxy"} /\ (pc = "resolve" <=> proxy = NoProxy)
  OBVIOUS
<1> HIDE DEF pc
<1>4. /\ DOMAIN dial' = DOMAIN dial /\ dial'.pc \in {"idle", pc}
      /\ dial'.elapsed = 0 /\ dial'.lookups = {} /\ dial'.contacted = {}
  BY <1>1, <1>2, <1>3 DEF NoDial, Shapes
<1>5. Typed'
  BY <1>1, <1>2, <1>3, <1>4, Limits DEF Typed, TypeOK, Shapes, DoneIsDecided, network
<1>6. ProxyApart'
  BY <1>3, <1>4 DEF ProxyApart
<1>7. CallsApart'
  BY <1>2 DEF CallsApart
<1>8. RegSound'
  BY DEF IInv, RegSound
<1> QED
  BY <1>5, <1>6, <1>7, <1>8 DEF IInv

LEMMA NextIInv == IInv /\ [Next]_vars => IInv'
<1> SUFFICES ASSUME IInv, [Next]_vars PROVE IInv'
  OBVIOUS
<1>1. Typed /\ Shapes /\ RegSound /\ CallsApart /\ ProxyApart
  BY DEF IInv, Typed
<1>2. CASE ConnectAccount
  <2>1. reg.pc = "idle"
    BY <1>1, <1>2 DEF ConnectAccount, CallsApart, NoRegistration
  <2> QED
    BY <1>2, <2>1, StartSessionSound DEF ConnectAccount
<1>3. CASE SessionStarts
  <2>1. dial.result.is \in {"ready", "failed"}
    BY <1>1, <1>3 DEF SessionStarts, Typed, DoneIsDecided
  <2>2. account' \in {"Online", "Offline", "Failed"}
    BY <1>3, <2>1 DEF SessionStarts
  <2>3. /\ call = "session" /\ call' = "over"
        /\ UNCHANGED <<network, proxy, tunnel, dial, registrar, reg>>
    BY <1>3 DEF SessionStarts
  <2>4. Typed' /\ RegSound' /\ ProxyApart'
    BY <1>1, <2>2, <2>3 DEF Typed, TypeOK, Shapes, DoneIsDecided, RegSound, ProxyApart, network
  <2>5. CallsApart'
    BY <1>1, <2>3 DEF CallsApart
  <2> QED
    BY <2>4, <2>5 DEF IInv
<1>4. CASE RegisterBegins
  <2>1. /\ call = "register" /\ reg.pc = "idle" /\ reg' = [reg EXCEPT !.pc = "resolve"]
        /\ UNCHANGED <<network, proxy, tunnel, dial, registrar, call, account>>
    BY <1>4 DEF RegisterBegins
  <2>2. /\ DOMAIN reg' = DOMAIN reg /\ reg'.pc = "resolve" /\ reg'.result = reg.result
        /\ reg'.submitted = reg.submitted /\ reg'.elapsed = reg.elapsed
    BY <1>1, <2>1 DEF Shapes
  <2>3. Typed'
    BY <1>1, <2>1, <2>2 DEF Typed, TypeOK, Shapes, DoneIsDecided, network
  <2>4. RegSound' /\ ProxyApart' /\ CallsApart'
    BY <1>1, <2>1, <2>2 DEF RegSound, ProxyApart, CallsApart
  <2> QED
    BY <2>3, <2>4 DEF IInv
<1>5. CASE RegisterReturns
  <2>1. /\ call = "register" /\ reg.pc = "done"
        /\ UNCHANGED <<network, proxy, tunnel, registrar, reg>>
    BY <1>5 DEF RegisterReturns
  <2>2. CASE reg.result = "ok"
    BY <1>5, <2>1, <2>2, StartSessionSound DEF RegisterReturns
  <2>3. CASE reg.result # "ok"
    <3>1. call' = "over" /\ UNCHANGED <<account, dial>>
      BY <1>5, <2>3 DEF RegisterReturns
    <3>2. Typed' /\ RegSound' /\ ProxyApart'
      BY <1>1, <2>1, <3>1 DEF Typed, TypeOK, Shapes, DoneIsDecided, RegSound, ProxyApart, network
    <3>3. CallsApart'
      BY <1>1, <2>1, <3>1 DEF CallsApart
    <3> QED
      BY <3>2, <3>3 DEF IInv
  <2> QED
    BY <2>2, <2>3
<1>6. CASE ProbeBegins
  <2>1. /\ tunnel' = [NoTunnel EXCEPT !.pc = "opening"]
        /\ UNCHANGED <<network, proxy, dial, registrar, reg, call, account>>
    BY <1>6 DEF ProbeBegins
  <2>2. DOMAIN tunnel' = DOMAIN tunnel /\ tunnel'.pc = "opening"
    BY <1>1, <2>1 DEF NoTunnel, Shapes
  <2>3. Typed'
    BY <1>1, <2>1, <2>2 DEF Typed, TypeOK, Shapes, DoneIsDecided, network
  <2>4. RegSound' /\ ProxyApart' /\ CallsApart'
    BY <1>1, <2>1 DEF RegSound, ProxyApart, CallsApart
  <2> QED
    BY <2>3, <2>4 DEF IInv
<1>7. CASE ProbeReturns
  <2>1. /\ call = "probe" /\ call' = "over"
        /\ UNCHANGED <<network, proxy, tunnel, dial, registrar, reg, account>>
    BY <1>7 DEF ProbeReturns
  <2>2. Typed'
    BY <1>1, <2>1 DEF Typed, TypeOK, Shapes, DoneIsDecided, network
  <2>3. RegSound' /\ ProxyApart' /\ CallsApart'
    BY <1>1, <2>1 DEF RegSound, ProxyApart, CallsApart
  <2> QED
    BY <2>2, <2>3 DEF IInv
<1>8. CASE Worker
  <2>1. /\ call = "session" /\ DialStep
        /\ UNCHANGED <<network, proxy, registrar, reg, call, account>>
    BY <1>8 DEF Worker
  <2>2. Typed'
    BY <1>1, <2>1, DialStepTyped
  <2>3. ProxyApart'
    BY <1>1, <2>1, DialStepApart
  <2>4. RegSound' /\ CallsApart'
    BY <1>1, <2>1 DEF RegSound, CallsApart
  <2> QED
    BY <2>2, <2>3, <2>4 DEF IInv
<1>9. CASE Registers
  <2>1. /\ call = "register" /\ RegStep
        /\ UNCHANGED <<network, proxy, tunnel, dial, call, account>>
    BY <1>9 DEF Registers
  <2>2. Typed' /\ RegSound'
    BY <1>1, <2>1, RegStepSound
  <2>3. ProxyApart' /\ CallsApart'
    BY <1>1, <2>1 DEF ProxyApart, CallsApart
  <2> QED
    BY <2>2, <2>3 DEF IInv
<1>10. CASE Probes
  <2>1. /\ call = "probe" /\ TunnelStep
        /\ UNCHANGED <<network, proxy, dial, registrar, reg, call, account>>
    BY <1>10 DEF Probes
  <2>2. /\ DOMAIN tunnel' = DOMAIN tunnel
        /\ tunnel'.pc \in {"idle", "opening", "method", "auth", "reply", "headers", "done"}
    BY <1>1, <2>1, TunnelStepTyped
  <2>3. Typed'
    BY <1>1, <2>1, <2>2 DEF Typed, TypeOK, Shapes, DoneIsDecided, network
  <2>4. RegSound' /\ ProxyApart' /\ CallsApart'
    BY <1>1, <2>1 DEF RegSound, ProxyApart, CallsApart
  <2> QED
    BY <2>3, <2>4 DEF IInv
<1>11. CASE UNCHANGED vars
  <2>1. UNCHANGED <<network, proxy, tunnel, dial, registrar, reg, call, account>>
    BY <1>11 DEF vars
  <2>2. Typed'
    BY <1>1, <2>1 DEF Typed, TypeOK, Shapes, DoneIsDecided, network
  <2>3. RegSound' /\ ProxyApart' /\ CallsApart'
    BY <1>1, <2>1 DEF RegSound, ProxyApart, CallsApart
  <2> QED
    BY <2>2, <2>3 DEF IInv
<1> QED
  BY <1>2, <1>3, <1>4, <1>5, <1>6, <1>7, <1>8, <1>9, <1>10, <1>11 DEF Next

\* The inductive invariant holds in every state of every call.
THEOREM Invariance == Spec => []IInv
<1>1. Init => IInv
  BY InitIInv
<1>2. IInv /\ [Next]_vars => IInv'
  BY NextIInv
<1> QED
  BY <1>1, <1>2, PTL DEF Spec

\* Every record keeps its type, and no clock runs past its deadline
\* (CONNECT_PHASE_TIMEOUT, REGISTRATION_PHASE_TIMEOUT).
THEOREM TypesHold == Spec => []TypeOK
<1>1. IInv => TypeOK
  BY DEF IInv, Typed
<1> QED
  BY <1>1, Invariance, PTL

\* With a proxy the XMPP server is neither looked up nor dialled from here, in
\* whatever order its handshakes fail, time out or are retried
\* (connect_attempt_proxy).
THEOREM NoLeak == Spec => []ProxyNeverLeaks
<1>1. IInv => ProxyNeverLeaks
  BY DEF IInv, ProxyApart, ProxyNeverLeaks
<1> QED
  BY <1>1, Invariance, PTL

\* An account that a registration added was created by it, and its password went
\* only to a server that offers the legacy flow, whatever candidates were tried
\* and replies lost before (run_registration, register_account).
THEOREM RegisteredIsCreated == Spec => []RegisteredMeansCreated
<1>1. IInv => RegisteredMeansCreated
  BY DEF IInv, RegSound, CallsApart, RegisteredMeansCreated
<1> QED
  BY <1>1, Invariance, PTL

-----------------------------------------------------------------------------
(* The connect phase. *)

\* Group i was silent, or had a candidate whose failure a retry may cure.
Passed(i) ==
  \/ \A c \in ToSet(Groups[i]) : ~Answers(c)
  \/ \E c \in ToSet(Groups[i]) : At(c) \in {"busy", "dies"}

\* s is what the groups end with.
Trailing(s) ==
  /\ s \in Seq(ToSet(Groups)) /\ Len(s) <= Len(Groups)
  /\ \A i \in 1..Len(s) : s[i] = Groups[Len(Groups) - Len(s) + i]

\* The number of groups that were tried.
Tried == Len(Groups) - Len(dial.groups)

\* While groups are tried: the ones left are the last of the plan, those before
\* them were passed, and the clients that run are the group's, or its first.
Underway ==
  dial.pc \in {"groups", "head", "race"} =>
    /\ Trailing(dial.groups)
    /\ \A i \in 1..Tried : Passed(i)
    /\ dial.last.recoverable
    /\ dial.pc = "head" => dial.groups # <<>> /\ dial.racing = {Head(Head(dial.groups))}
    /\ dial.pc = "race" => dial.groups # <<>> /\ dial.racing = ToSet(Head(dial.groups))
    /\ dial.pc # "groups" => dial.racing \subseteq dial.contacted

\* What two groups may have cost.
InTime ==
  dial.pc \in {"groups", "head", "race"} =>
    LET turn == HAPPY_EYEBALLS_HEAD_START + CONNECT_ATTEMPT_TIMEOUT
        begun == dns.takes + (IF dial.pc = "race" THEN HAPPY_EYEBALLS_HEAD_START ELSE 0)
    IN /\ dns.takes < DNS_TOTAL_TIMEOUT
       /\ Tried = 0 => dial.elapsed <= begun
       /\ Tried = 1 => dial.elapsed <= begun + turn
       /\ Tried = 2 => dial.elapsed <= begun + 2 * turn

\* A member of a group refused the credentials, and the groups before it were
\* passed.
Refused ==
  \E j \in DOMAIN Groups :
    /\ \A i \in 1..(j - 1) : Passed(i)
    /\ \E c \in ToSet(Groups[j]) : c \in dial.contacted /\ At(c) = "rejects"

\* How a phase may end.
Decided ==
  dial.pc = "done" =>
    \/ dial.result.is = "ready" /\ At(dial.result.with) = "online"
    \/ dial.result.is = "failed" /\ proxy # NoProxy
    \/ dial.result.is = "failed" /\ ~dial.result.with.recoverable /\ Refused
    \/ /\ dial.result.is = "failed" /\ dial.result.with.recoverable
       /\ \/ dns.takes >= DNS_TOTAL_TIMEOUT
          \/ dial.elapsed = CONNECT_PHASE_TIMEOUT /\ Len(Groups) >= 3 /\ Passed(3)
          \/ \A i \in DOMAIN Groups : Passed(i)

Begins == dial.pc \in {"idle", "resolve", "proxy"} => dial.elapsed = 0 /\ dial.last = NetworkLost

PhaseInv == Begins /\ Underway /\ InTime /\ Decided

LEMMA PlanIsSound ==
  ASSUME IInv
  PROVE  GroupsAreSound
  BY GroupsSound DEF IInv, Typed, Shapes

LEMMA TrailingGroups ==
  ASSUME GroupsAreSound, NEW s, Trailing(s), s # <<>>
  PROVE  /\ Trailing(Tail(s)) /\ Len(Tail(s)) = Len(s) - 1
         /\ Len(s) \in 1..Len(Groups) /\ Len(Groups) \in Nat /\ Len(Groups) - Len(s) \in Nat
         /\ Head(s) = Groups[Len(Groups) - Len(s) + 1]
         /\ Len(Groups) - Len(s) + 1 \in DOMAIN Groups
         /\ Head(Head(s)) \in ToSet(Head(s))
<1> DEFINE S == ToSet(Groups)
           g == Len(Groups)
           n == Len(s)
<1>1. Groups \in Seq(S) /\ s \in Seq(S) /\ n <= g
  BY DEF GroupsAreSound, Trailing
<1> HIDE DEF S
<1>2. g \in Nat /\ n \in Nat /\ n # 0 /\ DOMAIN Groups = 1..g
  BY <1>1
<1>3. Tail(s) \in Seq(S) /\ Len(Tail(s)) = n - 1 /\ Head(s) = s[1]
  BY <1>1, <1>2
<1>4. \A i \in 1..(n - 1) : Tail(s)[i] = s[i + 1]
  BY <1>1, <1>2
<1>5. \A i \in 1..n : s[i] = Groups[g - n + i]
  BY DEF Trailing
<1> HIDE DEF g, n
<1>6. \A i \in 1..(n - 1) : Tail(s)[i] = Groups[g - (n - 1) + i]
  <2> TAKE i \in 1..(n - 1)
  <2>1. n \in Int /\ g \in Int /\ i + 1 \in 1..n /\ g - n + (i + 1) = g - (n - 1) + i
    BY <1>2
  <2>2. s[i + 1] = Groups[g - n + (i + 1)]
    BY <1>5, <2>1
  <2> QED
    BY <1>4, <2>1, <2>2
<1>7. Trailing(Tail(s))
  <2>1. n - 1 <= g
    BY <1>1, <1>2
  <2> QED
    BY <1>1, <1>3, <1>6, <2>1 DEF Trailing, S, g, n
<1>8. g - n \in Nat /\ g - n + 1 \in 1..g /\ Head(s) = Groups[g - n + 1] /\ n \in 1..g
  BY <1>1, <1>2, <1>3, <1>5
<1>9. Head(Head(s)) \in ToSet(Head(s))
  <2> DEFINE h == Head(s)
  <2>1. h \in Seq(ToSet(h)) /\ h # <<>>
    BY <1>2, <1>8 DEF GroupsAreSound
  <2> HIDE DEF h
  <2> QED
    BY <2>1 DEF h
<1> QED
  BY <1>2, <1>3, <1>7, <1>8, <1>9 DEF n, g

\* The plan and what answers stay as they are.
LEMMA PlanStays ==
  ASSUME UNCHANGED network
  PROVE  /\ Groups' = Groups /\ Attempts' = Attempts /\ dns' = dns
         /\ \A c : At(c)' = At(c)
         /\ \A i : Passed(i)' <=> Passed(i)
         /\ \A s : Trailing(s)' <=> Trailing(s)
<1>1. server' = server /\ dns' = dns /\ net' = net
  BY DEF network
<1>2. Attempts' = Attempts
  BY <1>1 DEF Attempts
<1>3. Groups' = Groups
  BY <1>2 DEF Groups
<1>4. \A c : At(c)' = At(c)
  BY <1>1 DEF At
<1> QED
  BY <1>1, <1>2, <1>3, <1>4 DEF Passed, Trailing, Answers

LEMMA InitPhase == Init => PhaseInv
  BY DEF Init, PhaseInv, Begins, Underway, InTime, Decided, NoDial

\* A group that was passed brings the next: the step from one to the other.
LEMMA GroupIsPassed ==
  ASSUME Shapes, GroupsAreSound, Underway, dial.pc \in {"head", "race"}, Passed(Tried + 1),
         NEW after, after.groups = Tail(dial.groups)
  PROVE  LET tried == Len(Groups) - Len(after.groups) IN
         /\ Trailing(after.groups) /\ tried = Tried + 1 /\ Tried \in Nat
         /\ \A i \in 1..tried : Passed(i)
<1> DEFINE g == Len(Groups)
           n == Len(dial.groups)
<1>1. Trailing(dial.groups) /\ dial.groups # <<>>
  BY DEF Underway
<1>2. /\ Trailing(Tail(dial.groups)) /\ Len(Tail(dial.groups)) = n - 1
      /\ n \in 1..g /\ g \in Nat
  BY <1>1, TrailingGroups
<1>3. \A i \in 1..(g - n) : Passed(i)
  BY DEF Underway, Tried
<1>4. Passed(g - n + 1)
  BY DEF Tried
<1> HIDE DEF g, n
<1>5. g - (n - 1) = g - n + 1 /\ g - n \in Nat
  BY <1>2
<1>6. \A i \in 1..(g - n + 1) : Passed(i)
  BY <1>3, <1>4, <1>5
<1> QED
  BY <1>2, <1>5, <1>6 DEF Tried, g, n

\* A phase that its deadline ends while groups are tried has passed the third.
LEMMA DeadlineIsLate ==
  ASSUME IInv, GroupsAreSound, Underway, InTime,
         \/ dial.pc = "head" /\ dial.elapsed + HAPPY_EYEBALLS_HEAD_START >= CONNECT_PHASE_TIMEOUT
         \/ /\ dial.pc = "race" /\ dial.elapsed + CONNECT_ATTEMPT_TIMEOUT >= CONNECT_PHASE_TIMEOUT
            /\ Passed(Tried + 1)
  PROVE  Len(Groups) >= 3 /\ Passed(3)
<1> DEFINE g == Len(Groups)
           n == Len(dial.groups)
           t == g - n
<1>1. Trailing(dial.groups) /\ dial.groups # <<>>
  BY DEF Underway
<1>2. n \in 1..g /\ g \in Nat
  BY <1>1, TrailingGroups
<1>3. \A i \in 1..t : Passed(i)
  BY DEF Underway, Tried
<1>4. dial.elapsed \in Nat /\ dns.takes \in Nat
  BY DEF IInv, Typed, TypeOK, Shapes
<1> DEFINE begun == dns.takes + (IF dial.pc = "race" THEN HAPPY_EYEBALLS_HEAD_START ELSE 0)
<1>5. /\ dns.takes < DNS_TOTAL_TIMEOUT
      /\ t = 0 => dial.elapsed <= begun
      /\ t = 1 => dial.elapsed <= begun + (HAPPY_EYEBALLS_HEAD_START + CONNECT_ATTEMPT_TIMEOUT)
      /\ t = 2 => dial.elapsed <= begun + 2 * (HAPPY_EYEBALLS_HEAD_START + CONNECT_ATTEMPT_TIMEOUT)
  BY DEF InTime, Tried
<1>6. t = Tried
  BY DEF Tried
<1> HIDE DEF g, n
<1>7. t \in Nat /\ t + 1 <= g
  BY <1>2
<1> HIDE DEF t
<1>8. CASE t >= 3
  BY <1>2, <1>3, <1>7, <1>8 DEF g
<1>9. CASE t < 3
  <2>1. t \in {0, 1, 2}
    BY <1>7, <1>9
  <2>2. dial.pc = "race" /\ t = 2
    BY <1>4, <1>5, <2>1, Limits, BudgetAssumption
  <2> QED
    BY <1>2, <1>6, <1>7, <2>2 DEF g
<1> QED
  BY <1>7, <1>8, <1>9

\* Every step of the phase follows the plan.
LEMMA DialStepPhase ==
  ASSUME IInv, PhaseInv, DialStep, UNCHANGED <<network, proxy, registrar, reg, call, account>>
  PROVE  PhaseInv'
<1>1. Typed /\ Shapes /\ ProxyApart /\ Begins /\ dial.elapsed \in Nat /\ dns.takes \in Nat
  BY DEF IInv, Typed, Shapes, TypeOK, PhaseInv
<1>2. dial'.pc \in {"groups", "head", "race", "tunnel", "done"}
  BY <1>1, DialStepTyped
<1>3. Begins'
  BY <1>2 DEF Begins
<1>4. GroupsAreSound
  BY PlanIsSound
<1>5. Underway /\ InTime /\ Decided
  BY DEF PhaseInv
<1> DEFINE d == dial'
           tried == Len(Groups) - Len(d.groups)
           begun == dns.takes + (IF d.pc = "race" THEN HAPPY_EYEBALLS_HEAD_START ELSE 0)
           turn == HAPPY_EYEBALLS_HEAD_START + CONNECT_ATTEMPT_TIMEOUT
           UnderwayNow ==
             d.pc \in {"groups", "head", "race"} =>
               /\ Trailing(d.groups) /\ \A i \in 1..tried : Passed(i)
               /\ d.last.recoverable
               /\ d.pc = "head" => d.groups # <<>> /\ d.racing = {Head(Head(d.groups))}
               /\ d.pc = "race" => d.groups # <<>> /\ d.racing = ToSet(Head(d.groups))
               /\ d.pc # "groups" => d.racing \subseteq d.contacted
           InTimeNow ==
             d.pc \in {"groups", "head", "race"} =>
               /\ dns.takes < DNS_TOTAL_TIMEOUT
               /\ tried = 0 => d.elapsed <= begun
               /\ tried = 1 => d.elapsed <= begun + turn
               /\ tried = 2 => d.elapsed <= begun + 2 * turn
           RefusedNow ==
             \E j \in DOMAIN Groups :
               /\ \A i \in 1..(j - 1) : Passed(i)
               /\ \E c \in ToSet(Groups[j]) : c \in d.contacted /\ At(c) = "rejects"
           DecidedNow ==
             d.pc = "done" =>
               \/ d.result.is = "ready" /\ At(d.result.with) = "online"
               \/ d.result.is = "failed" /\ proxy # NoProxy
               \/ d.result.is = "failed" /\ ~d.result.with.recoverable /\ RefusedNow
               \/ /\ d.result.is = "failed" /\ d.result.with.recoverable
                  /\ \/ dns.takes >= DNS_TOTAL_TIMEOUT
                     \/ d.elapsed = CONNECT_PHASE_TIMEOUT /\ Len(Groups) >= 3 /\ Passed(3)
                     \/ \A i \in DOMAIN Groups : Passed(i)
<1>6. SUFFICES UnderwayNow /\ InTimeNow /\ DecidedNow
  <2>1. /\ Groups' = Groups /\ dns' = dns /\ proxy' = proxy /\ net' = net
        /\ \A i : Passed(i)' <=> Passed(i)
    BY PlanStays DEF network
  <2>2. Underway'
    BY <1>6, <2>1 DEF Underway, Tried, Trailing
  <2>3. InTime'
    BY <1>6, <2>1 DEF InTime, Tried
  <2>4. Decided'
    BY <1>6, <2>1 DEF Decided, Refused, At
  <2> QED
    BY <1>3, <2>2, <2>3, <2>4 DEF PhaseInv
<1>7. \A r : Failed(r).is = "failed" /\ Failed(r).with = r /\ Ready(r).is = "ready" /\ Ready(r).with = r
  BY DEF Failed, Ready
<1>8. NetworkLost.recoverable
  BY DEF NetworkLost, Failure
<1>9. CASE Resolve
  <2>1. dial.elapsed = 0 /\ dial.last = NetworkLost
    BY <1>1, <1>9 DEF Resolve, Begins
  <2> DEFINE asked == [dial EXCEPT !.lookups = @ \cup {"xmpp"}, !.pc = "groups", !.groups = Groups]
             lost == Done(Failed(NetworkLost))
  <2>2. /\ DOMAIN asked = DOMAIN dial /\ asked.pc = "groups" /\ asked.groups = Groups
        /\ asked.last = NetworkLost
    BY <1>1, <2>1 DEF Shapes
  <2>3. \/ /\ dns.takes >= DNS_TOTAL_TIMEOUT
           /\ d = [lost EXCEPT !.lookups = asked.lookups, !.elapsed = DNS_TOTAL_TIMEOUT]
        \/ Attempts = <<>> /\ d = [lost EXCEPT !.lookups = asked.lookups]
        \/ ~(dns.takes >= DNS_TOTAL_TIMEOUT) /\ d = After(dns.takes, asked)
    BY <1>9 DEF Resolve, Groups
  <2>4. DOMAIN lost = DOMAIN dial /\ lost.pc = "done" /\ lost.result = Failed(NetworkLost)
    BY <1>1, DoneFields
  <2> HIDE DEF asked, lost
  <2>5. CASE /\ dns.takes >= DNS_TOTAL_TIMEOUT
             /\ d = [lost EXCEPT !.lookups = asked.lookups, !.elapsed = DNS_TOTAL_TIMEOUT]
    <3>1. d.pc = "done" /\ d.result = Failed(NetworkLost)
      BY <1>1, <2>4, <2>5 DEF Shapes
    <3> QED
      BY <1>7, <1>8, <2>5, <3>1
  <2>6. CASE Attempts = <<>> /\ d = [lost EXCEPT !.lookups = asked.lookups]
    <3>1. d.pc = "done" /\ d.result = Failed(NetworkLost)
      BY <1>1, <2>4, <2>6 DEF Shapes
    <3>2. DOMAIN Groups = {}
      <4>1. Groups = <<>>
        BY <2>6, NoGroups DEF Groups
      <4> QED
        BY <4>1
    <3> QED
      BY <1>7, <1>8, <3>1, <3>2
  <2>7. CASE ~(dns.takes >= DNS_TOTAL_TIMEOUT) /\ d = After(dns.takes, asked)
    <3>1. ~(dial.elapsed + dns.takes >= CONNECT_PHASE_TIMEOUT)
      BY <1>1, <2>1, <2>7, Limits
    <3>2. /\ d.pc = "groups" /\ d.groups = Groups /\ d.last = NetworkLost
          /\ d.elapsed = dns.takes
      BY <1>1, <2>1, <2>2, <2>7, <3>1, AfterFields
    <3>3. Groups \in Seq(ToSet(Groups))
      BY <1>4 DEF GroupsAreSound
    <3>4. Len(Groups) \in Nat
      BY <3>3
    <3>5. Trailing(Groups)
      BY <3>3, <3>4 DEF Trailing
    <3>6. tried = 0
      BY <3>2, <3>4
    <3>7. UnderwayNow
      BY <1>8, <3>2, <3>5, <3>6
    <3>8. InTimeNow
      BY <1>1, <2>7, <3>2, <3>6, Limits
    <3> QED
      BY <3>2, <3>7, <3>8
  <2> QED
    BY <2>3, <2>5, <2>6, <2>7
<1>10. CASE NextGroup
  <2>1. /\ dial.pc = "groups" /\ Trailing(dial.groups) /\ \A i \in 1..Tried : Passed(i)
        /\ dial.last.recoverable
    BY <1>5, <1>10 DEF NextGroup, Underway
  <2>2. CASE dial.groups = <<>>
    <3>1. d.pc = "done" /\ d.result = Failed(dial.last)
      BY <1>1, <1>10, <2>2, DoneFields DEF NextGroup
    <3>2. Groups \in Seq(ToSet(Groups))
      BY <1>4 DEF GroupsAreSound
    <3>3. DOMAIN Groups = 1..Len(Groups) /\ Tried = Len(Groups)
      BY <2>2, <3>2 DEF Tried
    <3> QED
      BY <1>7, <2>1, <3>1, <3>3
  <2>3. CASE dial.groups # <<>>
    <3> DEFINE first == Head(Head(dial.groups))
    <3>1. d = [dial EXCEPT !.pc = "head", !.racing = {first}, !.contacted = @ \cup {first}]
      BY <1>10, <2>3 DEF NextGroup
    <3>2. /\ d.pc = "head" /\ d.racing = {first} /\ d.contacted = dial.contacted \cup {first}
          /\ d.groups = dial.groups /\ d.last = dial.last /\ d.elapsed = dial.elapsed
      BY <1>1, <3>1 DEF Shapes
    <3>3. UnderwayNow
      BY <2>1, <2>3, <3>2 DEF Tried
    <3>4. InTimeNow
      BY <1>5, <2>1, <3>2 DEF InTime, Tried
    <3> QED
      BY <3>2, <3>3, <3>4
  <2> QED
    BY <2>2, <2>3
<1>11. CASE HeadStartElapses
  <2>1. /\ dial.pc = "head" /\ Trailing(dial.groups) /\ \A i \in 1..Tried : Passed(i)
        /\ dial.last.recoverable /\ dial.groups # <<>>
    BY <1>5, <1>11 DEF HeadStartElapses, Underway
  <2> DEFINE group == ToSet(Head(dial.groups))
             next == [dial EXCEPT !.pc = "race", !.racing = group, !.contacted = @ \cup group]
  <2>2. d = After(HAPPY_EYEBALLS_HEAD_START, next)
    BY <1>11 DEF HeadStartElapses
  <2>3. /\ DOMAIN next = DOMAIN dial /\ next.pc = "race" /\ next.racing = group
        /\ next.contacted = dial.contacted \cup group
        /\ next.groups = dial.groups /\ next.last = dial.last
    BY <1>1 DEF Shapes
  <2> HIDE DEF next
  <2>4. CASE dial.elapsed + HAPPY_EYEBALLS_HEAD_START >= CONNECT_PHASE_TIMEOUT
    <3>1. /\ d.pc = "done" /\ d.result = Failed(NetworkLost) /\ d.elapsed = CONNECT_PHASE_TIMEOUT
      BY <1>1, <2>2, <2>3, <2>4, AfterFields
    <3>2. Len(Groups) >= 3 /\ Passed(3)
      BY <1>4, <1>5, <2>1, <2>4, DeadlineIsLate
    <3> QED
      BY <1>7, <1>8, <3>1, <3>2
  <2>5. CASE ~(dial.elapsed + HAPPY_EYEBALLS_HEAD_START >= CONNECT_PHASE_TIMEOUT)
    <3>1. /\ d.pc = "race" /\ d.racing = group /\ d.contacted = dial.contacted \cup group
          /\ d.groups = dial.groups /\ d.last = dial.last
          /\ d.elapsed = dial.elapsed + HAPPY_EYEBALLS_HEAD_START
      BY <1>1, <2>2, <2>3, <2>5, AfterFields
    <3>2. UnderwayNow
      BY <2>1, <3>1 DEF Tried
    <3>3. InTimeNow
      BY <1>1, <1>5, <2>1, <3>1, Limits DEF InTime, Tried
    <3> QED
      BY <3>1, <3>2, <3>3
  <2> QED
    BY <2>4, <2>5
<1>12. CASE FirstEvent
  <2>1. PICK c \in dial.racing : Answers(c) /\ d = FirstEventOf(c)
    BY <1>12 DEF FirstEvent
  <2>2. /\ dial.pc \in {"head", "race"} /\ Trailing(dial.groups) /\ \A i \in 1..Tried : Passed(i)
        /\ dial.groups # <<>> /\ dial.racing \subseteq dial.contacted
        /\ dial.racing = {Head(Head(dial.groups))} \/ dial.racing = ToSet(Head(dial.groups))
    BY <1>5, <1>12 DEF FirstEvent, Underway
  <2>3. /\ Head(dial.groups) = Groups[Tried + 1] /\ Tried + 1 \in DOMAIN Groups
        /\ Head(Head(dial.groups)) \in ToSet(Head(dial.groups))
        /\ Tried \in Nat
    BY <1>4, <2>2, TrailingGroups DEF Tried
  <2>4. c \in ToSet(Groups[Tried + 1]) /\ c \in dial.contacted
    BY <2>1, <2>2, <2>3
  <2>5. CASE At(c) = "online"
    <3>1. d.pc = "done" /\ d.result = Ready(c)
      BY <1>1, <2>1, <2>5, DoneFields DEF FirstEventOf
    <3> QED
      BY <1>7, <2>5, <3>1
  <2>6. CASE At(c) = "rejects"
    <3> DEFINE failure == FirstEventFailure(c)
    <3>1. ~failure.recoverable
      BY <2>6 DEF FirstEventFailure, Failure
    <3>2. d = GroupFails(failure)
      BY <2>1, <2>6 DEF FirstEventOf
    <3> HIDE DEF failure
    <3>3. d.pc = "done" /\ d.result = Failed(failure) /\ d.contacted = dial.contacted
      BY <1>1, <3>1, <3>2, GroupFailsFields, DoneFields
    <3>4. (Tried + 1) - 1 = Tried
      BY <2>3
    <3>5. RefusedNow
      BY <2>2, <2>3, <2>4, <2>6, <3>3, <3>4
    <3> HIDE DEF RefusedNow
    <3> QED
      BY <1>7, <3>1, <3>3, <3>5
  <2>7. CASE At(c) \in {"busy", "dies"}
    <3> DEFINE failure == FirstEventFailure(c)
    <3>1. failure.recoverable
      BY <2>7 DEF FirstEventFailure, Failure, NetworkLost
    <3>2. d = GroupFails(failure)
      BY <2>1, <2>7 DEF FirstEventOf
    <3> HIDE DEF failure
    <3>3. /\ d.pc = "groups" /\ d.last = failure /\ d.groups = Tail(dial.groups)
          /\ d.elapsed = dial.elapsed
      BY <1>1, <3>1, <3>2, GroupFailsFields
    <3>4. Passed(Tried + 1)
      BY <2>4, <2>7 DEF Passed
    <3>5. Trailing(d.groups) /\ tried = Tried + 1 /\ \A i \in 1..tried : Passed(i)
      BY <1>1, <1>4, <1>5, <2>2, <3>3, <3>4, GroupIsPassed
    <3>6. UnderwayNow
      BY <3>1, <3>3, <3>5
    <3> HIDE DEF tried
    <3>7. InTimeNow
      BY <1>1, <1>5, <2>2, <2>3, <3>3, <3>5, Limits DEF InTime
    <3> QED
      BY <3>3, <3>6, <3>7
  <2> QED
    BY <2>1, <2>5, <2>6, <2>7 DEF Answers
<1>13. CASE GroupTimesOut
  <2>1. /\ dial.pc = "race" /\ dial.racing = ToSet(Head(dial.groups)) /\ dial.groups # <<>>
        /\ Trailing(dial.groups)
    BY <1>5, <1>13 DEF GroupTimesOut, Underway
  <2>2. Head(dial.groups) = Groups[Tried + 1] /\ Tried \in Nat
    BY <1>4, <2>1, TrailingGroups DEF Tried
  <2>3. Passed(Tried + 1)
    BY <1>13, <2>1, <2>2 DEF GroupTimesOut, Passed
  <2> DEFINE next == GroupFails(NetworkLost)
  <2>4. d = After(CONNECT_ATTEMPT_TIMEOUT, next)
    BY <1>13 DEF GroupTimesOut
  <2>5. /\ DOMAIN next = DOMAIN dial /\ next.pc = "groups" /\ next.last = NetworkLost
        /\ next.groups = Tail(dial.groups)
    BY <1>1, <1>8, GroupFailsFields
  <2> HIDE DEF next
  <2>6. CASE dial.elapsed + CONNECT_ATTEMPT_TIMEOUT >= CONNECT_PHASE_TIMEOUT
    <3>1. d.pc = "done" /\ d.result = Failed(NetworkLost) /\ d.elapsed = CONNECT_PHASE_TIMEOUT
      BY <1>1, <2>4, <2>5, <2>6, AfterFields
    <3>2. Len(Groups) >= 3 /\ Passed(3)
      BY <1>4, <1>5, <2>1, <2>3, <2>6, DeadlineIsLate
    <3> QED
      BY <1>7, <1>8, <3>1, <3>2
  <2>7. CASE ~(dial.elapsed + CONNECT_ATTEMPT_TIMEOUT >= CONNECT_PHASE_TIMEOUT)
    <3>1. /\ d.pc = "groups" /\ d.last = NetworkLost /\ d.groups = Tail(dial.groups)
          /\ d.elapsed = dial.elapsed + CONNECT_ATTEMPT_TIMEOUT
      BY <1>1, <2>4, <2>5, <2>7, AfterFields
    <3>2. Trailing(d.groups) /\ tried = Tried + 1 /\ \A i \in 1..tried : Passed(i)
      BY <1>1, <1>4, <1>5, <2>1, <2>3, <3>1, GroupIsPassed
    <3>3. UnderwayNow
      BY <1>8, <3>1, <3>2
    <3> HIDE DEF tried
    <3>4. InTimeNow
      BY <1>1, <1>5, <2>1, <2>2, <3>1, <3>2, Limits DEF InTime
    <3> QED
      BY <3>1, <3>3, <3>4
  <2> QED
    BY <2>6, <2>7
<1>14. CASE DialProxy
  <2>1. proxy # NoProxy
    BY <1>1, <1>14 DEF DialProxy, ProxyApart
  <2> DEFINE failure == Failure(TRUE, "Unknown")
  <2>2. \/ d = Done(Failed(failure))
        \/ d = [dial EXCEPT !.pc = "tunnel", !.lookups = {"proxy"}, !.contacted = {"proxy"}]
    BY <1>14 DEF DialProxy
  <2> HIDE DEF failure
  <2>3. d.pc = "tunnel" \/ (d.pc = "done" /\ d.result = Failed(failure))
    <3>1. Done(Failed(failure)).pc = "done" /\ Done(Failed(failure)).result = Failed(failure)
      BY <1>1, DoneFields
    <3> QED
      BY <1>1, <2>2, <3>1 DEF Shapes
  <2> QED
    BY <1>7, <2>1, <2>3
<1>15. CASE TunnelledEvent
  <2>1. proxy # NoProxy
    BY <1>1, <1>15 DEF TunnelledEvent, ProxyApart
  <2>2. \/ At(ThroughTunnel) = "online" /\ d = Done(Ready(ThroughTunnel))
        \/ d = Done(Failed(FirstEventFailure(ThroughTunnel)))
    BY <1>15 DEF TunnelledEvent
  <2>3. CASE At(ThroughTunnel) = "online" /\ d = Done(Ready(ThroughTunnel))
    BY <1>1, <1>7, <2>3, DoneFields
  <2>4. CASE d = Done(Failed(FirstEventFailure(ThroughTunnel)))
    BY <1>1, <1>7, <2>1, <2>4, DoneFields
  <2> QED
    BY <2>2, <2>3, <2>4
<1>16. CASE ProxyTimesOut
  <2>1. proxy # NoProxy
    BY <1>1, <1>16 DEF ProxyTimesOut, ProxyApart
  <2> DEFINE next == Done(Failed(NetworkLost))
  <2>2. d = After(CONNECT_ATTEMPT_TIMEOUT, next)
    BY <1>16 DEF ProxyTimesOut
  <2>3. DOMAIN next = DOMAIN dial /\ next.pc = "done" /\ next.result = Failed(NetworkLost)
    BY <1>1, DoneFields
  <2> HIDE DEF next
  <2>4. d.pc = "done" /\ d.result = Failed(NetworkLost)
    BY <1>1, <2>2, <2>3, AfterFields
  <2> QED
    BY <1>7, <2>1, <2>4
<1>17. CASE TunnelRetries \/ DialTunnelStep
  BY <1>17 DEF TunnelRetries, DialTunnelStep
<1> QED
  BY <1>9, <1>10, <1>11, <1>12, <1>13, <1>14, <1>15, <1>16, <1>17 DEF DialStep

LEMMA SequencesJoined ==
  ASSUME NEW S, NEW T, NEW a \in Seq(S), NEW b \in Seq(T)
  PROVE  ToSet(a) \subseteq ToSet(a \o b) /\ ToSet(b) \subseteq ToSet(a \o b)
<1>1. Len(a) \in Nat /\ Len(b) \in Nat /\ DOMAIN a = 1..Len(a) /\ DOMAIN b = 1..Len(b)
  OBVIOUS
<1>2. /\ a \o b \in Seq(S \cup T) /\ Len(a \o b) = Len(a) + Len(b)
      /\ \A i \in 1..Len(a) : (a \o b)[i] = a[i]
      /\ \A i \in 1..Len(b) : (a \o b)[Len(a) + i] = b[i]
  <2>1. a \in Seq(S \cup T) /\ b \in Seq(S \cup T)
    OBVIOUS
  <2> QED
    BY <2>1
<1>3. DOMAIN (a \o b) = 1..(Len(a) + Len(b))
  BY <1>2
<1>4. \A i \in 1..Len(b) : Len(a) + i \in 1..(Len(a) + Len(b))
  BY <1>1
<1>5. \A i \in 1..Len(a) : i \in 1..(Len(a) + Len(b))
  BY <1>1
<1> QED
  BY <1>1, <1>2, <1>3, <1>4, <1>5 DEF ToSet

LEMMA NextPhase == IInv /\ PhaseInv /\ [Next]_vars => PhaseInv'
<1> SUFFICES ASSUME IInv, PhaseInv, [Next]_vars PROVE PhaseInv'
  OBVIOUS
<1>1. CASE Worker
  BY <1>1, DialStepPhase DEF Worker
<1>2. ASSUME UNCHANGED <<network, proxy, dial>> PROVE PhaseInv'
  <2>1. /\ Groups' = Groups /\ dns' = dns /\ net' = net
        /\ \A i : Passed(i)' <=> Passed(i)
    BY <1>2, PlanStays DEF network
  <2>2. Begins' <=> Begins
    BY <1>2 DEF Begins
  <2>3. Underway => Underway'
    BY <1>2, <2>1 DEF Underway, Tried, Trailing
  <2>4. InTime => InTime'
    BY <1>2, <2>1 DEF InTime, Tried
  <2>5. Decided => Decided'
    BY <1>2, <2>1 DEF Decided, Refused, At
  <2> QED
    BY <2>1, <2>2, <2>3, <2>4, <2>5 DEF PhaseInv
<1>3. ASSUME StartSession, call \in {"connect", "register"}, UNCHANGED <<network, proxy>> PROVE PhaseInv'
  <2>1. dial = NoDial
    BY <1>3 DEF IInv, CallsApart
  <2>2. CASE dial' = dial
    BY <1>2, <1>3, <2>2
  <2>3. CASE dial' # dial
    <3> DEFINE pc == IF proxy = NoProxy THEN "resolve" ELSE "proxy"
    <3>1. dial' = [NoDial EXCEPT !.pc = pc]
      BY <1>3, <2>3 DEF StartSession
    <3>2. pc \in {"resolve", "proxy"}
      OBVIOUS
    <3> HIDE DEF pc
    <3>3. dial'.pc \in {"resolve", "proxy"} /\ dial'.elapsed = 0 /\ dial'.last = NetworkLost
      BY <3>1, <3>2 DEF NoDial
    <3> QED
      BY <3>3 DEF PhaseInv, Begins, Underway, InTime, Decided, NetworkLost, Failure
  <2> QED
    BY <2>2, <2>3
<1>4. CASE ConnectAccount
  BY <1>3, <1>4 DEF ConnectAccount
<1>5. CASE RegisterReturns
  BY <1>2, <1>3, <1>5 DEF RegisterReturns
<1>6. CASE SessionStarts \/ RegisterBegins \/ ProbeBegins \/ ProbeReturns \/ Registers \/ Probes
  BY <1>2, <1>6 DEF SessionStarts, RegisterBegins, ProbeBegins, ProbeReturns, Registers, Probes
<1>7. CASE UNCHANGED vars
  BY <1>2, <1>7 DEF vars
<1> QED
  BY <1>1, <1>4, <1>5, <1>6, <1>7 DEF Next

\* The invariant of the connect phase.
THEOREM PhaseInvariance == Spec => []PhaseInv
<1>1. Init => PhaseInv
  BY InitPhase
<1>2. IInv /\ PhaseInv /\ [Next]_vars => PhaseInv'
  BY NextPhase
<1> QED
  BY <1>1, <1>2, Invariance, PTL DEF Spec

\* Of any plan, however long and whatever answers: a group is dialled only after
\* the one before it was silent or failed in a way that a retry may cure
\* (terminal_if_auth, connect_attempt).
THEOREM NoRetry == Spec => []NoRetryAfterVerdict
<1>1. IInv /\ PhaseInv => NoRetryAfterVerdict
  <2> SUFFICES ASSUME IInv, PhaseInv, dial.pc = "head", Len(Groups) - Len(dial.groups) >= 1
               PROVE  Passed(Len(Groups) - Len(dial.groups))
    BY DEF NoRetryAfterVerdict, Passed
  <2>1. Trailing(dial.groups) /\ dial.groups # <<>> /\ \A i \in 1..Tried : Passed(i)
    BY DEF PhaseInv, Underway
  <2>2. Tried \in Nat
    BY <2>1, PlanIsSound, TrailingGroups DEF Tried
  <2>3. Tried >= 1
    BY DEF Tried
  <2>4. Passed(Tried)
    BY <2>1, <2>2, <2>3
  <2> QED
    BY <2>4 DEF Tried
<1> QED
  BY <1>1, Invariance, PhaseInvariance, PTL

LEMMA Clocks ==
  ASSUME IInv
  PROVE  /\ dial.elapsed \in Nat /\ dns.takes \in Nat
         /\ CONNECT_PHASE_TIMEOUT \in Nat /\ DNS_TOTAL_TIMEOUT \in Nat
  BY Limits DEF IInv, Typed, TypeOK, Shapes

\* Of any plan: the verdict of a phase has its reason (connect_attempt,
\* try_group).
THEOREM VerdictExplained == Spec => []VerdictIsExplained
<1>1. IInv /\ PhaseInv => VerdictIsExplained
  <2> SUFFICES ASSUME IInv, PhaseInv, dial.pc = "done" PROVE VerdictIsExplained
    BY DEF VerdictIsExplained
  <2>1. Decided
    BY DEF PhaseInv
  <2>2. CASE dial.result.is = "ready"
    BY <2>1, <2>2 DEF Decided, VerdictIsExplained
  <2>3. CASE dial.result.is = "failed" /\ proxy = NoProxy /\ ~dial.result.with.recoverable
    <3>1. Refused
      BY <2>1, <2>3 DEF Decided
    <3>2. \E c \in dial.contacted : At(c) = "rejects"
      BY <3>1 DEF Refused
    <3> QED
      BY <2>3, <3>2 DEF VerdictIsExplained
  <2>4. CASE dial.result.is = "failed" /\ proxy = NoProxy /\ dial.result.with.recoverable
    <3>1. SUFFICES ASSUME dial.elapsed < CONNECT_PHASE_TIMEOUT, dns.takes < DNS_TOTAL_TIMEOUT,
                          NEW group \in ToSet(Groups), \E c \in ToSet(group) : At(c) = "online"
                   PROVE  \E d \in ToSet(group) : At(d) \in {"busy", "dies"}
      BY <2>4 DEF VerdictIsExplained
    <3>2. PICK i \in DOMAIN Groups : group = Groups[i]
      BY DEF ToSet
    <3>3. Passed(i)
      BY <2>1, <2>4, <3>1, Clocks DEF Decided
    <3> QED
      BY <3>1, <3>2, <3>3 DEF Passed, Answers
  <2>5. CASE dial.result.is = "failed" /\ proxy # NoProxy
    BY <2>5 DEF VerdictIsExplained
  <2> QED
    BY <2>1, <2>2, <2>3, <2>4, <2>5 DEF Decided
<1> QED
  BY <1>1, Invariance, PhaseInvariance, PTL

\* Of any plan and with any limits that BudgetAssumption allows: two dead groups
\* leave time for a third, as slow as the resolvers may be
\* (resolve_endpoints_with).
THEOREM ThirdGroupReached == Spec => []ThirdGroupIsReached
<1>1. IInv /\ PhaseInv => ThirdGroupIsReached
  <2> SUFFICES ASSUME IInv, PhaseInv, dial.pc = "done", proxy = NoProxy,
                      dns.takes < DNS_TOTAL_TIMEOUT, Len(Groups) >= 3,
                      \A c \in ToSet(Groups[1] \o Groups[2]) : ~Answers(c),
                      \A c \in ToSet(Groups[3]) : At(c) = "online"
               PROVE  dial.result.is = "ready"
    BY DEF ThirdGroupIsReached
  <2>1. Decided
    BY DEF PhaseInv
  <2>2. Groups \in Seq(ToSet(Groups))
    BY PlanIsSound DEF GroupsAreSound
  <2>3. Len(Groups) \in Nat /\ DOMAIN Groups = 1..Len(Groups)
    BY <2>2
  <2>4. \A i \in {1, 2, 3} : Groups[i] \in Seq(ToSet(Groups[i])) /\ Groups[i] # <<>>
    <3>1. {1, 2, 3} \subseteq DOMAIN Groups
      BY <2>3
    <3>2. \A i \in DOMAIN Groups : Groups[i] \in Seq(ToSet(Groups[i])) /\ Groups[i] # <<>>
      BY PlanIsSound DEF GroupsAreSound
    <3> QED
      BY <3>1, <3>2, Zenon
  <2>5. ~Passed(3)
    <3> DEFINE third == Groups[3]
    <3>1. third \in Seq(ToSet(third)) /\ third # <<>>
      BY <2>4
    <3> HIDE DEF third
    <3>2. third[1] \in ToSet(third)
      BY <3>1
    <3> QED
      BY <3>2 DEF Passed, Answers, third
  <2>6. \A i \in {1, 2} : \A c \in ToSet(Groups[i]) : ~Answers(c)
    <3> DEFINE a == Groups[1]
               b == Groups[2]
    <3>1. a \in Seq(ToSet(a)) /\ b \in Seq(ToSet(b))
      BY <2>4
    <3>2. \A c \in ToSet(a \o b) : ~Answers(c)
      OBVIOUS
    <3> HIDE DEF a, b
    <3>3. ToSet(a) \subseteq ToSet(a \o b) /\ ToSet(b) \subseteq ToSet(a \o b)
      BY <3>1, SequencesJoined
    <3> QED
      BY <3>2, <3>3 DEF a, b
  <2>7. ~Refused
    <3> SUFFICES ASSUME NEW j \in DOMAIN Groups, \A i \in 1..(j - 1) : Passed(i),
                        NEW c \in ToSet(Groups[j]), At(c) = "rejects"
                 PROVE  FALSE
      BY DEF Refused
    <3>1. j \in {1, 2, 3} \/ j > 3
      BY <2>3
    <3> QED
      BY <2>3, <2>5, <2>6, <3>1 DEF Answers
  <2> QED
    BY <2>1, <2>3, <2>5, <2>7, Clocks DEF Decided
<1> QED
  BY <1>1, Invariance, PhaseInvariance, PTL

\* For any server field and any answers of the resolvers: the plan is what its
\* comments say (resolve_endpoints_with, order_srv_candidates,
\* dedupe_candidates, group_attempts).
THEOREM PlanFaithful == Spec => []PlanIsFaithful
<1>1. IInv => PlanIsFaithful
  <2> SUFFICES ASSUME IInv PROVE PlanIsFaithful
    OBVIOUS
  <2>1. dns \in Resolved
    BY DEF IInv, Typed, Shapes
  <2>2. GroupsCut(Attempts)
    BY <2>1, PlanCut
  <2>3. Domain => OrderKept(Attempts) /\ EachOnce(Attempts)
    BY <2>1, PlanOrdered
  <2> QED
    BY <2>2, <2>3 DEF PlanIsFaithful, Domain
<1> QED
  BY <1>1, Invariance, PTL

-----------------------------------------------------------------------------
(* The proxy handshakes, for any proxies that conform to their protocol. *)

\* What comes in answer to the CONNECT.
Answer == proxy.onConnect \o proxy.payload

\* The greeting was answered with a method that was offered, and the
\* credentials, if that asks for them, were accepted.
Greeted ==
  /\ Len(proxy.onGreeting) = 2
  /\ proxy.onGreeting[1] = 5 /\ proxy.onGreeting[2] \in OfferedMethods

\* The answer is split into the lines read, the buffer and the socket.
Split(h, b, w) ==
  /\ h \in Seq(STRING) /\ b \in Seq(STRING) /\ w \in Seq(STRING)
  /\ Len(h) + Len(b) + Len(w) = Len(Answer)
  /\ \A i \in 1..Len(h) : h[i] = Answer[i]
  /\ \A i \in 1..Len(b) : b[i] = Answer[Len(h) + i]
  /\ \A i \in 1..Len(w) : w[i] = Answer[Len(h) + Len(b) + i]

\* The proxy has granted the tunnel.
Granted ==
  IF proxy.kind = "Socks5"
  THEN /\ proxy.onGreeting[1] = 5 /\ proxy.onGreeting[2] \in OfferedMethods
       /\ proxy.onGreeting[2] = 2 => proxy.onAuth = <<1, 0>>
       /\ proxy.onConnect[1] = 5 /\ proxy.onConnect[2] = 0
  ELSE proxy.onConnect[1] = "200"

\* What is known of a handshake t at each of its reads.
Knows(t) ==
  /\ t.pc # "done" => t.result = "none"
  /\ proxy.kind = "Socks5" => t.buffer = <<>>
  /\ t.pc \in {"method", "auth", "reply"} => proxy.kind = "Socks5"
  /\ t.pc = "method" => t.wire = proxy.onGreeting
  /\ t.pc = "auth" => Greeted /\ proxy.onGreeting[2] = 2 /\ t.wire = proxy.onAuth
  /\ t.pc = "reply" =>
       /\ Greeted /\ t.wire = Answer
       /\ proxy.onGreeting[2] = 2 => proxy.onAuth = <<1, 0>>
  /\ t.pc = "headers" =>
       /\ proxy.kind = "HttpConnect" /\ Split(t.headers, t.buffer, t.wire)
       /\ \A i \in 1..Len(t.headers) : t.headers[i] # "blank"
  /\ t.result = "ok" => Granted /\ t.buffer \o t.wire = proxy.payload

TunnelInv == Knows(tunnel)

\* A handshake runs only with a proxy that conforms.
ProxyInv ==
  /\ proxy = NoProxy \/ Conforms(proxy)
  /\ call = "probe" => Conforms(proxy)

-----------------------------------------------------------------------------
(* Sequences. *)

LEMMA RestOfTwo ==
  ASSUME NEW S, NEW s \in Seq(S), Len(s) = 2
  PROVE  SubSeq(s, 2 + 1, Len(s)) = <<>>
  OBVIOUS

LEMMA EmptyPrefix ==
  ASSUME NEW S, NEW s \in Seq(S)
  PROVE  <<>> \o s = s
  OBVIOUS

\* The end of a sequence that another one begins is what it was joined with.
LEMMA RestOfJoined ==
  ASSUME NEW S, NEW a \in Seq(S), NEW b \in Seq(S)
  PROVE  SubSeq(a \o b, Len(a) + 1, Len(a \o b)) = b
<1> DEFINE w == a \o b
           r == SubSeq(w, Len(a) + 1, Len(w))
<1>1. Len(a) \in Nat /\ Len(b) \in Nat /\ w \in Seq(S) /\ Len(w) = Len(a) + Len(b)
  OBVIOUS
<1>2. \A i \in 1..Len(b) : w[Len(a) + i] = b[i]
  OBVIOUS
<1> HIDE DEF w
<1>3. r \in Seq(S) /\ Len(r) = Len(b)
  BY <1>1
<1>4. \A i \in 1..Len(b) : r[i] = w[Len(a) + i]
  BY <1>1
<1> HIDE DEF r
<1>5. r = b
  BY <1>2, <1>3, <1>4, SeqEqual
<1> QED
  BY <1>5 DEF r, w

-----------------------------------------------------------------------------
(* SOCKS5. *)

\* A reply that is read as a success is the whole of the proxy's.
LEMMA SocksReplyIsWhole ==
  ASSUME Conforms(proxy), proxy.kind = "Socks5",
         Len(Answer) >= 4, ConnectReplyLength(Answer) # 0, Len(Answer) >= ConnectReplyLength(Answer)
  PROVE  /\ SubSeq(Answer, ConnectReplyLength(Answer) + 1, Len(Answer)) = proxy.payload
         /\ Len(proxy.onConnect) >= 4
         /\ \A i \in 1..4 : Answer[i] = proxy.onConnect[i]
<1> DEFINE a == proxy.onConnect
           b == proxy.payload
           w == a \o b
           n == ConnectReplyLength(a)
           m == ConnectReplyLength(w)
<1>1. /\ a \in Seq(Nat) /\ b \in Seq(Nat)
      /\ Len(a) >= 4 => n = 0 \/ n >= Len(a)
      /\ b # <<>> => Len(a) >= 4 /\ n \in {0, Len(a)}
  <2>1. /\ a \in Seq(Nat) /\ b \in Seq(Nat)
        /\ Len(a) >= 4 /\ a[4] \in SocksAddressTypes =>
             /\ Len(a) <= SocksReplyLength(a)
             /\ b # <<>> => Len(a) = SocksReplyLength(a)
        /\ b # <<>> => Len(a) >= 4
    BY DEF Conforms
  <2> HIDE DEF a, b
  <2>2. Len(a) \in Nat /\ (~(Len(a) < 5) => a[5] \in Nat)
    BY <2>1
  <2>3. a[4] \notin SocksAddressTypes => n = 0
    BY DEF SocksAddressTypes, ConnectReplyLength, SOCKS5_ATYP_IPV4, SOCKS5_ATYP_IPV6, SOCKS5_ATYP_DOMAIN
  <2>4. ASSUME a[4] \in SocksAddressTypes
        PROVE  n = SocksReplyLength(a) \/ (Len(a) < 5 /\ n = 5 /\ SocksReplyLength(a) = 7)
    BY <2>2, <2>4 DEF SocksAddressTypes, SocksReplyLength, ConnectReplyLength,
                      SOCKS5_ATYP_IPV4, SOCKS5_ATYP_IPV6, SOCKS5_ATYP_DOMAIN
  <2> HIDE DEF n
  <2> QED
    BY <2>1, <2>2, <2>3, <2>4
<1>2. w = Answer
  BY DEF Answer
<1>3. Len(w) >= 4 /\ m # 0 /\ Len(w) >= m
  BY <1>2
<1> HIDE DEF n, m, a, b
<1>4. Len(a) \in Nat /\ Len(b) \in Nat /\ Len(w) = Len(a) + Len(b) /\ w \in Seq(Nat)
  BY <1>1
<1>5. Len(a) >= 4
  <2>1. CASE b = <<>>
    BY <1>3, <1>4, <2>1
  <2>2. CASE b # <<>>
    BY <1>1, <2>2
  <2> QED
    BY <2>1, <2>2
<1>6. \A i \in 1..Len(a) : w[i] = a[i]
  BY <1>1
<1> HIDE DEF w
<1>7. w[4] = a[4] /\ (Len(a) >= 5 => w[5] = a[5] /\ a[5] \in Nat)
  <2> DEFINE l == Len(a)
  <2>1. l \in Nat /\ l >= 4
    BY <1>4, <1>5
  <2>2. \A i \in 1..l : w[i] = a[i] /\ a[i] \in Nat
    BY <1>1, <1>6
  <2> HIDE DEF l
  <2>3. 4 \in 1..l /\ (l >= 5 => 5 \in 1..l)
    BY <2>1
  <2> QED
    BY <2>2, <2>3 DEF l
<1>8. Len(a) >= 5 => m = n
  <2> SUFFICES ASSUME Len(a) >= 5 PROVE m = n
    OBVIOUS
  <2>1. ~(Len(a) < 5) /\ ~(Len(w) < 5)
    BY <1>4
  <2> QED
    BY <1>7, <2>1 DEF m, n, ConnectReplyLength, SOCKS5_ATYP_IPV4, SOCKS5_ATYP_IPV6, SOCKS5_ATYP_DOMAIN
<1>9. Len(a) = 4 => n \in {0, 5, 10, 22} /\ (n = 5 => w[4] = 3) /\ (n # 5 => m = n)
  BY <1>4, <1>7 DEF m, n, ConnectReplyLength, SOCKS5_ATYP_IPV4, SOCKS5_ATYP_IPV6, SOCKS5_ATYP_DOMAIN
<1>10. m \in Nat
  <2>1. Len(w) >= 5 => w[5] \in Nat
    BY <1>4
  <2> QED
    BY SMTT(30), <1>4, <2>1 DEF m, ConnectReplyLength, SOCKS5_ATYP_IPV4, SOCKS5_ATYP_IPV6, SOCKS5_ATYP_DOMAIN
<1>11. m = Len(a)
  <2>1. CASE b # <<>>
    <3>1. n \in {0, Len(a)}
      BY <1>1, <2>1
    <3> QED
      <4> DEFINE l == Len(a)
      <4>0. l \in Nat /\ l >= 4
        BY <1>4, <1>5
      <4> HIDE DEF l
      <4>1. l = 4 \/ l >= 5
        BY <4>0
      <4> QED
        BY <1>3, <1>8, <1>9, <3>1, <4>1 DEF l
  <2>2. CASE b = <<>>
    <3>1. Len(w) = Len(a) /\ w = a
      BY <1>1, <2>2 DEF w
    <3> QED
      BY <1>1, <1>3, <1>4, <1>5, <1>10, <3>1 DEF m, n
  <2> QED
    BY <2>1, <2>2
<1>12. SubSeq(w, Len(a) + 1, Len(w)) = b
  BY <1>1, RestOfJoined DEF w
<1>13. \A i \in 1..4 : w[i] = a[i]
  BY SMTT(30), <1>4, <1>5, <1>6
<1> QED
  BY <1>2, <1>5, <1>11, <1>12, <1>13 DEF m, a, b

-----------------------------------------------------------------------------
(* HTTP CONNECT. *)

\* When the first blank line is read, what is left is the payload.
LEMMA HttpReplyIsWhole ==
  ASSUME Conforms(proxy), proxy.kind = "HttpConnect",
         NEW h, NEW b, NEW w, Split(h, b, w), Len(h) > 0,
         \A i \in 1..(Len(h) - 1) : h[i] # "blank", h[Len(h)] = "blank"
  PROVE  b \o w = proxy.payload /\ proxy.onConnect[1] = h[1]
<1> DEFINE a == proxy.onConnect
           p == proxy.payload
           r == b \o w
           la == Len(a)
           lp == Len(p)
           lh == Len(h)
           lb == Len(b)
           lw == Len(w)
<1>1. /\ a \in Seq(STRING) /\ p \in Seq(STRING)
      /\ \A i \in 1..(la - 1) : a[i] # "blank"
      /\ p # <<>> => a # <<>> /\ Last(a) = "blank"
  BY DEF Conforms
<1>2. /\ h \in Seq(STRING) /\ b \in Seq(STRING) /\ w \in Seq(STRING)
      /\ lh + lb + lw = Len(Answer)
      /\ \A i \in 1..lh : h[i] = Answer[i]
      /\ \A i \in 1..lb : b[i] = Answer[lh + i]
      /\ \A i \in 1..lw : w[i] = Answer[lh + lb + i]
  BY DEF Split
<1>3. Answer = a \o p
  BY DEF Answer
<1> HIDE DEF a, p
<1>4. /\ Len(Answer) = la + lp
      /\ \A i \in 1..la : Answer[i] = a[i]
      /\ \A i \in 1..lp : Answer[la + i] = p[i]
  BY <1>1, <1>3
<1>5. la \in Nat /\ lp \in Nat /\ lh \in Nat /\ lb \in Nat /\ lw \in Nat
  BY <1>1, <1>2
<1>6. /\ r \in Seq(STRING) /\ Len(r) = lb + lw
      /\ \A i \in 1..lb : r[i] = b[i]
      /\ \A i \in 1..lw : r[lb + i] = w[i]
  BY <1>2
<1>7. p = <<>> <=> lp = 0
  BY <1>1
<1>8. lp # 0 => la > 0 /\ a[la] = "blank"
  <2>1. a # <<>> => la > 0
    BY <1>1
  <2> QED
    BY <1>1, <1>7, <2>1 DEF Last
<1>9. lh > 0 /\ (\A i \in 1..(lh - 1) : h[i] # "blank") /\ h[lh] = "blank"
  OBVIOUS
<1> HIDE DEF la, lp, lh, lb, lw, r
<1>10. lh = la
  <2>1. CASE lh < la
    <3>1. lh \in 1..(la - 1) /\ lh \in 1..la /\ lh \in 1..lh
      BY <1>5, <1>9, <2>1
    <3>2. a[lh] = "blank"
      BY <1>2, <1>4, <1>9, <3>1
    <3> QED
      BY <1>1, <3>1, <3>2
  <2>2. CASE lh > la
    <3>1. lp # 0
      BY <1>2, <1>4, <1>5, <2>2
    <3>2. la \in 1..(lh - 1) /\ la \in 1..lh /\ la \in 1..la
      BY <1>5, <1>8, <2>2, <3>1
    <3>3. h[la] = "blank"
      BY <1>2, <1>4, <1>8, <3>1, <3>2
    <3> QED
      BY <1>9, <3>2, <3>3
  <2> QED
    BY <1>5, <2>1, <2>2
<1>11. Len(r) = lp
  BY <1>2, <1>4, <1>5, <1>6, <1>10
<1>12. \A i \in 1..lp : r[i] = p[i]
  <2> SUFFICES ASSUME NEW i \in 1..lp PROVE r[i] = Answer[la + i]
    BY <1>4
  <2>1. CASE i <= lb
    <3>1. i \in 1..lb
      BY <1>5, <2>1
    <3> QED
      BY <1>2, <1>6, <1>10, <3>1
  <2>2. CASE ~(i <= lb)
    <3>1. i - lb \in 1..lw /\ lb + (i - lb) = i /\ lh + lb + (i - lb) = la + i
      BY <1>5, <1>6, <1>10, <1>11, <2>2
    <3>2. r[lb + (i - lb)] = w[i - lb] /\ w[i - lb] = Answer[lh + lb + (i - lb)]
      BY <1>2, <1>6, <3>1
    <3> QED
      BY <3>1, <3>2
  <2> QED
    BY <2>1, <2>2
<1>13. r = p
  BY <1>1, <1>6, <1>11, <1>12, SeqEqual DEF lp
<1>14. a[1] = h[1]
  <2>1. 1 \in 1..lh /\ 1 \in 1..la
    BY <1>5, <1>9, <1>10
  <2> QED
    BY <1>2, <1>4, <2>1
<1> QED
  BY <1>13, <1>14 DEF r, p, a

\* The buffer takes from the socket.
LEMMA SplitFills ==
  ASSUME NEW h, NEW w, Split(h, <<>>, w), NEW n \in 1..Len(w)
  PROVE  Split(h, SubSeq(w, 1, n), SubSeq(w, n + 1, Len(w)))
<1> DEFINE b == SubSeq(w, 1, n)
           r == SubSeq(w, n + 1, Len(w))
           lh == Len(h)
           lw == Len(w)
<1>1. h \in Seq(STRING) /\ w \in Seq(STRING) /\ Len(<<>>) = 0
  BY DEF Split
<1>2. lh \in Nat /\ lw \in Nat /\ n \in 1..lw
  BY <1>1
<1>3. lh + lw = Len(Answer) /\ (\A i \in 1..lh : h[i] = Answer[i]) /\ \A i \in 1..lw : w[i] = Answer[lh + i]
  <2>1. /\ lh + 0 + lw = Len(Answer) /\ \A i \in 1..lh : h[i] = Answer[i]
        /\ \A i \in 1..lw : w[i] = Answer[lh + 0 + i]
    BY <1>1 DEF Split
  <2> HIDE DEF lh, lw
  <2>2. lh + 0 = lh
    BY <1>2
  <2> QED
    BY <2>1, <2>2
<1>4. b \in Seq(STRING) /\ Len(b) = n /\ \A i \in 1..n : b[i] = w[i]
  BY <1>1, <1>2
<1>5. r \in Seq(STRING) /\ Len(r) = lw - n /\ \A i \in 1..(lw - n) : r[i] = w[n + i]
  BY <1>1, <1>2
<1> HIDE DEF b, r, lh, lw
<1>6. lh + n + (lw - n) = Len(Answer)
  BY <1>2, <1>3
<1>7. \A i \in 1..n : b[i] = Answer[lh + i]
  BY <1>2, <1>3, <1>4
<1>8. \A i \in 1..(lw - n) : r[i] = Answer[lh + n + i]
  <2> TAKE i \in 1..(lw - n)
  <2>1. n + i \in 1..lw /\ lh + (n + i) = lh + n + i
    BY <1>2
  <2>2. w[n + i] = Answer[lh + (n + i)]
    BY <1>3, <2>1
  <2> QED
    BY <1>5, <2>1, <2>2
<1>9. Split(h, b, r)
  BY <1>1, <1>3, <1>4, <1>5, <1>6, <1>7, <1>8 DEF Split, lh
<1> QED
  BY <1>9 DEF b, r

\* A line is read from the buffer.
LEMMA SplitReads ==
  ASSUME NEW h, NEW b, NEW w, Split(h, b, w), b # <<>>
  PROVE  /\ Split(Append(h, Head(b)), Tail(b), w)
         /\ Len(Append(h, Head(b))) = Len(h) + 1 /\ Len(h) \in Nat
         /\ \A i \in 1..Len(h) : Append(h, Head(b))[i] = h[i]
         /\ Last(Append(h, Head(b))) = Append(h, Head(b))[Len(h) + 1]
<1> DEFINE g == Append(h, Head(b))
           t == Tail(b)
           lh == Len(h)
           lb == Len(b)
           lw == Len(w)
<1>1. /\ h \in Seq(STRING) /\ b \in Seq(STRING) /\ w \in Seq(STRING)
      /\ lh + lb + lw = Len(Answer)
      /\ \A i \in 1..lh : h[i] = Answer[i]
      /\ \A i \in 1..lb : b[i] = Answer[lh + i]
      /\ \A i \in 1..lw : w[i] = Answer[lh + lb + i]
  BY DEF Split
<1>2. lh \in Nat /\ lb \in Nat /\ lw \in Nat /\ lb > 0
  BY <1>1
<1>3. Head(b) = b[1] /\ Head(b) \in STRING
  BY <1>1, <1>2
<1>4. g \in Seq(STRING) /\ Len(g) = lh + 1 /\ (\A i \in 1..lh : g[i] = h[i]) /\ g[lh + 1] = b[1]
  BY <1>1, <1>2, <1>3
<1>5. t \in Seq(STRING) /\ Len(t) = lb - 1 /\ \A i \in 1..(lb - 1) : t[i] = b[i + 1]
  BY <1>1, <1>2
<1>6. Last(g) = g[lh + 1]
  BY <1>4 DEF Last
<1> HIDE DEF g, t, lh, lb, lw
<1>7. (lh + 1) + (lb - 1) + lw = Len(Answer) /\ (lh + 1) + (lb - 1) = lh + lb
  BY <1>1, <1>2
<1>8. \A i \in 1..(lh + 1) : g[i] = Answer[i]
  <2> TAKE i \in 1..(lh + 1)
  <2>1. i \in 1..lh \/ i = lh + 1
    BY <1>2
  <2>2. 1 \in 1..lb
    BY <1>2
  <2> QED
    BY <1>1, <1>4, <2>1, <2>2
<1>9. \A i \in 1..(lb - 1) : t[i] = Answer[(lh + 1) + i]
  <2> TAKE i \in 1..(lb - 1)
  <2>1. i + 1 \in 1..lb /\ lh + (i + 1) = (lh + 1) + i
    BY <1>2
  <2>2. b[i + 1] = Answer[lh + (i + 1)]
    BY <1>1, <2>1
  <2> QED
    BY <1>5, <2>1, <2>2
<1>10. \A i \in 1..lw : w[i] = Answer[(lh + 1) + (lb - 1) + i]
  BY <1>1, <1>7
<1>11. Split(g, t, w)
  BY <1>1, <1>4, <1>5, <1>7, <1>8, <1>9, <1>10 DEF Split, lw
<1> QED
  BY <1>2, <1>4, <1>6, <1>11 DEF g, t, lh

-----------------------------------------------------------------------------
(* The handshake. *)

\* A handshake that begins knows nothing yet.
LEMMA FreshKnows ==
  ASSUME NEW pc \in {"idle", "opening"}
  PROVE  Knows([NoTunnel EXCEPT !.pc = pc])
  BY DEF Knows, NoTunnel

LEMMA ProxyStays ==
  ASSUME UNCHANGED proxy
  PROVE  TunnelInv' <=> Knows(tunnel')
  BY DEF TunnelInv, Knows, Split, Answer, Greeted, Granted, OfferedMethods

\* One that ends without success.
LEMMA EndsKnows ==
  ASSUME Shapes, TunnelInv, NEW result, result # "ok", Ends(result)
  PROVE  Knows(tunnel')
<1>1. /\ tunnel'.pc = "done" /\ tunnel'.result = result /\ tunnel'.buffer = tunnel.buffer
  BY DEF Ends, Shapes
<1> QED
  BY <1>1 DEF TunnelInv, Knows

\* One that the proxy has let as far as the CONNECT.
LEMMA SendConnectKnows ==
  ASSUME Shapes, TunnelInv, Conforms(proxy), proxy.kind = "Socks5", SendConnect, Greeted,
         proxy.onGreeting[2] = 2 => proxy.onAuth = <<1, 0>>,
         tunnel.wire \in Seq(Nat), Len(tunnel.wire) = 2, tunnel.pc # "done"
  PROVE  Knows(tunnel')
<1> DEFINE c == proxy.onConnect
           p == proxy.payload
<1>1. c \in Seq(Nat) /\ p \in Seq(Nat)
  BY DEF Conforms
<1>2. Rest(2) = <<>>
  BY RestOfTwo DEF Rest
<1>3. Rest(2) \o c \o p = Answer
  BY <1>1, <1>2, EmptyPrefix DEF Answer
<1>4. /\ tunnel'.pc = "reply" /\ tunnel'.wire = Answer /\ tunnel'.buffer = tunnel.buffer
      /\ tunnel'.result = tunnel.result
  BY <1>3 DEF SendConnect, Shapes
<1> QED
  BY <1>4 DEF TunnelInv, Knows

LEMMA TwoBytes ==
  ASSUME NEW s \in Seq(Nat), Len(s) <= 2, ~(Len(s) < 2)
  PROVE  Len(s) = 2
<1> DEFINE n == Len(s)
<1>1. n \in Nat /\ n <= 2 /\ ~(n < 2)
  OBVIOUS
<1> HIDE DEF n
<1>2. n = 2
  BY <1>1
<1> QED
  BY <1>2 DEF n

LEMMA AnswerTyped ==
  ASSUME NEW S, proxy.onConnect \in Seq(S), proxy.payload \in Seq(S)
  PROVE  Answer \in Seq(S) /\ Len(Answer) \in Nat
<1> DEFINE a == proxy.onConnect
           b == proxy.payload
<1>1. a \in Seq(S) /\ b \in Seq(S)
  OBVIOUS
<1> HIDE DEF a, b
<1>2. a \o b \in Seq(S)
  BY <1>1
<1>3. Answer \in Seq(S)
  BY <1>2 DEF a, b, Answer
<1> QED
  BY <1>3, LenProperties

\* What is known is kept by every step of a handshake.
LEMMA TunnelStepKnows ==
  ASSUME Shapes, TunnelInv, Conforms(proxy), TunnelStep
  PROVE  Knows(tunnel')
<1>1. CASE TunnelOpens
  <2>1. CASE ~proxy.reachable
    BY <1>1, <2>1, EndsKnows DEF TunnelOpens
  <2>2. CASE proxy.reachable /\ proxy.kind = "Socks5"
    <3>1. tunnel' = [NoTunnel EXCEPT !.pc = "method", !.wire = proxy.onGreeting, !.sent = {"greeting"}]
      BY <1>1, <2>2 DEF TunnelOpens
    <3>2. /\ tunnel'.pc = "method" /\ tunnel'.wire = proxy.onGreeting /\ tunnel'.buffer = <<>>
          /\ tunnel'.result = "none"
      BY <3>1 DEF NoTunnel
    <3> QED
      BY <2>2, <3>2 DEF Knows
  <2>3. CASE proxy.reachable /\ proxy.kind # "Socks5"
    <3>1. tunnel' = HttpBegins
      BY <1>1, <2>3 DEF TunnelOpens
    <3>2. /\ tunnel'.pc = "headers" /\ tunnel'.wire = Answer /\ tunnel'.buffer = <<>>
          /\ tunnel'.headers = <<>> /\ tunnel'.result = "none"
      BY <3>1 DEF HttpBegins, NoTunnel, Answer
    <3>3. proxy.kind = "HttpConnect"
      BY <2>3 DEF Conforms
    <3>4. Split(<<>>, <<>>, Answer)
      <4>1. proxy.onConnect \in Seq(STRING) /\ proxy.payload \in Seq(STRING)
        BY <3>3 DEF Conforms
      <4> DEFINE w == Answer
                 n == Len(w)
      <4>2. w \in Seq(STRING) /\ n \in Nat
        BY <4>1, AnswerTyped
      <4>3. <<>> \in Seq(STRING) /\ Len(<<>>) = 0
        OBVIOUS
      <4> HIDE DEF w
      <4>4. 0 + 0 + n = n /\ \A i \in 1..n : 0 + 0 + i = i
        <5> HIDE DEF n
        <5> QED
          BY <4>2
      <4>5. \A i \in 1..n : w[i] = w[0 + 0 + i]
        BY <4>4
      <4> QED
        BY <4>2, <4>3, <4>4, <4>5 DEF Split, w
    <3> QED
      BY <3>2, <3>3, <3>4 DEF Knows
  <2> QED
    BY <2>1, <2>2, <2>3
<1>2. CASE ReadMethod
  <2>1. tunnel.pc = "method" /\ ~Waits
    BY <1>2 DEF ReadMethod
  <2>2. proxy.kind = "Socks5" /\ tunnel.wire = proxy.onGreeting /\ tunnel.buffer = <<>>
    BY <2>1 DEF TunnelInv, Knows
  <2>3. tunnel.wire \in Seq(Nat) /\ Len(tunnel.wire) = 2 /\ proxy.onAuth \in Seq(Nat)
    <3>1. tunnel.wire \in Seq(Nat) /\ Len(tunnel.wire) <= 2 /\ proxy.onAuth \in Seq(Nat)
      BY <2>2 DEF Conforms
    <3>2. ~(Len(tunnel.wire) < 2)
      <4>1. ~(Len(tunnel.buffer) + Len(tunnel.wire) < 2)
        BY <2>1 DEF Waits
      <4>2. Len(tunnel.buffer) = 0
        BY <2>2
      <4>3. Len(tunnel.wire) \in Nat
        BY <3>1
      <4> QED
        BY <4>1, <4>2, <4>3
    <3> QED
      BY <3>1, <3>2, TwoBytes
  <2> DEFINE outcome == MethodOutcome(tunnel.wire)
  <2>4. CASE outcome = "connect"
    <3>1. tunnel.wire[1] = 5 /\ tunnel.wire[2] = 0
      BY <2>4 DEF MethodOutcome, SOCKS5_VERSION, SOCKS5_METHOD_NO_AUTH
    <3>2. Greeted /\ proxy.onGreeting[2] # 2
      BY <2>2, <2>3, <3>1 DEF Greeted, OfferedMethods, SOCKS5_METHOD_NO_AUTH
    <3>3. SendConnect
      BY <1>2, <2>4 DEF ReadMethod
    <3> QED
      BY <2>1, <2>2, <2>3, <3>2, <3>3, SendConnectKnows
  <2>5. CASE outcome = "auth"
    <3>1. tunnel.wire[1] = 5 /\ tunnel.wire[2] = 2 /\ proxy.password
      BY <2>5 DEF MethodOutcome, SOCKS5_VERSION, SOCKS5_METHOD_USER_PASS
    <3>2. Greeted /\ proxy.onGreeting[2] = 2
      BY <2>2, <2>3, <3>1 DEF Greeted, OfferedMethods, SOCKS5_METHOD_USER_PASS
    <3>3. tunnel' = [tunnel EXCEPT !.pc = "auth", !.sent = @ \cup {"password"},
                                   !.wire = Rest(2) \o proxy.onAuth]
      BY <1>2, <2>5 DEF ReadMethod
    <3>4. Rest(2) \o proxy.onAuth = proxy.onAuth
      <4>1. Rest(2) = <<>>
        BY <2>3, RestOfTwo DEF Rest
      <4> QED
        BY <2>3, <4>1, EmptyPrefix
    <3>5. /\ tunnel'.pc = "auth" /\ tunnel'.wire = proxy.onAuth /\ tunnel'.buffer = tunnel.buffer
          /\ tunnel'.result = tunnel.result
      BY <3>3, <3>4 DEF Shapes
    <3> QED
      BY <2>1, <2>2, <3>2, <3>5 DEF TunnelInv, Knows
  <2>6. CASE outcome \notin {"connect", "auth"}
    <3>1. outcome # "ok"
      BY DEF MethodOutcome
    <3>2. Ends(outcome)
      BY <1>2, <2>6 DEF ReadMethod
    <3> QED
      BY <3>1, <3>2, EndsKnows
  <2> QED
    BY <2>4, <2>5, <2>6
<1>3. CASE ReadAuth
  <2>1. tunnel.pc = "auth" /\ ~Waits
    BY <1>3 DEF ReadAuth
  <2>2. /\ proxy.kind = "Socks5" /\ tunnel.wire = proxy.onAuth /\ tunnel.buffer = <<>>
        /\ Greeted /\ proxy.onGreeting[2] = 2
    BY <2>1 DEF TunnelInv, Knows
  <2>3. tunnel.wire \in Seq(Nat) /\ Len(tunnel.wire) = 2
    <3>1. tunnel.wire \in Seq(Nat) /\ Len(tunnel.wire) <= 2
      BY <2>2 DEF Conforms
    <3>2. ~(Len(tunnel.wire) < 2)
      <4>1. ~(Len(tunnel.buffer) + Len(tunnel.wire) < 2)
        BY <2>1 DEF Waits
      <4>2. Len(tunnel.buffer) = 0
        BY <2>2
      <4>3. Len(tunnel.wire) \in Nat
        BY <3>1
      <4> QED
        BY <4>1, <4>2, <4>3
    <3> QED
      BY <3>1, <3>2, TwoBytes
  <2>4. CASE AuthOutcome(tunnel.wire) = "connect"
    <3>1. tunnel.wire[1] = 1 /\ tunnel.wire[2] = 0
      BY <2>4 DEF AuthOutcome
    <3>2. proxy.onAuth = <<1, 0>>
      <4> DEFINE s == tunnel.wire
                 t == <<1, 0>>
      <4>1. /\ s \in Seq(Nat) /\ t \in Seq(Nat) /\ Len(s) = 2 /\ Len(t) = 2
            /\ s[1] = t[1] /\ s[2] = t[2]
        BY <2>3, <3>1
      <4> HIDE DEF s, t
      <4>2. \A i \in 1..Len(s) : s[i] = t[i]
        BY <4>1
      <4>3. s = t
        BY <4>1, <4>2, SeqEqual
      <4> QED
        BY <2>2, <4>3 DEF s, t
    <3>3. SendConnect
      BY <1>3, <2>4 DEF ReadAuth
    <3> QED
      BY <2>1, <2>2, <2>3, <3>2, <3>3, SendConnectKnows
  <2>5. CASE AuthOutcome(tunnel.wire) # "connect"
    <3> DEFINE outcome == AuthOutcome(tunnel.wire)
    <3>1. outcome # "ok"
      BY DEF AuthOutcome
    <3>2. Ends(outcome)
      BY <1>3, <2>5 DEF ReadAuth
    <3> QED
      BY <3>1, <3>2, EndsKnows
  <2> QED
    BY <2>4, <2>5
<1>4. CASE ReadReply
  <2>1. tunnel.pc = "reply" /\ ~Waits
    BY <1>4 DEF ReadReply
  <2>2. /\ proxy.kind = "Socks5" /\ tunnel.wire = Answer /\ tunnel.buffer = <<>>
        /\ Greeted /\ (proxy.onGreeting[2] = 2 => proxy.onAuth = <<1, 0>>)
    BY <2>1 DEF TunnelInv, Knows
  <2> DEFINE length == ConnectReplyLength(tunnel.wire)
             result == IF length = 0 THEN "SocksProtocol" ELSE ConnectOutcome(tunnel.wire)
  <2>3. tunnel' = [tunnel EXCEPT !.pc = "done", !.wire = Rest(length), !.result = result]
    BY <1>4 DEF ReadReply
  <2> HIDE DEF result
  <2>4. /\ tunnel'.pc = "done" /\ tunnel'.wire = Rest(length) /\ tunnel'.result = result
        /\ tunnel'.buffer = <<>>
    BY <2>2, <2>3 DEF Shapes
  <2>5. ASSUME result = "ok" PROVE Granted /\ <<>> \o Rest(length) = proxy.payload
    <3>1. length # 0 /\ Answer[1] = 5 /\ Answer[2] = 0
      BY <2>2, <2>5 DEF result, ConnectOutcome, SOCKS5_VERSION
    <3>2. proxy.onConnect \in Seq(Nat) /\ proxy.payload \in Seq(Nat)
      BY <2>2 DEF Conforms
    <3>3. Len(Answer) >= 4 /\ Len(Answer) >= ConnectReplyLength(Answer)
      <4> DEFINE have == Len(Answer)
      <4>1. have \in Nat
        BY <3>2, AnswerTyped
      <4>2. Len(tunnel.buffer) + Len(tunnel.wire) = have
        <5>1. Len(tunnel.buffer) = 0 /\ Len(tunnel.wire) = have
          BY <2>2
        <5> HIDE DEF have
        <5> QED
          BY <4>1, <5>1
      <4>3. ~(have < (IF have < 4 THEN 4 ELSE ConnectReplyLength(Answer)))
        BY <2>1, <2>2, <4>2 DEF Waits
      <4>4. ConnectReplyLength(Answer) \in Nat
        <5> DEFINE w == Answer
        <5>1. w \in Seq(Nat) /\ Len(w) \in Nat
          BY <3>2, AnswerTyped
        <5> HIDE DEF w
        <5>2. ~(Len(w) < 5) => w[5] \in Nat
          BY <5>1
        <5>3. ConnectReplyLength(w) \in Nat
          BY <5>2 DEF ConnectReplyLength, SOCKS5_ATYP_IPV4, SOCKS5_ATYP_IPV6, SOCKS5_ATYP_DOMAIN
        <5> QED
          BY <5>3 DEF w
      <4> DEFINE n == ConnectReplyLength(Answer)
      <4> HIDE DEF have, n
      <4>5. have >= 4 /\ have >= n
        BY <4>1, <4>3, <4>4 DEF n
      <4> QED
        BY <4>5 DEF have, n
    <3>4. /\ Rest(length) = proxy.payload
          /\ proxy.onConnect[1] = 5 /\ proxy.onConnect[2] = 0
      <4>1. SubSeq(Answer, ConnectReplyLength(Answer) + 1, Len(Answer)) = proxy.payload
        BY <2>2, <3>1, <3>3, SocksReplyIsWhole
      <4>2. \A i \in 1..4 : Answer[i] = proxy.onConnect[i]
        BY <2>2, <3>1, <3>3, SocksReplyIsWhole
      <4>3. Answer[1] = proxy.onConnect[1] /\ Answer[2] = proxy.onConnect[2]
        BY <4>2
      <4> QED
        BY <2>2, <3>1, <4>1, <4>3 DEF Rest
    <3>5. Granted
      BY <2>2, <3>4 DEF Granted, Greeted
    <3> QED
      BY <3>2, <3>4, <3>5, EmptyPrefix
  <2> HIDE DEF length
  <2> QED
    BY <2>2, <2>4, <2>5 DEF Knows
<1>5. CASE FillBuffer
  <2>1. tunnel.pc = "headers" /\ tunnel.buffer = <<>>
    BY <1>5 DEF FillBuffer
  <2>2. PICK n \in 1..Len(tunnel.wire) :
          tunnel' = [tunnel EXCEPT !.buffer = SubSeq(tunnel.wire, 1, n), !.wire = Rest(n)]
    BY <1>5 DEF FillBuffer
  <2>3. /\ proxy.kind = "HttpConnect" /\ Split(tunnel.headers, <<>>, tunnel.wire)
        /\ (\A i \in 1..Len(tunnel.headers) : tunnel.headers[i] # "blank") /\ tunnel.result = "none"
    BY <2>1 DEF TunnelInv, Knows
  <2>4. Split(tunnel.headers, SubSeq(tunnel.wire, 1, n), Rest(n))
    BY <2>3, SplitFills DEF Rest
  <2>5. /\ tunnel'.pc = "headers" /\ tunnel'.buffer = SubSeq(tunnel.wire, 1, n) /\ tunnel'.wire = Rest(n)
        /\ tunnel'.headers = tunnel.headers /\ tunnel'.result = "none"
    BY <2>1, <2>2, <2>3 DEF Shapes
  <2> QED
    BY <2>3, <2>4, <2>5 DEF Knows
<1>6. CASE ReadHeader
  <2>1. tunnel.pc = "headers" /\ tunnel.buffer # <<>>
    BY <1>6 DEF ReadHeader
  <2>2. /\ proxy.kind = "HttpConnect" /\ Split(tunnel.headers, tunnel.buffer, tunnel.wire)
        /\ (\A i \in 1..Len(tunnel.headers) : tunnel.headers[i] # "blank") /\ tunnel.result = "none"
    BY <2>1 DEF TunnelInv, Knows
  <2> DEFINE headers == Append(tunnel.headers, Head(tunnel.buffer))
             n == Len(tunnel.headers)
             done == Len(headers) > MAX_HTTP_RESPONSE_HEADER \/ Last(headers) = "blank"
             pc == IF done THEN "done" ELSE tunnel.pc
             result == IF ~done THEN tunnel.result
                       ELSE IF Len(headers) > MAX_HTTP_RESPONSE_HEADER THEN "HttpMalformed"
                       ELSE HttpOutcome(headers)
  <2>3. tunnel' = [tunnel EXCEPT !.buffer = Tail(@), !.headers = headers, !.pc = pc, !.result = result]
    BY <1>6 DEF ReadHeader
  <2>4. /\ Split(headers, Tail(tunnel.buffer), tunnel.wire)
        /\ Len(headers) = n + 1 /\ n \in Nat
        /\ \A i \in 1..n : headers[i] = tunnel.headers[i]
        /\ Last(headers) = headers[n + 1]
    BY <2>1, <2>2, SplitReads
  <2> HIDE DEF headers, pc, result, done
  <2>5. /\ tunnel'.buffer = Tail(tunnel.buffer) /\ tunnel'.headers = headers /\ tunnel'.pc = pc
        /\ tunnel'.result = result /\ tunnel'.wire = tunnel.wire
    BY <2>3 DEF Shapes
  <2>6. \A i \in 1..n : headers[i] # "blank"
    BY <2>2, <2>4
  <2> HIDE DEF n
  <2>7. CASE ~done
    <3>1. tunnel'.pc = "headers" /\ tunnel'.result = "none"
      BY <2>1, <2>2, <2>5, <2>7 DEF pc, result
    <3>2. \A i \in 1..Len(headers) : headers[i] # "blank"
      <4>1. headers[n + 1] # "blank"
        BY <2>4, <2>7 DEF done
      <4> QED
        BY <2>4, <2>6, <4>1
    <3> QED
      BY <2>2, <2>4, <2>5, <3>1, <3>2 DEF Knows
  <2>8. CASE done
    <3>1. tunnel'.pc = "done"
      BY <2>5, <2>8 DEF pc
    <3>2. ASSUME result = "ok" PROVE Granted /\ Tail(tunnel.buffer) \o tunnel.wire = proxy.payload
      <4>1. headers[n + 1] = "blank" /\ HttpOutcome(headers) = "ok"
        BY <2>4, <2>8, <3>2 DEF done, result
      <4>2. headers[1] = "200"
        BY <4>1 DEF HttpOutcome
      <4>3. Len(headers) > 0 /\ headers[Len(headers)] = "blank" /\ \A i \in 1..(Len(headers) - 1) : headers[i] # "blank"
        BY <2>4, <2>6, <4>1
      <4>4. Tail(tunnel.buffer) \o tunnel.wire = proxy.payload /\ proxy.onConnect[1] = headers[1]
        BY <2>2, <2>4, <4>3, HttpReplyIsWhole
      <4> QED
        BY <2>2, <4>2, <4>4 DEF Granted
    <3> QED
      BY <2>2, <2>5, <3>1, <3>2 DEF Knows
  <2> QED
    BY <2>7, <2>8
<1>7. CASE ProxyCloses
  BY <1>7, EndsKnows DEF ProxyCloses
<1> QED
  BY <1>1, <1>2, <1>3, <1>4, <1>5, <1>6, <1>7 DEF TunnelStep

LEMMA InitTunnel == Init => TunnelInv /\ ProxyInv
<1> SUFFICES ASSUME Init PROVE TunnelInv /\ ProxyInv
  OBVIOUS
<1>1. tunnel = NoTunnel
  BY DEF Init
<1>2. TunnelInv
  BY <1>1 DEF TunnelInv, Knows, NoTunnel
<1>3. (proxy = NoProxy /\ call # "probe") \/ proxy \in Proxies
  BY Zenon DEF Init
<1> QED
  BY <1>2, <1>3, ProxiesAssumption DEF ProxyInv

LEMMA NextTunnel == IInv /\ TunnelInv /\ ProxyInv /\ [Next]_vars => TunnelInv' /\ ProxyInv'
<1> SUFFICES ASSUME IInv, TunnelInv, ProxyInv, [Next]_vars PROVE TunnelInv' /\ ProxyInv'
  OBVIOUS
<1>1. Shapes /\ ProxyApart
  BY DEF IInv, Typed
<1>2. UNCHANGED proxy /\ (call' = "probe" => call = "probe")
  BY DEF Next, ConnectAccount, StartSession, SessionStarts, RegisterBegins, RegisterReturns, ProbeBegins,
         ProbeReturns, Worker, Registers, Probes, vars
<1>3. ProxyInv'
  BY <1>2 DEF ProxyInv, Conforms
<1>4. SUFFICES Knows(tunnel')
  BY <1>2, <1>3, <1>4, ProxyStays
<1>5. ASSUME UNCHANGED tunnel PROVE Knows(tunnel')
  BY <1>5 DEF TunnelInv
<1>6. ASSUME tunnel' = [NoTunnel EXCEPT !.pc = "opening"] PROVE Knows(tunnel')
  BY <1>6, FreshKnows
<1>7. CASE Worker
  <2>1. CASE DialProxy
    BY <1>5, <1>6, <2>1 DEF DialProxy
  <2>2. CASE TunnelRetries
    BY <1>6, <2>2 DEF TunnelRetries
  <2>3. CASE ProxyTimesOut
    <3>1. tunnel' = NoTunnel
      BY <2>3 DEF ProxyTimesOut
    <3> QED
      BY <3>1 DEF Knows, NoTunnel
  <2>4. CASE DialTunnelStep
    <3>1. proxy # NoProxy /\ TunnelStep
      BY <1>1, <2>4 DEF DialTunnelStep, ProxyApart
    <3>2. Conforms(proxy)
      BY <3>1 DEF ProxyInv
    <3> QED
      BY <1>1, <3>1, <3>2, TunnelStepKnows
  <2>5. CASE Resolve \/ NextGroup \/ HeadStartElapses \/ FirstEvent \/ GroupTimesOut \/ TunnelledEvent
    BY <1>5, <2>5 DEF Resolve, NextGroup, HeadStartElapses, FirstEvent, GroupTimesOut, TunnelledEvent
  <2> QED
    BY <1>7, <2>1, <2>2, <2>3, <2>4, <2>5 DEF Worker, DialStep
<1>8. CASE ProbeBegins
  BY <1>6, <1>8 DEF ProbeBegins
<1>9. CASE Probes
  <2>1. Conforms(proxy) /\ TunnelStep
    BY <1>9 DEF Probes, ProxyInv
  <2> QED
    BY <1>1, <2>1, TunnelStepKnows
<1>10. CASE ConnectAccount \/ SessionStarts \/ RegisterBegins \/ RegisterReturns \/ ProbeReturns \/ Registers
  BY <1>5, <1>10
     DEF ConnectAccount, SessionStarts, RegisterBegins, RegisterReturns, ProbeReturns, Registers
<1>11. CASE UNCHANGED vars
  BY <1>5, <1>11 DEF vars
<1> QED
  BY <1>7, <1>8, <1>9, <1>10, <1>11 DEF Next

\* What is known of a handshake holds at each of its reads.
THEOREM TunnelInvariance == Spec => [](TunnelInv /\ ProxyInv)
<1>1. Init => TunnelInv /\ ProxyInv
  BY InitTunnel
<1>2. IInv /\ TunnelInv /\ ProxyInv /\ [Next]_vars => TunnelInv' /\ ProxyInv'
  BY NextTunnel
<1> QED
  BY <1>1, <1>2, Invariance, PTL DEF Spec

\* Through any proxy that conforms to its protocol, however its replies are cut
\* up by the socket and whatever handshakes failed before, an open tunnel is
\* granted and hands on what the server sends from its first byte
\* (connect_via_proxy, socks5_handshake, read_http_response_headers).
THEOREM TunnelSound == Spec => []TunnelIsSound
<1>1. TunnelInv => TunnelIsSound
  BY DEF TunnelInv, Knows, Granted, TunnelIsSound
<1> QED
  BY <1>1, TunnelInvariance, PTL

=============================================================================
