------------------------------ MODULE Registration ------------------------------
(***************************************************************************)
(* In-band registration (run_registration, registration_attempt): one      *)
(* exchange per candidate, in order and without a race, until one          *)
(* succeeds, the server decides, or the deadline of the session passes.    *)
(*                                                                         *)
(* Opening a stream has no time limit of its own, and a candidate that     *)
(* does not answer may refuse at once or hold the session.  Any reply may  *)
(* be lost with its stream.                                                *)
(***************************************************************************)
EXTENDS ConnectPlan

VARIABLES
  registrar,  \* the server's registration: [offers, asks, owner of the name]
  reg         \* the session: [pc, left, opened, submitted, elapsed, result]

NoRegistration == [pc |-> "idle", left |-> <<>>, opened |-> {}, submitted |-> {}, elapsed |-> 0,
                   result |-> "none"]

Over(result) == [reg EXCEPT !.pc = "done", !.result = result]

\* Variant: no deadline.
RegAfterUnbounded(t, next) == [next EXCEPT !.elapsed = reg.elapsed + t]

\* What the session is after t: its deadline, if that comes first.
RegAfter(t, next) ==
  IF reg.elapsed + t >= REGISTRATION_PHASE_TIMEOUT
  THEN [Over("ConnectionFailed") EXCEPT !.elapsed = REGISTRATION_PHASE_TIMEOUT]
  ELSE [next EXCEPT !.elapsed = reg.elapsed + t]

\* RegistrationAttemptError::Connection: the next candidate is tried.
AttemptFails == [reg EXCEPT !.pc = "next", !.left = Tail(@)]

RegResolve ==
  /\ reg.pc = "resolve"
  /\ reg' = IF dns.takes >= DNS_TOTAL_TIMEOUT \/ Attempts = <<>> THEN Over("ConnectionFailed")
            ELSE RegAfter(dns.takes, [reg EXCEPT !.pc = "next", !.left = Attempts])
  /\ UNCHANGED registrar

\* Variant: the end of the candidates is no answer.
RegNextOnly ==
  /\ reg.pc = "next" /\ reg.left # <<>>
  /\ reg' = [reg EXCEPT !.pc = "open", !.opened = @ \cup {Head(reg.left)}]
  /\ UNCHANGED registrar

RegNext ==
  /\ reg.pc = "next"
  /\ reg' = IF reg.left = <<>> THEN Over("ConnectionFailed")
            ELSE [reg EXCEPT !.pc = "open", !.opened = @ \cup {Head(reg.left)}]
  /\ UNCHANGED registrar

\* registration_refusal: the stream features do not offer it.
RegistrationRefusal == ~registrar.offers

\* connector.connect and recv_features.
RegOpen ==
  /\ reg.pc = "open"
  /\ LET behaviour == At(Head(reg.left)) IN
       \/ behaviour = "badcert" /\ reg' = Over("TlsVerification")
       \/ behaviour \in {"silent", "dies"} /\ reg' = AttemptFails
       \/ behaviour = "silent" /\ reg' = RegAfter(REGISTRATION_PHASE_TIMEOUT, reg)
       \/ /\ behaviour \in {"online", "rejects", "busy"}
          /\ reg' = IF RegistrationRefusal THEN Over("ConnectionFailed") ELSE [reg EXCEPT !.pc = "fields"]
  /\ UNCHANGED registrar

\* The answer to the fields query: only the legacy form is filled in.
RegFields ==
  /\ reg.pc = "fields"
  /\ reg' = IF registrar.asks = "legacy" THEN [reg EXCEPT !.pc = "submit"] ELSE Over("ConnectionFailed")
  /\ UNCHANGED registrar

\* The submission reaches the server, or is lost on the way.
RegSubmit ==
  /\ reg.pc = "submit"
  /\ \/ /\ registrar.owner = "nobody"
        /\ registrar' = [registrar EXCEPT !.owner = "us"]
        /\ reg' = [reg EXCEPT !.pc = "accepted", !.submitted = @ \cup {Head(reg.left)}]
     \/ /\ registrar.owner # "nobody"
        /\ reg' = [reg EXCEPT !.pc = "conflict", !.submitted = @ \cup {Head(reg.left)}]
        /\ UNCHANGED registrar
     \/ /\ reg' = [reg EXCEPT !.pc = "unanswered", !.submitted = @ \cup {Head(reg.left)}]
        /\ UNCHANGED registrar

\* How long the polite close of a stream may take.
CloseTimes == {0, 20}

\* Variant: any answer is a success.
RegAnswerAny ==
  /\ reg.pc \in {"accepted", "conflict"}
  /\ \E t \in CloseTimes : reg' = RegAfter(t, Over("ok"))
  /\ UNCHANGED registrar

\* The answer to the submission.  The stream is closed politely before the
\* result is returned, under the deadline of the session.
RegAnswer ==
  /\ reg.pc \in {"accepted", "conflict"}
  /\ \E t \in CloseTimes :
       reg' = RegAfter(t, Over(IF reg.pc = "accepted" THEN "ok" ELSE "ConnectionFailed"))
  /\ UNCHANGED registrar

Exchanging == {"fields", "submit", "unanswered", "accepted", "conflict"}

\* send and read_registration_element: the stream ends, or nothing comes in time.
RegStreamLost ==
  /\ reg.pc \in Exchanging
  /\ \E t \in {0, REGISTRATION_READ_TIMEOUT} :
       /\ reg.pc = "submit" => t = 0
       /\ reg' = RegAfter(t, AttemptFails)
  /\ UNCHANGED registrar

\* A stream error is the server's decision.
RegStreamError ==
  /\ reg.pc \in Exchanging \ {"submit"}
  /\ reg' = Over("ConnectionFailed")
  /\ UNCHANGED registrar

RegStep ==
  \/ RegResolve \/ RegNext \/ RegOpen \/ RegFields \/ RegSubmit \/ RegAnswer
  \/ RegStreamLost \/ RegStreamError

=============================================================================
