\* Connections, registrations and probes against every network of MCDial, with
\* the limits of the code in quarters of a second.
CONSTANTS
  MAX_ADDRESSES_PER_PORT = 2
  DNS_TOTAL_TIMEOUT = 32
  HAPPY_EYEBALLS_HEAD_START = 1
  CONNECT_ATTEMPT_TIMEOUT = 40
  CONNECT_PHASE_TIMEOUT = 120
  REGISTRATION_READ_TIMEOUT = 40
  REGISTRATION_PHASE_TIMEOUT = 120
  MAX_HTTP_RESPONSE_HEADER = 4
  Networks <- DialNetworks
  Plans <- WidePlans
  ProxyFields <- TunnelledFields
  Proxies <- AllProxies
  Registrars <- AllRegistrars
SPECIFICATION Spec
INVARIANTS
  TypeOK PlanIsFaithful VerdictIsExplained NoRetryAfterVerdict ThirdGroupIsReached
  ProxyNeverLeaks TunnelIsSound RegisteredMeansCreated
PROPERTY AlwaysAnswers
CHECK_DEADLOCK FALSE
