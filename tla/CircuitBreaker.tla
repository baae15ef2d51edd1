--------------------------- MODULE CircuitBreaker ---------------------------
(***************************************************************************)
(* The per-integration circuit breaker (src/subarr/circuit_breaker.py) and *)
(* the request helpers that consult it and report to it (the _get, _post   *)
(* and _put of integrations/base.py), for several coroutines that share    *)
(* one client.  allow() and the record methods never await, the request    *)
(* between them does, so a verdict may reach a breaker that has moved on.  *)
(***************************************************************************)
EXTENDS Integers, FiniteSets

CONSTANTS
    Callers,    \* coroutines that share the client
    Threshold,  \* fail_threshold
    Cooldown,   \* cooldown_s, in ticks of the monotonic clock
    MaxFlips    \* bound: changes of the upstream's health

ASSUME BreakerAssumption ==
    /\ IsFiniteSet(Callers)
    /\ Threshold \in Nat \ {0}
    /\ Cooldown \in Nat
    /\ MaxFlips \in Nat

VARIABLES
    state,     \* _state
    failures,  \* _consecutive_failures; only its comparison with Threshold is used
    openFor,   \* clock() - _opened_at, Never when _opened_at is None
    calls,     \* what each caller has in flight
    up,        \* the upstream is healthy
    flips      \* changes of its health so far

breakerVars == <<state, failures, openFor>>
vars == <<state, failures, openFor, calls, up, flips>>

States == {"closed", "open", "half_open"}

Never == -1

Idle == "idle"        \* nothing in flight
Ordinary == "call"    \* let through by a closed breaker
Probe == "probe"      \* let through by a half-open one

InFlight(c) == calls[c] # Idle

Probing == {c \in Callers : calls[c] = Probe}

-----------------------------------------------------------------------------
CooledDown == openFor # Never /\ openFor >= Cooldown

\* Mutant: a half-open breaker blocks every call but the first, as allow()'s
\* docstring has it.
AllowSingleProbe ==
    \/ state = "closed" /\ UNCHANGED breakerVars
    \/ /\ state = "open"
       /\ CooledDown
       /\ state' = "half_open"
       /\ UNCHANGED <<failures, openFor>>

\* allow() returning True, and what the breaker becomes
Allow ==
    \/ state # "open" /\ UNCHANGED breakerVars
    \/ /\ state = "open"
       /\ CooledDown
       /\ state' = "half_open"
       /\ UNCHANGED <<failures, openFor>>

\* Mutant: a state no other method knows.
TripMisspelt == state' = "opened" /\ openFor' = 0

\* _open()
Trip == state' = "open" /\ openFor' = 0

\* Mutant: a success closes the breaker but keeps the count.
RecordSuccessKeepsCount ==
    /\ state' = "closed"
    /\ openFor' = Never
    /\ UNCHANGED failures

RecordSuccess ==
    /\ state' = "closed"
    /\ failures' = 0
    /\ openFor' = Never

RecordFailure ==
    \/ /\ state = "half_open"
       /\ Trip
       /\ UNCHANGED failures
    \/ /\ state # "half_open"
       /\ failures' = IF failures < Threshold THEN failures + 1 ELSE Threshold
       /\ IF failures' >= Threshold THEN Trip ELSE UNCHANGED <<state, openFor>>

-----------------------------------------------------------------------------
(* One request: _guard, the await, _record. *)

Send(c) ==
    /\ ~InFlight(c)
    /\ Allow
    /\ calls' = [calls EXCEPT ![c] = IF state' = "half_open" THEN Probe ELSE Ordinary]
    /\ UNCHANGED <<up, flips>>

Returned(c) == InFlight(c) /\ calls' = [calls EXCEPT ![c] = Idle]

\* any response below 500
Reached(c) == up /\ Returned(c) /\ RecordSuccess /\ UNCHANGED <<up, flips>>

\* a transport error or a 5xx
Failed(c) == ~up /\ Returned(c) /\ RecordFailure /\ UNCHANGED <<up, flips>>

\* the client was closed under the request, or the caller was cancelled
Abandoned(c) == Returned(c) /\ UNCHANGED <<breakerVars, up, flips>>

Flip ==
    /\ flips < MaxFlips
    /\ flips' = flips + 1
    /\ up' = ~up
    /\ UNCHANGED <<breakerVars, calls>>

\* time past the cooldown makes no difference
Clock ==
    /\ openFor # Never
    /\ openFor' = IF openFor < Cooldown THEN openFor + 1 ELSE Cooldown
    /\ UNCHANGED <<state, failures, calls, up, flips>>

-----------------------------------------------------------------------------
Init ==
    /\ state = "closed"
    /\ failures = 0
    /\ openFor = Never
    /\ calls = [c \in Callers |-> Idle]
    /\ up = TRUE
    /\ flips = 0

Next ==
    \/ \E c \in Callers : Send(c) \/ Reached(c) \/ Failed(c) \/ Abandoned(c)
    \/ Flip
    \/ Clock

Spec == Init /\ [][Next]_vars

\* Callers poll again and again, the upstream answers what it can answer, and
\* not every request is abandoned.
Fairness ==
    /\ WF_vars(Clock)
    /\ \A c \in Callers :
          /\ WF_vars(Send(c))
          /\ SF_vars(Reached(c))
          /\ WF_vars(Failed(c))

FairSpec == Spec /\ Fairness

-----------------------------------------------------------------------------
(* Properties. *)

TypeOK ==
    /\ state \in States
    /\ failures \in 0..Threshold
    /\ openFor \in {Never} \cup 0..Cooldown
    /\ calls \in [Callers -> {Idle, Ordinary, Probe}]
    /\ up \in BOOLEAN
    /\ flips \in 0..MaxFlips

\* Whatever verdicts arrive late, a breaker that blocks calls has a deadline
\* to wait for, and a closed one is still below its threshold: it can neither
\* block for ever nor stay closed on an upstream that keeps failing.
BlocksOnlyForATime ==
    /\ state = "closed" => openFor = Never /\ failures < Threshold
    /\ state # "closed" => openFor # Never

\* A healthy upstream is noticed: unless it fails again, an open breaker
\* closes, with late failures of earlier calls, abandoned probes and several
\* callers at once.
Recovers == state = "open" ~> (state = "closed" \/ ~up)

\* allow()'s docstring: the first call after the cooldown is the probe, and
\* further calls stay blocked until that probe resolves.
SingleProbe == Cardinality(Probing) <= 1

=============================================================================
