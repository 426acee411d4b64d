----------------------------- MODULE RateLimit -----------------------------
(***************************************************************************)
(* The rate limiter (internal/ratelimit): a token bucket per client address,*)
(* made when the address is first seen, before sign-in and the API's token *)
(* endpoints.  Amounts are integers: a token is Cost units, and a tick is  *)
(* the time in which one unit is refilled; both locks are held throughout, *)
(* so a request is one step.  (The code's amounts are float64.)            *)
(***************************************************************************)
EXTENDS Naturals, FiniteSets, FiniteSetsExt

CONSTANTS
  Addresses,
  Capacity,       \* tokens
  Cost,
  TicksPerSecond,
  LastTick,
  MaxPerTick,     \* requests of an address in one tick
  NoBucket

\* Both limiters of the server are made with constants, 10 and 30 tokens.
ASSUME RateAssumption ==
  /\ {LastTick, MaxPerTick} \subseteq Nat
  /\ {Capacity, Cost, TicksPerSecond} \subseteq Nat \ {0}
  /\ NoBucket \notin [tokens : 0..Capacity * Cost, last : 0..LastTick]

VARIABLES
  buckets,   \* by address: tokens (in units) and lastRefill, or NoBucket
  clock,
  admitted,  \* by address and tick: requests let through
  refused,
  promise    \* by address: the time its Retry-After names, 0 when there is none

rateVars == <<buckets, clock, admitted, refused, promise>>
Ticks == 0..LastTick

NewTokenBucket == [tokens |-> Capacity * Cost, last |-> clock]
Lookup(a) == IF buckets[a] = NoBucket THEN NewTokenBucket ELSE buckets[a]

Refilled(b) == Min({Capacity * Cost, b.tokens + (clock - b.last)})

\* Mutation: rounded down.
WholeSeconds(wait) == IF wait < TicksPerSecond THEN 1 ELSE wait \div TicksPerSecond
\* Middleware rounds up to whole seconds.
retryAfter(wait) == (wait + TicksPerSecond - 1) \div TicksPerSecond

Allow(a) ==
  LET tokens == Refilled(Lookup(a))
  IN /\ admitted[a][clock] + refused[a] < MaxPerTick
     /\ IF tokens >= Cost
        THEN /\ buckets' = [buckets EXCEPT ![a] = [tokens |-> tokens - Cost, last |-> clock]]
             /\ admitted' = [admitted EXCEPT ![a][clock] = @ + 1]
             /\ promise' = [promise EXCEPT ![a] = 0]
             /\ UNCHANGED refused
        ELSE /\ buckets' = [buckets EXCEPT ![a] = [tokens |-> tokens, last |-> clock]]
             /\ promise' = [promise EXCEPT ![a] = clock + retryAfter(Cost - tokens) * TicksPerSecond]
             /\ refused' = [refused EXCEPT ![a] = @ + 1]
             /\ UNCHANGED admitted
  /\ UNCHANGED clock

Tick ==
  /\ clock < LastTick /\ clock' = clock + 1
  /\ refused' = [a \in Addresses |-> 0]
  /\ UNCHANGED <<buckets, admitted, promise>>

\* The registry is in memory.
NewLimiter ==
  /\ buckets' = [a \in Addresses |-> NoBucket]
  /\ admitted' = [a \in Addresses |-> [t \in Ticks |-> 0]]
  /\ promise' = [a \in Addresses |-> 0]
  /\ UNCHANGED <<clock, refused>>

RateInit ==
  /\ buckets = [a \in Addresses |-> NoBucket] /\ clock = 0
  /\ admitted = [a \in Addresses |-> [t \in Ticks |-> 0]]
  /\ refused = [a \in Addresses |-> 0]
  /\ promise = [a \in Addresses |-> 0]

RateNext == (\E a \in Addresses : Allow(a)) \/ Tick \/ NewLimiter
RateSpec == RateInit /\ [][RateNext]_rateVars

-----------------------------------------------------------------------------
RateTypeOK ==
  /\ buckets \in [Addresses -> [tokens : 0..Capacity * Cost, last : Ticks] \cup {NoBucket}]
  /\ clock \in Ticks /\ refused \in [Addresses -> 0..MaxPerTick] /\ promise \in [Addresses -> Nat]
  /\ admitted \in [Addresses -> [Ticks -> 0..MaxPerTick]]

\* ratelimit.go:69-71 and 92-96: in every stretch of time an address gets no more than
\* the capacity and what is refilled meanwhile, however long it was idle before; and a
\* client that was refused is let in once it has waited as long as Retry-After says,
\* when no other request from its address was let in before it.
RateIsKept ==
  \A a \in Addresses :
    /\ \A s \in 0..clock : Cost * MapThenSumSet(LAMBDA t : admitted[a][t], s..clock)
                              <= Capacity * Cost + (clock - s)
    /\ promise[a] \in 1..clock => Refilled(Lookup(a)) >= Cost

=============================================================================
