----------------------------- MODULE RateLimiter ---------------------------
(***************************************************************************)
(* interfaces/api_server/rate_limit.py: RateLimiter.is_allowed, in a       *)
(* dependency of endpoints that run in a thread pool.                      *)
(*                                                                         *)
(* The sliding window of a client is a list that every request replaces by *)
(* its recent part, tests and extends, without a lock.  The list has the   *)
(* times of accepted requests; here it has the requests, of which check    *)
(* knows the time, as a set: nobody looks at the order.                    *)
(***************************************************************************)
EXTENDS Naturals, FiniteSets

CONSTANTS
    Checks,         \* requests, each checked once
    ClientOf,       \* the client each of them comes from
    MaxRequests,    \* max_requests
    WindowSeconds,  \* window_seconds
    MaxTime,        \* bound: time goes on until then
    NoEntry

Clients == {ClientOf[r] : r \in Checks}

ASSUME LimiterAssumption ==
    /\ IsFiniteSet(Checks)
    /\ MaxRequests \in Nat \ {0} /\ WindowSeconds \in Nat \ {0}
    /\ MaxTime \in Nat
    /\ NoEntry \notin Checks

VARIABLES
    clock,     \* time.time()
    clients,   \* _clients: the entry of each client, named by its creator
    requests,  \* _RateLimitEntry.requests of every entry
    check,     \* the checks: [at, now, entry, kept]
    crowded    \* history: checks of one client that overlapped others

limiterVars == <<clock, clients, requests, check, crowded>>

Unchecked == [at |-> "new", now |-> 0, entry |-> NoEntry, kept |-> {}]

Underway == {r \in Checks : check[r].at \notin {"new", "accepted", "refused"}}

Rivals(r) == {q \in Underway : ClientOf[q] = ClientOf[r]}

----------------------------------------------------------------------------
\* now = time.time(), and _clients.get.
Begin(r) ==
    /\ check[r].at = "new"
    /\ LET entry == clients[ClientOf[r]] IN
       check' = [check EXCEPT ![r] =
         [at |-> IF entry = NoEntry THEN "create" ELSE "read",
          now |-> clock, entry |-> entry, kept |-> {}]]
    /\ crowded' = IF Rivals(r) = {} THEN crowded ELSE crowded \cup {r} \cup Rivals(r)
    /\ UNCHANGED <<clock, clients, requests>>

Create(r) ==
    /\ check[r].at = "create"
    /\ clients' = [clients EXCEPT ![ClientOf[r]] = r]
    /\ check' = [check EXCEPT ![r].at = "read", ![r].entry = r]
    /\ UNCHANGED <<clock, requests, crowded>>

Recent(t, now) == t + WindowSeconds > now

\* The list comprehension, and then the assignment.
Prune(r) ==
    /\ check[r].at = "read"
    /\ check' = [check EXCEPT ![r].at = "assign", ![r].kept =
         {q \in requests[check[r].entry] : Recent(check[q].now, check[r].now)}]
    /\ UNCHANGED <<clock, clients, requests, crowded>>

Assign(r) ==
    /\ check[r].at = "assign"
    /\ requests' = [requests EXCEPT ![check[r].entry] = check[r].kept]
    /\ check' = [check EXCEPT ![r].at = "test", ![r].kept = {}]
    /\ UNCHANGED <<clock, clients, crowded>>

\* Mutant: one request too many.
OverLimit(n) == n > MaxRequests

AtLimit(n) == n >= MaxRequests

Test(r) ==
    /\ check[r].at = "test"
    /\ check' = [check EXCEPT ![r].at =
         IF AtLimit(Cardinality(requests[check[r].entry])) THEN "refused" ELSE "append"]
    /\ UNCHANGED <<clock, clients, requests, crowded>>

Accept(r) ==
    /\ check[r].at = "append"
    /\ requests' = [requests EXCEPT ![check[r].entry] = @ \cup {r}]
    /\ check' = [check EXCEPT ![r].at = "accepted"]
    /\ UNCHANGED <<clock, clients, crowded>>

Tick ==
    /\ clock < MaxTime
    /\ clock' = clock + 1
    /\ UNCHANGED <<clients, requests, check, crowded>>

LimiterInit ==
    /\ clock = 0
    /\ clients = [c \in Clients |-> NoEntry]
    /\ requests = [r \in Checks |-> {}]
    /\ check = [r \in Checks |-> Unchecked]
    /\ crowded = {}

LimiterNext ==
    \/ \E r \in Checks :
         Begin(r) \/ Create(r) \/ Prune(r) \/ Assign(r) \/ Test(r) \/ Accept(r)
    \/ Tick

LimiterSpec == LimiterInit /\ [][LimiterNext]_limiterVars

----------------------------------------------------------------------------
(* Properties.                                                             *)

Accepted == {r \in Checks : check[r].at = "accepted"}

\* Accepted requests of r's client that lie in the window of r.
InWindow(r) ==
    {q \in Accepted : ClientOf[q] = ClientOf[r] /\ Recent(check[q].now, check[r].now)}

\* The checks whose pruned list r may have tested instead of its own.
ListsOf(r) == IF r \in crowded THEN {q \in crowded : ClientOf[q] = ClientOf[r]} ELSE {r}

\* One request of a client at a time: never more than MaxRequests accepted in
\* a window.  Checks that overlap lose entries of the list and bring old ones
\* back; they may let more requests pass, but even then a request is refused
\* only if MaxRequests accepted ones lie in its window or in a rival's.
LimitHolds ==
    /\ \A r \in Accepted :
         (\A q \in crowded : ClientOf[q] # ClientOf[r]) =>
             Cardinality({q \in InWindow(r) : check[q].now <= check[r].now}) <= MaxRequests
    /\ \A r \in Checks : check[r].at = "refused" =>
         \E q \in ListsOf(r) : Cardinality(InWindow(q)) >= MaxRequests
=============================================================================
