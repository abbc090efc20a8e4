----------------------------- MODULE RateLimit -----------------------------
(***************************************************************************)
(* The Redis-backed limit on requests of one client address                *)
(* (middlewares/rate_limiter.go): a counter that the first request of a    *)
(* window creates and gives a deadline in a second call to Redis.  Both    *)
(* middlewares work alike; their keys never meet, so the module follows    *)
(* one key.  The limit fails open: a request whose counter cannot be       *)
(* reached goes through.                                                   *)
(*                                                                         *)
(* Redis removes a counter at its deadline (Elapse).  A Redis call fails   *)
(* when Redis does, after the two seconds it is given, or when the client  *)
(* hangs up, for the call's context is the request's; Redis may have done  *)
(* its part by then, and the client library repeats a call without answer. *)
(***************************************************************************)
EXTENDS Integers, FiniteSets

CONSTANTS
  Procs,   \* requests in flight at once
  Limit

ASSUME LimitAssumption == IsFiniteSet(Procs) /\ Limit \in Nat \ {0}

\* Bounds: past Limit all counts are alike, and so are all numbers of requests
\* let through past the one that PassesBounded forbids.
Ceiling == Limit + 1
PassCeiling == Limit + Cardinality(Procs) + 1

VARIABLES
  count,     \* the counter; 0 when there is no key
  deadline,  \* the key has a time to live
  orphaned,  \* history: a call failed that left the key without its deadline
  req,       \* req[p]: where p is, and the count it was given
  passed     \* history: requests let through since the last deadline, those
             \* aside that go through because their counter was not reached

vars == <<count, deadline, orphaned, req, passed>>

Idle == [pc |-> "idle", current |-> 0]

Init ==
  /\ count = 0
  /\ deadline = FALSE
  /\ orphaned = FALSE
  /\ req = [p \in Procs |-> Idle]
  /\ passed = 0

Lesser(m, n) == IF m < n THEN m ELSE n

At(p, pc) == req[p].pc = pc

\* mutants: nobody is the first; everybody is
FirstMissed(current) == current = 0
FirstAlways(current) == TRUE

FirstOfWindow(current) == current = 1

Incr(p) ==
  /\ At(p, "idle")
  /\ count' = Lesser(count + 1, Ceiling)
  /\ req' = [req EXCEPT ![p] = [pc |-> IF FirstOfWindow(count') THEN "expire" ELSE "decide",
                                current |-> count']]
  /\ UNCHANGED <<deadline, orphaned, passed>>

\* The answer is lost after Redis counted: the call is repeated, or the request
\* goes through.  (Where Redis did not count, nothing changes.)
IncrFails(p) ==
  /\ At(p, "idle")
  /\ count' = Lesser(count + 1, Ceiling)
  /\ orphaned' = (orphaned \/ count = 0)
  /\ UNCHANGED <<deadline, req, passed>>

\* Redis ignores an Expire for a key that is gone.
Expire(p) ==
  /\ At(p, "expire")
  /\ deadline' = (count > 0)
  /\ req' = [req EXCEPT ![p].pc = "decide"]
  /\ UNCHANGED <<count, orphaned, passed>>

\* The error is logged, and that is all.
ExpireFails(p) ==
  /\ At(p, "expire")
  /\ orphaned' = (count > 0)
  /\ req' = [req EXCEPT ![p].pc = "decide"]
  /\ UNCHANGED <<count, deadline, passed>>

\* mutant: off by one
OverByTwo(current) == current > Limit + 1

Over(current) == current > Limit

Refuse(p) ==
  /\ At(p, "decide")
  /\ Over(req[p].current)
  /\ req' = [req EXCEPT ![p] = Idle]
  /\ UNCHANGED <<count, deadline, orphaned, passed>>

LetThrough(p) ==
  /\ At(p, "decide")
  /\ ~Over(req[p].current)
  /\ passed' = Lesser(passed + 1, PassCeiling)
  /\ req' = [req EXCEPT ![p] = Idle]
  /\ UNCHANGED <<count, deadline, orphaned>>

Elapse ==
  /\ deadline
  /\ count' = 0
  /\ deadline' = FALSE
  /\ passed' = 0
  /\ UNCHANGED <<orphaned, req>>

\* Once its request is counted a handler runs to its end.
Handle(p) == Expire(p) \/ ExpireFails(p) \/ Refuse(p) \/ LetThrough(p)

Next == Elapse \/ \E p \in Procs : Incr(p) \/ IncrFails(p) \/ Handle(p)

Fairness == WF_vars(Elapse) /\ \A p \in Procs : WF_vars(Handle(p))

Spec == Init /\ [][Next]_vars /\ Fairness

-----------------------------------------------------------------------------
TypeOK ==
  /\ count \in 0 .. Ceiling
  /\ deadline \in BOOLEAN
  /\ orphaned \in BOOLEAN
  /\ req \in [Procs -> [pc : {"idle", "expire", "decide"}, current : 0 .. Ceiling]]
  /\ passed \in 0 .. PassCeiling

\* A counter without a deadline is about to get one from the one request that
\* created it, or a call that failed left it so: there is no third way, and no
\* other request ever mends it.
DeadlineComing ==
  /\ TypeOK
  /\ deadline \/ orphaned => count > 0
  /\ count > 0 /\ ~deadline => orphaned \/ \E p \in Procs : At(p, "expire")
  /\ orphaned => ~deadline /\ \A p \in Procs : ~At(p, "expire")
  /\ \A p \in Procs : At(p, "expire") =>
       count > 0 /\ ~deadline /\ \A q \in Procs : At(q, "expire") => q = p

\* A window lets through its limit and, besides, at most the requests that were
\* counted in the window before.  Calls that fail do not add to it.
PassesBounded == passed =< Limit + Cardinality(Procs)

\* A window is fixed: its deadline is set once and never put off.
DeadlineIsFixed == [][deadline => \A p \in Procs : ~Expire(p)]_vars

\* An address that used up its limit is eventually let in again, unless a call
\* that failed left its counter without a deadline.
WindowsEnd == (count > Limit) ~> (count = 0 \/ orphaned)

-----------------------------------------------------------------------------
\* rate_limiter.go:58: "Too many requests from this IP, please try again later".
LaterIsAllowed == (count > Limit) ~> (count =< Limit)
=============================================================================
