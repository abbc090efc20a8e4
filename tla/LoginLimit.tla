----------------------------- MODULE LoginLimit -----------------------------
(***************************************************************************)
(* The limit on failed logins of one address with one e-mail: the handler  *)
(* HandlerUser.Login around pkg/security/login_limiter.go.  MaxAttempts    *)
(* failures within a window block the pair for a while.                    *)
(* Every line of the limiter is a call to Redis of its own, the password   *)
(* is checked between two of them, and logins run concurrently.  A limiter *)
(* that fails is logged and lets the login go on; a call may fail after    *)
(* Redis did its part.                                                     *)
(***************************************************************************)
EXTENDS Integers, FiniteSets

CONSTANTS
  Logins,       \* logins in flight at once
  MaxAttempts,  \* LOGIN_ATTEMPT_LIMIT
  MaxFaults     \* bound: calls to Redis that fail

ASSUME LoginAssumption ==
  IsFiniteSet(Logins) /\ MaxAttempts \in Nat \ {0} /\ MaxFaults \in Nat

\* Bound: from here on, counts are alike.
GuessCeiling == MaxAttempts + Cardinality(Logins) + MaxFaults

VARIABLES
  attempts,  \* login_attempts: failures counted; 0 when there is no key
  due,       \* login_attempts has a time to live
  blocked,   \* login_block exists; it never lacks a time to live
  pc,
  guesses,   \* history: passwords found wrong since a key was last given up
  faults     \* history: calls that failed

loginVars == <<attempts, due, blocked, pc, guesses, faults>>

LoginInit ==
  /\ attempts = 0
  /\ due = FALSE
  /\ blocked = FALSE
  /\ pc = [p \in Logins |-> "idle"]
  /\ guesses = 0
  /\ faults = 0

AtMost(m, n) == IF m < n THEN m ELSE n
Goto(p, from, to) == pc[p] = from /\ pc' = [pc EXCEPT ![p] = to]
Fault == faults < MaxFaults /\ faults' = faults + 1

\* A call of RegisterFailure or Reset: where its answer is lost, the rest of the
\* method is skipped.
Call(p, from, to) ==
  \/ Goto(p, from, to) /\ UNCHANGED faults
  \/ Goto(p, from, "idle") /\ Fault

-----------------------------------------------------------------------------
\* mutant: the block is never looked at
NeverBlocked == FALSE

IsBlocked == blocked

\* A login of a blocked pair is refused at once and changes nothing.
CheckBlocked(p) ==
  /\ ~IsBlocked
  /\ Goto(p, "idle", "login")
  /\ UNCHANGED <<attempts, due, blocked, guesses, faults>>

CheckFails(p) ==
  /\ Fault
  /\ Goto(p, "idle", "login")
  /\ UNCHANGED <<attempts, due, blocked, guesses>>

\* LoginUser: a wrong password or an unknown e-mail, a right one, or an error
\* of another kind, which does not count.
LoginFails(p) ==
  /\ Goto(p, "login", "incr")
  /\ guesses' = AtMost(guesses + 1, GuessCeiling)
  /\ UNCHANGED <<attempts, due, blocked, faults>>

LoginSucceeds(p) ==
  /\ Goto(p, "login", "reset")
  /\ UNCHANGED <<attempts, due, blocked, guesses, faults>>

LoginErrs(p) ==
  /\ Goto(p, "login", "idle")
  /\ UNCHANGED <<attempts, due, blocked, guesses, faults>>

-----------------------------------------------------------------------------
(* RegisterFailure *)

\* mutants: off by one; the window starts with the second failure
PastLimit(count) == count > MaxAttempts
FirstAttemptMissed(count) == count = 0

AtLimit(count) == count >= MaxAttempts

FirstAttempt(count) == count = 1

IncrAttempts(p) ==
  /\ attempts' = AtMost(attempts + 1, GuessCeiling)
  /\ Call(p, "incr", IF FirstAttempt(attempts') THEN "expire"
                     ELSE IF AtLimit(attempts') THEN "block" ELSE "idle")
  /\ UNCHANGED <<due, blocked, guesses>>

ExpireAttempts(p) ==
  /\ due' = (attempts > 0)
  /\ Call(p, "expire", IF AtLimit(1) THEN "block" ELSE "idle")
  /\ UNCHANGED <<attempts, blocked, guesses>>

SetBlock(p) ==
  /\ blocked' = TRUE
  /\ Call(p, "block", "forget")
  /\ UNCHANGED <<attempts, due, guesses>>

DropAttempts == attempts' = 0 /\ due' = FALSE

\* Its error is ignored.  Behind a Reset that took the block away this gives up
\* a later counter.
DelAttempts(p) ==
  /\ DropAttempts
  /\ guesses' = IF blocked THEN guesses ELSE 0
  /\ Goto(p, "forget", "idle")
  /\ UNCHANGED <<blocked, faults>>

-----------------------------------------------------------------------------
(* Reset *)

ResetAttempts(p) ==
  /\ DropAttempts
  /\ guesses' = 0
  /\ Call(p, "reset", "unblock")
  /\ UNCHANGED blocked

ResetBlock(p) ==
  /\ blocked' = FALSE
  /\ guesses' = 0
  /\ Goto(p, "unblock", "idle")
  /\ UNCHANGED <<attempts, due, faults>>

-----------------------------------------------------------------------------
\* A call does not reach Redis, and the rest of its method is skipped.
CallFails(p) ==
  /\ Fault
  /\ \E from \in {"incr", "expire", "block", "forget", "reset", "unblock"} :
       Goto(p, from, "idle")
  /\ UNCHANGED <<attempts, due, blocked, guesses>>

AttemptsElapse ==
  /\ due
  /\ DropAttempts
  /\ guesses' = 0
  /\ UNCHANGED <<blocked, pc, faults>>

\* A block lasts minutes, a call to Redis seconds: the Del behind a Set is over
\* before the block is.
BlockElapse ==
  /\ blocked
  /\ \A p \in Logins : pc[p] # "forget"
  /\ blocked' = FALSE
  /\ guesses' = 0
  /\ UNCHANGED <<attempts, due, pc, faults>>

HandleLogin(p) ==
  \/ LoginFails(p) \/ LoginSucceeds(p) \/ LoginErrs(p)
  \/ IncrAttempts(p) \/ ExpireAttempts(p) \/ SetBlock(p) \/ DelAttempts(p)
  \/ ResetAttempts(p) \/ ResetBlock(p)
  \/ CallFails(p)

LoginNext ==
  \/ \E p \in Logins : CheckBlocked(p) \/ CheckFails(p) \/ HandleLogin(p)
  \/ AttemptsElapse
  \/ BlockElapse

LoginFairness ==
  /\ WF_loginVars(AttemptsElapse) /\ WF_loginVars(BlockElapse)
  /\ \A p \in Logins : WF_loginVars(HandleLogin(p))

LoginSpec == LoginInit /\ [][LoginNext]_loginVars /\ LoginFairness

-----------------------------------------------------------------------------
LoginTypeOK ==
  /\ attempts \in 0 .. GuessCeiling
  /\ due \in BOOLEAN
  /\ blocked \in BOOLEAN
  /\ pc \in [Logins -> {"idle", "login", "incr", "expire", "block", "forget", "reset", "unblock"}]
  /\ guesses \in 0 .. GuessCeiling
  /\ faults \in 0 .. MaxFaults

\* Before the limiter gives up a key (at a deadline, for a login that succeeded,
\* or late) it lets at most MaxAttempts passwords be tried and, besides, those of the
\* logins that were past IsBlocked when the block came.  It fails open, but each
\* call that fails costs no more than one password.
GuessesBounded == LoginTypeOK /\ guesses < MaxAttempts + Cardinality(Logins) + faults

\* Failures are forgotten: every counter goes, at its deadline or with the block
\* it led to, unless a call failed.
FailuresForgotten == (attempts > 0) ~> (attempts = 0 \/ faults > 0)
=============================================================================
