---------------------------- MODULE LimitsProofs ----------------------------
(***************************************************************************)
(* Proofs about the two limits that are kept in Redis, for any number of   *)
(* requests or logins and any limit, under calls that fail.                *)
(*                                                                         *)
(* RateLimit: DeadlineComing is inductive: the request that created a      *)
(* counter is the only one that can give it a deadline.                    *)
(*                                                                         *)
(* LoginLimit: before the block every wrong password is in the counter, is *)
(* about to be, or cost a call that failed; a login that brings the        *)
(* counter to the limit tries no further password before it blocks.        *)
(***************************************************************************)
EXTENDS RateLimit, LoginLimit, FiniteSetTheorems, TLAPS

Requests == [Procs -> [pc : {"idle", "expire", "decide"}, current : 0 .. Ceiling]]

LEMMA CeilingsType == Ceiling \in Nat /\ Ceiling > 1 /\ PassCeiling \in Nat /\ PassCeiling > 0
<1>1. Cardinality(Procs) \in Nat
  BY LimitAssumption, FS_CardinalityType
<1>2. QED
  BY <1>1, LimitAssumption DEF Ceiling, PassCeiling

LEMMA LesserType ==
  ASSUME NEW n \in Nat, NEW m \in 0 .. n
  PROVE  Lesser(m + 1, n) \in 0 .. n /\ (n > 0 => Lesser(m + 1, n) > 0)
BY DEF Lesser

LEMMA InitComing == Init => DeadlineComing
<1> SUFFICES ASSUME Init PROVE DeadlineComing
  OBVIOUS
<1>1. Idle \in [pc : {"idle", "expire", "decide"}, current : 0 .. Ceiling]
  BY CeilingsType DEF Idle
<1>2. count \in 0 .. Ceiling /\ passed \in 0 .. PassCeiling /\ ~(count > 0)
  BY CeilingsType DEF Init
<1>3. \A p \in Procs : ~At(p, "expire")
  BY DEF Init, At, Idle
<1>4. req \in Requests
  BY <1>1, Zenon DEF Init, Requests
<1>5. deadline \in BOOLEAN /\ orphaned \in BOOLEAN /\ ~deadline /\ ~orphaned
  BY Zenon DEF Init
<1>6. QED
  BY <1>2, <1>3, <1>4, <1>5, Zenon DEF DeadlineComing, TypeOK, Requests

LEMMA ComingStep == DeadlineComing /\ [Next]_vars => DeadlineComing'
<1> SUFFICES ASSUME DeadlineComing, [Next]_vars PROVE DeadlineComing'
  OBVIOUS
<1> USE CeilingsType
<1>1. ASSUME NEW p \in Procs, Incr(p)
      PROVE  DeadlineComing'
  <2>1. count' \in 1 .. Ceiling
    BY <1>1, LesserType DEF Incr, DeadlineComing, TypeOK
  <2>2. FirstOfWindow(count') <=> count = 0
    BY <1>1 DEF Incr, FirstOfWindow, Lesser, DeadlineComing, TypeOK
  <2>3. req' \in Requests
    BY <1>1, <2>1 DEF Incr, DeadlineComing, TypeOK, Requests
  <2>4. TypeOK'
    BY <1>1, <2>1, <2>3, Zenon DEF Incr, DeadlineComing, TypeOK, Requests
  <2>5. \A q \in Procs : At(q, "expire")' <=> IF q = p THEN count = 0 ELSE At(q, "expire")
    BY <1>1, <2>2 DEF Incr, DeadlineComing, TypeOK, At
  <2>6. deadline' = deadline /\ orphaned' = orphaned
    BY <1>1 DEF Incr
  <2>7. (deadline <=> deadline') /\ (orphaned <=> orphaned')
    BY <2>6, Zenon
  <2>8. CASE count = 0
    <3>1. ~deadline /\ ~orphaned /\ \A q \in Procs : At(q, "expire")' <=> q = p
      BY <2>5, <2>8 DEF DeadlineComing
    <3>2. QED
      BY <2>1, <2>4, <2>7, <3>1 DEF DeadlineComing
  <2>9. CASE count # 0
    <3>1. count > 0 /\ \A q \in Procs : At(q, "expire")' <=> At(q, "expire")
      <4>1. ~At(p, "expire")
        BY <1>1 DEF Incr, At
      <4>2. QED
        BY <2>5, <2>9, <4>1 DEF DeadlineComing, TypeOK
    <3>2. QED
      BY <2>1, <2>4, <2>7, <3>1 DEF DeadlineComing
  <2>10. QED
    BY <2>8, <2>9
<1>2. ASSUME NEW p \in Procs, IncrFails(p)
      PROVE  DeadlineComing'
  <2>1. count' \in 1 .. Ceiling
    BY <1>2, LesserType DEF IncrFails, DeadlineComing, TypeOK
  <2>2. UNCHANGED <<deadline, req, passed>>
    BY <1>2 DEF IncrFails
  <2>3. orphaned' = (orphaned \/ count = 0)
    BY <1>2, Zenon DEF IncrFails
  <2>4. count' \in 0 .. Ceiling
    BY <2>1
  <2>5. orphaned' \in BOOLEAN /\ (orphaned' <=> orphaned \/ count = 0)
    BY <2>3, Zenon
  <2>6. deadline' = deadline /\ req' = req /\ passed' = passed
    BY <2>2
  <2>7. TypeOK'
    BY <2>4, <2>5, <2>6, Zenon DEF DeadlineComing, TypeOK
  <2>8. (deadline <=> deadline') /\ \A q \in Procs : At(q, "expire")' <=> At(q, "expire")
    BY <2>6, Zenon DEF At
  <2>9. count \in Nat /\ (count = 0 => ~deadline /\ \A q \in Procs : ~At(q, "expire"))
    BY DEF DeadlineComing, TypeOK
  <2>10. QED
    BY <2>1, <2>5, <2>7, <2>8, <2>9 DEF DeadlineComing
<1>3. ASSUME NEW p \in Procs, Expire(p) \/ ExpireFails(p) \/ Refuse(p) \/ LetThrough(p)
      PROVE  DeadlineComing'
  <2>1. Idle \in [pc : {"idle", "expire", "decide"}, current : 0 .. Ceiling]
    BY DEF Idle
  <2>2. req' \in Requests
    BY <1>3, <2>1 DEF Expire, ExpireFails, Refuse, LetThrough, DeadlineComing, TypeOK, Requests
  <2>3. count' = count /\ passed' \in 0 .. PassCeiling
    BY <1>3, LesserType DEF Expire, ExpireFails, Refuse, LetThrough, DeadlineComing, TypeOK
  <2>4. \A q \in Procs : At(q, "expire")' <=> q # p /\ At(q, "expire")
    BY <1>3 DEF Expire, ExpireFails, Refuse, LetThrough, DeadlineComing, TypeOK, At, Idle
  <2>5. CASE Expire(p)
    <3>1. deadline' = (count > 0) /\ UNCHANGED orphaned
      BY <2>5, Zenon DEF Expire
    <3>2. count > 0 /\ ~deadline /\ ~orphaned /\ \A q \in Procs : ~At(q, "expire")'
      BY <2>4, <2>5 DEF Expire, DeadlineComing, At
    <3>3. TypeOK'
      BY <2>2, <2>3, <3>1, <3>2, Zenon DEF DeadlineComing, TypeOK, Requests
    <3>4. QED
      BY <2>3, <3>1, <3>2, <3>3 DEF DeadlineComing
  <2>6. CASE ExpireFails(p)
    <3>1. orphaned' = (count > 0) /\ UNCHANGED deadline
      BY <2>6, Zenon DEF ExpireFails
    <3>2. count > 0 /\ ~deadline /\ \A q \in Procs : ~At(q, "expire")'
      BY <2>4, <2>6 DEF ExpireFails, DeadlineComing, At
    <3>3. TypeOK'
      BY <2>2, <2>3, <3>1, <3>2, Zenon DEF DeadlineComing, TypeOK, Requests
    <3>4. QED
      BY <2>3, <3>1, <3>2, <3>3 DEF DeadlineComing
  <2>7. CASE Refuse(p) \/ LetThrough(p)
    <3>1. UNCHANGED <<deadline, orphaned>>
      BY <2>7 DEF Refuse, LetThrough
    <3>2. ~At(p, "expire")
      BY <2>7 DEF Refuse, LetThrough, At
    <3>3. TypeOK'
      BY <2>2, <2>3, <3>1, Zenon DEF DeadlineComing, TypeOK, Requests
    <3>4. QED
      BY <2>3, <2>4, <3>1, <3>2, <3>3 DEF DeadlineComing
  <2>8. QED
    BY <1>3, <2>5, <2>6, <2>7
<1>4. CASE Elapse
  <2>1. UNCHANGED <<orphaned, req>> /\ ~orphaned /\ \A p \in Procs : ~At(p, "expire")'
    BY <1>4 DEF Elapse, DeadlineComing, At
  <2>2. count' = 0 /\ passed' = 0
    BY <1>4 DEF Elapse
  <2>3. deadline' \in BOOLEAN /\ ~deadline'
    BY <1>4, Zenon DEF Elapse
  <2>4. QED
    BY <2>1, <2>2, <2>3 DEF DeadlineComing, TypeOK
<1>5. CASE UNCHANGED vars
  BY <1>5 DEF vars, DeadlineComing, TypeOK, At
<1>6. QED
  BY <1>1, <1>2, <1>3, <1>4, <1>5 DEF Next, Handle

(* A counter always has its deadline, or one request that is about to set  *)
(* it, or lost that request's only call: nothing else ever mends it.       *)
THEOREM DeadlineAlwaysComing == Spec => []DeadlineComing
BY InitComing, ComingStep, PTL DEF Spec

(* A window's deadline is set once, whatever fails: no later request and no *)
(* late Expire puts it off.                                                 *)
THEOREM DeadlineFixed == Spec => DeadlineIsFixed
<1>1. DeadlineComing => [deadline => \A p \in Procs : ~Expire(p)]_vars
  BY DEF DeadlineComing, Expire
<1>2. QED
  BY <1>1, DeadlineAlwaysComing, PTL DEF DeadlineIsFixed

-----------------------------------------------------------------------------
(* The requests counted and not yet let through keep, each, the place they *)
(* have below the limit, whatever window it was in.                        *)

Counted == {p \in Procs : ~At(p, "idle") /\ ~Over(req[p].current)}

Budget == passed + Cardinality(Counted) =< Lesser(count, Limit) + Cardinality(Procs)

LEMMA CountedFinite ==
  /\ IsFiniteSet(Counted) /\ Cardinality(Counted) \in Nat
  /\ Cardinality(Counted) =< Cardinality(Procs) /\ Cardinality(Procs) \in Nat
<1>1. Counted \subseteq Procs
  BY DEF Counted
<1>2. QED
  BY <1>1, LimitAssumption, FS_Subset, FS_CardinalityType

LEMMA BudgetStep == DeadlineComing /\ Budget /\ [Next]_vars => Budget'
<1> SUFFICES ASSUME DeadlineComing, Budget, [Next]_vars PROVE Budget'
  OBVIOUS
<1> USE CeilingsType, CountedFinite, LimitAssumption
<1>1. count \in Nat /\ passed \in Nat /\ Limit \in Nat /\ count =< Ceiling /\ Ceiling = Limit + 1
  BY DEF DeadlineComing, TypeOK, Ceiling
<1>2. ASSUME NEW p \in Procs, Incr(p)
      PROVE  Budget'
  <2>1. count' = Lesser(count + 1, Ceiling) /\ passed' = passed
    BY <1>2 DEF Incr
  <2>2. p \notin Counted
    BY <1>2 DEF Incr, Counted
  <2>3. req'[p].current = count' /\ ~At(p, "idle")' /\ \A q \in Procs \ {p} : req'[q] = req[q]
    BY <1>2 DEF Incr, DeadlineComing, TypeOK, At
  <2>4. Counted' = IF Over(count') THEN Counted ELSE Counted \cup {p}
    BY <2>2, <2>3 DEF Counted, At
  <2>5. CASE Over(count')
    <3>1. Lesser(count', Limit) >= Lesser(count, Limit)
      BY <1>1, <2>1 DEF Lesser
    <3>2. QED
      BY <1>1, <2>1, <2>4, <2>5, <3>1 DEF Budget, Lesser
  <2>6. CASE ~Over(count')
    <3>1. Cardinality(Counted') = Cardinality(Counted) + 1
      BY <2>2, <2>4, <2>6, FS_AddElement
    <3>2. Lesser(count', Limit) = Lesser(count, Limit) + 1
      BY <1>1, <2>1, <2>6 DEF Lesser, Over
    <3>3. QED
      BY <1>1, <2>1, <3>1, <3>2 DEF Budget, Lesser
  <2>7. QED
    BY <2>5, <2>6
<1>3. ASSUME NEW p \in Procs, IncrFails(p)
      PROVE  Budget'
  <2>1. count' = Lesser(count + 1, Ceiling) /\ passed' = passed /\ req' = req
    BY <1>3 DEF IncrFails
  <2>2. Counted' = Counted
    BY <2>1 DEF Counted, At
  <2>3. Lesser(count', Limit) >= Lesser(count, Limit)
    BY <1>1, <2>1 DEF Lesser
  <2>4. QED
    BY <1>1, <2>1, <2>2, <2>3 DEF Budget, Lesser
<1>4. ASSUME NEW p \in Procs, Expire(p) \/ ExpireFails(p)
      PROVE  Budget'
  <2>1. count' = count /\ passed' = passed
    BY <1>4 DEF Expire, ExpireFails
  <2>2. \A q \in Procs : At(q, "idle")' = At(q, "idle") /\ req'[q].current = req[q].current
    BY <1>4 DEF Expire, ExpireFails, DeadlineComing, TypeOK, At
  <2>3. Counted' = Counted
    BY <2>2 DEF Counted
  <2>4. QED
    BY <2>1, <2>3 DEF Budget
<1>5. ASSUME NEW p \in Procs, Refuse(p)
      PROVE  Budget'
  <2>1. count' = count /\ passed' = passed
    BY <1>5 DEF Refuse
  <2>2. At(p, "idle")' /\ Over(req[p].current) /\ \A q \in Procs \ {p} : req'[q] = req[q]
    BY <1>5 DEF Refuse, DeadlineComing, TypeOK, At, Idle
  <2>3. Counted' = Counted
    BY <2>2 DEF Counted, At
  <2>4. QED
    BY <2>1, <2>3 DEF Budget
<1>6. ASSUME NEW p \in Procs, LetThrough(p)
      PROVE  Budget'
  <2>1. count' = count /\ passed' = Lesser(passed + 1, PassCeiling)
    BY <1>6 DEF LetThrough
  <2>2. p \in Counted /\ At(p, "idle")' /\ \A q \in Procs \ {p} : req'[q] = req[q]
    BY <1>6 DEF LetThrough, DeadlineComing, TypeOK, At, Idle, Counted
  <2>3. Counted' = Counted \ {p}
    BY <2>2 DEF Counted, At
  <2>4. Cardinality(Counted') = Cardinality(Counted) - 1
    BY <2>2, <2>3, FS_RemoveElement
  <2>5. passed' =< passed + 1 /\ passed' \in Nat
    BY <1>1, <2>1 DEF Lesser
  <2>6. QED
    BY <1>1, <2>1, <2>4, <2>5 DEF Budget, Lesser
<1>7. CASE Elapse
  <2>1. passed' = 0 /\ count' = 0 /\ req' = req
    BY <1>7 DEF Elapse
  <2>2. Counted' = Counted
    BY <2>1 DEF Counted, At
  <2>3. QED
    BY <1>1, <2>1, <2>2 DEF Budget, Lesser
<1>8. CASE UNCHANGED vars
  <2>1. count' = count /\ passed' = passed /\ req' = req
    BY <1>8 DEF vars
  <2>2. Counted' = Counted
    BY <2>1 DEF Counted, At
  <2>3. QED
    BY <2>1, <2>2 DEF Budget
<1>9. QED
  BY <1>2, <1>3, <1>4, <1>5, <1>6, <1>7, <1>8 DEF Next, Handle

(* A window lets through no more than its limit and one request besides for *)
(* each that may have been counted in the window before.                    *)
THEOREM WindowBounded == Spec => []PassesBounded
<1>1. Init => Budget
  <2> SUFFICES ASSUME Init PROVE Budget
    OBVIOUS
  <2>1. count = 0 /\ passed = 0 /\ Counted = {}
    BY DEF Init, Counted, At, Idle
  <2>2. QED
    BY <2>1, CountedFinite, LimitAssumption, FS_EmptySet DEF Budget, Lesser
<1>2. DeadlineComing /\ Budget => PassesBounded
  <2> SUFFICES ASSUME DeadlineComing, Budget PROVE PassesBounded
    OBVIOUS
  <2>1. count \in Nat /\ passed \in Nat /\ Limit \in Nat
    BY CeilingsType, LimitAssumption DEF DeadlineComing, TypeOK
  <2>2. QED
    BY <2>1, CountedFinite DEF Budget, PassesBounded, Lesser
<1>3. QED
  BY <1>1, <1>2, BudgetStep, DeadlineAlwaysComing, PTL DEF Spec

-----------------------------------------------------------------------------
(* The login limit *)

LoginSteps == {"idle", "login", "incr", "expire", "block", "forget", "reset", "unblock"}

\* How many logins are at one of these steps.
Count(steps) == Cardinality({p \in Logins : pc[p] \in steps})

Trying == {"login"}
Counting == {"incr"}

\* Past a wrong password, and not to try another before the block.
Bound == {"incr", "block"} \cup IF AtLimit(1) THEN {"expire"} ELSE {}

\* What each wrong password since a key was given up shows as, while there is no
\* block, and once there is one.
Unblocked ==
  /\ guesses <= attempts + Count(Counting) + faults
  /\ guesses <= MaxAttempts - 1 + Count(Bound) + faults

Blocked == guesses + Count(Trying) <= MaxAttempts - 1 + Cardinality(Logins) + faults

LoginIInv ==
  /\ LoginTypeOK
  /\ ~blocked => Unblocked
  /\ blocked => Blocked

LEMMA CountBounded ==
  ASSUME NEW at, NEW K
  PROVE  /\ Cardinality({p \in Logins : at[p] \in K}) \in Nat
         /\ Cardinality({p \in Logins : at[p] \in K}) <= Cardinality(Logins)
<1>1. {p \in Logins : at[p] \in K} \subseteq Logins
  OBVIOUS
<1> QED BY <1>1, LoginAssumption, FS_Subset, FS_CardinalityType

LEMMA CountType ==
  ASSUME NEW K
  PROVE  /\ Count(K) \in Nat /\ Count(K) <= Cardinality(Logins)
         /\ Count(K)' \in Nat /\ Count(K)' <= Cardinality(Logins)
BY CountBounded DEF Count

LEMMA CountDisjoint ==
  Count(Bound) + Count(Trying) <= Cardinality(Logins)
<1> DEFINE S == {p \in Logins : pc[p] \in Bound}
           T == {p \in Logins : pc[p] \in Trying}
<1>1. S \subseteq Logins /\ T \subseteq Logins /\ IsFiniteSet(Logins)
  BY LoginAssumption
<1>2. IsFiniteSet(S) /\ IsFiniteSet(T)
  BY <1>1, FS_Subset
<1>3. S \cap T = {}
  BY DEF Bound, Trying, AtLimit
<1>4. Cardinality(S \cup T) = Cardinality(S) + Cardinality(T)
  <2>1. /\ Cardinality(S \cup T) = Cardinality(S) + Cardinality(T) - Cardinality(S \cap T)
    BY <1>2, FS_Union
  <2>2. Cardinality(S \cap T) = 0 BY <1>3, FS_EmptySet
  <2>3. Cardinality(S) \in Nat /\ Cardinality(T) \in Nat BY <1>2, FS_CardinalityType
  <2> QED BY <2>1, <2>2, <2>3
<1>5. Cardinality(S \cup T) <= Cardinality(Logins)
  BY <1>1, FS_Subset
<1> QED BY <1>4, <1>5 DEF Count

LEMMA OneLess ==
  ASSUME NEW S, IsFiniteSet(S), NEW x \in S
  PROVE  IsFiniteSet(S \ {x}) /\ Cardinality(S \ {x}) = Cardinality(S) - 1
BY FS_RemoveElement

LEMMA CountMoved ==
  ASSUME NEW K, NEW p \in Logins, NEW from, NEW to, pc \in [Logins -> LoginSteps], Goto(p, from, to)
  PROVE  /\ Count(K) \in Nat /\ Count(K)' \in Nat
         /\ Count(K)' <= Count(K) + 1
         /\ to \in K \/ from \notin K => Count(K)' >= Count(K)
         /\ from \notin K /\ to \in K => Count(K)' = Count(K) + 1
         /\ from \in K \/ to \notin K => Count(K)' <= Count(K)
         /\ from \in K /\ to \notin K => Count(K)' = Count(K) - 1
         /\ (from \in K <=> to \in K) => Count(K)' = Count(K)
<1> DEFINE S == {q \in Logins : pc[q] \in K}
<1>1. pc[p] = from /\ pc' = [pc EXCEPT ![p] = to]
  BY DEF Goto
<1>2. S' = {q \in Logins : pc'[q] \in K}
  OBVIOUS
<1>3. IsFiniteSet(S) /\ Cardinality(S) \in Nat
  <2>1. S \subseteq Logins OBVIOUS
  <2> QED BY <2>1, LoginAssumption, FS_Subset, FS_CardinalityType
<1>c. Count(K) = Cardinality(S) /\ Count(K)' = Cardinality(S')
  BY DEF Count
<1>4. CASE from \in K /\ to \in K
  <2>1. S' = S BY <1>1, <1>2, <1>4
  <2>2. Count(K)' = Count(K) /\ Count(K) \in Nat BY <1>3, <1>c, <2>1
  <2> QED BY <1>4, <2>2
<1>5. CASE from \in K /\ to \notin K
  <2>1. S' = S \ {p} /\ p \in S BY <1>1, <1>2, <1>5
  <2>2. Cardinality(S') = Cardinality(S) - 1 BY <1>3, <2>1, OneLess
  <2>3. Cardinality(S') \in Nat BY <1>3, <2>1, OneLess, FS_CardinalityType
  <2> QED BY <1>3, <1>5, <1>c, <2>2, <2>3
<1>6. CASE from \notin K /\ to \in K
  <2>1. S' = S \cup {p} /\ p \notin S BY <1>1, <1>2, <1>6
  <2>2. Cardinality(S') = Cardinality(S) + 1 BY <1>3, <2>1, FS_AddElement
  <2> QED BY <1>3, <1>6, <1>c, <2>2
<1>7. CASE from \notin K /\ to \notin K
  <2>1. S' = S BY <1>1, <1>2, <1>7
  <2> QED BY <1>3, <1>7, <1>c, <2>1
<1> QED BY <1>4, <1>5, <1>6, <1>7

LEMMA GuessCeilingType == GuessCeiling \in Nat /\ Cardinality(Logins) \in Nat
<1>1. Cardinality(Logins) \in Nat BY LoginAssumption, FS_CardinalityType
<1> QED BY <1>1, LoginAssumption DEF GuessCeiling

\* The values as numbers, and a login that moves.
LEMMA LoginNumbers ==
  ASSUME LoginTypeOK
  PROVE  /\ attempts \in Nat /\ guesses \in Nat /\ faults \in Nat
         /\ attempts <= GuessCeiling /\ guesses <= GuessCeiling
         /\ pc \in [Logins -> LoginSteps]
<1>2. pc \in [Logins -> LoginSteps] BY DEF LoginTypeOK, LoginSteps
<1> QED BY <1>2, GuessCeilingType DEF LoginTypeOK

LEMMA Moved ==
  ASSUME LoginTypeOK, NEW p \in Logins, NEW from, NEW to \in LoginSteps, Goto(p, from, to)
  PROVE  pc' \in [Logins -> LoginSteps]
BY DEF LoginTypeOK, LoginSteps, Goto

LEMMA FaultType ==
  ASSUME LoginTypeOK, Fault
  PROVE  faults' \in 0 .. MaxFaults /\ faults' = faults + 1
BY LoginAssumption DEF LoginTypeOK, Fault

LEMMA AtMostType ==
  ASSUME NEW n \in Nat, NEW m \in 0 .. n
  PROVE  /\ AtMost(m + 1, n) \in 0 .. n
         /\ AtMost(m + 1, n) <= m + 1
         /\ AtMost(m + 1, n) = m + 1 \/ (AtMost(m + 1, n) = n)
BY DEF AtMost

LEMMA LoginInitHolds == LoginInit => LoginIInv
<1> SUFFICES ASSUME LoginInit PROVE LoginIInv
  OBVIOUS
<1>1. LoginTypeOK
  <2>1. 0 \in 0 .. GuessCeiling /\ 0 \in 0 .. MaxFaults
    BY GuessCeilingType, LoginAssumption
  <2> QED BY <2>1 DEF LoginInit, LoginTypeOK
<1>2. Unblocked
  BY CountType, LoginAssumption DEF LoginInit, Unblocked
<1>3. ~blocked BY DEF LoginInit
<1> QED BY <1>1, <1>2, <1>3 DEF LoginIInv

(* Neither the keys nor the guesses change, and a login past a wrong       *)
(* password drops out only where a call failed.                            *)
LEMMA QuietKeeps ==
  ASSUME LoginIInv, LoginTypeOK', NEW p \in Logins, NEW from, NEW to, Goto(p, from, to),
         UNCHANGED <<attempts, blocked, guesses>>,
         faults' \in {faults, faults + 1},
         blocked /\ to \in Trying => faults' = faults + 1,
         from \in Counting => to \in Counting \/ faults' = faults + 1,
         from \in Bound => to \in Bound \/ faults' = faults + 1
  PROVE  LoginIInv'
<1>1. LoginTypeOK BY DEF LoginIInv
<1> DEFINE d == faults' - faults
<1>2. /\ Count(Counting) <= Count(Counting)' + d
      /\ Count(Bound) <= Count(Bound)' + d
      /\ Count(Trying)' <= Count(Trying) + 1
      /\ blocked => Count(Trying)' <= Count(Trying) + d
      /\ Count(Counting) \in Nat /\ Count(Bound) \in Nat /\ Count(Trying) \in Nat
      /\ Count(Counting)' \in Nat /\ Count(Bound)' \in Nat /\ Count(Trying)' \in Nat
  <2>1. d \in {0, 1} /\ (faults' = faults + 1 => d = 1) BY <1>1, LoginNumbers
  <2>2. Count(Counting) <= Count(Counting)' + d
    <3>1. CASE from \in Counting /\ to \notin Counting
      BY <1>1, <2>1, <3>1, LoginNumbers, CountMoved
    <3>2. CASE ~(from \in Counting /\ to \notin Counting)
      <4>1. Count(Counting) <= Count(Counting)' BY <1>1, <3>2, LoginNumbers, CountMoved
      <4> QED BY <2>1, <4>1, CountType
    <3> QED BY <3>1, <3>2
  <2>3. Count(Bound) <= Count(Bound)' + d
    <3>1. CASE from \in Bound /\ to \notin Bound
      BY <1>1, <2>1, <3>1, LoginNumbers, CountMoved
    <3>2. CASE ~(from \in Bound /\ to \notin Bound)
      <4>1. Count(Bound) <= Count(Bound)' BY <1>1, <3>2, LoginNumbers, CountMoved
      <4> QED BY <2>1, <4>1, CountType
    <3> QED BY <3>1, <3>2
  <2>4. Count(Trying)' <= Count(Trying) + 1
    BY <1>1, LoginNumbers, CountMoved
  <2>5. ASSUME blocked PROVE Count(Trying)' <= Count(Trying) + d
    <3>1. CASE to \in Trying BY <2>1, <2>4, <2>5, <3>1
    <3>2. CASE to \notin Trying
      <4>1. Count(Trying)' <= Count(Trying) BY <1>1, <3>2, LoginNumbers, CountMoved
      <4> QED BY <2>1, <4>1, CountType
    <3> QED BY <3>1, <3>2
  <2> QED BY <2>2, <2>3, <2>4, <2>5, CountType
<1>3. d \in {0, 1} /\ faults' = faults + d BY <1>1, LoginNumbers
<1>4. ~blocked' => Unblocked'
  <2>1. ASSUME ~blocked' PROVE Unblocked
    BY <2>1 DEF LoginIInv
  <2> HIDE DEF d
  <2> QED BY <1>1, <1>2, <1>3, <2>1, LoginNumbers, LoginAssumption DEF Unblocked
<1>5. blocked' => Blocked'
  <2>1. ASSUME blocked' PROVE Blocked /\ Count(Trying)' <= Count(Trying) + d
    BY <1>2, <2>1 DEF LoginIInv
  <2> HIDE DEF d
  <2> QED BY <1>1, <1>2, <1>3, <2>1, LoginNumbers, LoginAssumption, GuessCeilingType DEF Blocked
<1> QED BY <1>4, <1>5 DEF LoginIInv

(* No guess is held against anybody. *)
LEMMA ForgottenKeeps ==
  ASSUME LoginTypeOK', guesses' = 0
  PROVE  LoginIInv'
<1>1. attempts' \in Nat /\ faults' \in Nat
  BY GuessCeilingType, LoginAssumption DEF LoginTypeOK
<1>2. Unblocked' BY <1>1, CountType, LoginAssumption DEF Unblocked
<1>3. Blocked' BY <1>1, CountType, GuessCeilingType, LoginAssumption DEF Blocked
<1> QED BY <1>2, <1>3 DEF LoginIInv

LEMMA CheckKeeps ==
  ASSUME LoginIInv, NEW p \in Logins, CheckBlocked(p) \/ CheckFails(p) PROVE LoginIInv'
<1>1. LoginTypeOK BY DEF LoginIInv
<1>2. Goto(p, "idle", "login") /\ UNCHANGED <<attempts, due, blocked, guesses>>
  BY DEF CheckBlocked, CheckFails
<1>3. faults' \in 0 .. MaxFaults /\ faults' \in {faults, faults + 1}
  BY <1>1, FaultType DEF CheckBlocked, CheckFails, LoginTypeOK
<1>4. blocked => faults' = faults + 1
  BY FaultType, <1>1 DEF CheckBlocked, CheckFails, IsBlocked
<1>5. LoginTypeOK'
  <2>1. pc' \in [Logins -> LoginSteps]
    <3>1. "login" \in LoginSteps BY DEF LoginSteps
    <3> QED BY <1>1, <1>2, <3>1, Moved
  <2> QED BY <1>1, <1>2, <1>3, <2>1 DEF LoginTypeOK, LoginSteps
<1>6. "idle" \notin Counting /\ "idle" \notin Bound
  BY DEF Counting, Bound
<1> QED BY <1>2, <1>3, <1>4, <1>5, <1>6, QuietKeeps

LEMMA LoginEndsKeeps ==
  ASSUME LoginIInv, NEW p \in Logins, LoginSucceeds(p) \/ LoginErrs(p) PROVE LoginIInv'
<1>1. LoginTypeOK BY DEF LoginIInv
<1>2. PICK to \in {"reset", "idle"} :
        Goto(p, "login", to) /\ UNCHANGED <<attempts, due, blocked, guesses, faults>>
  BY DEF LoginSucceeds, LoginErrs
<1>3. LoginTypeOK'
  <2>1. pc' \in [Logins -> LoginSteps]
    <3>1. to \in LoginSteps BY DEF LoginSteps
    <3> QED BY <1>1, <1>2, <3>1, Moved
  <2> QED BY <1>1, <1>2, <2>1 DEF LoginTypeOK, LoginSteps
<1>4. "login" \notin Counting /\ "login" \notin Bound /\ to \notin Trying
  BY DEF Counting, Bound, Trying
<1> QED BY <1>2, <1>3, <1>4, QuietKeeps

LEMMA CallFailsKeeps ==
  ASSUME LoginIInv, NEW p \in Logins, CallFails(p) PROVE LoginIInv'
<1>1. LoginTypeOK BY DEF LoginIInv
<1>2. PICK from : Goto(p, from, "idle")
  BY DEF CallFails
<1>3. Fault /\ UNCHANGED <<attempts, due, blocked, guesses>>
  BY DEF CallFails
<1>4. faults' \in 0 .. MaxFaults /\ faults' = faults + 1
  BY <1>1, <1>3, FaultType
<1>5. LoginTypeOK'
  <2>1. pc' \in [Logins -> LoginSteps]
    <3>1. "idle" \in LoginSteps BY DEF LoginSteps
    <3> QED BY <1>1, <1>2, <3>1, Moved
  <2> QED BY <1>1, <1>3, <1>4, <2>1 DEF LoginTypeOK, LoginSteps
<1> QED BY <1>2, <1>3, <1>4, <1>5, QuietKeeps

LEMMA LoginFailsKeeps ==
  ASSUME LoginIInv, NEW p \in Logins, LoginFails(p) PROVE LoginIInv'
<1>1. LoginTypeOK BY DEF LoginIInv
<1>2. Goto(p, "login", "incr") /\ UNCHANGED <<attempts, due, blocked, faults>>
  BY DEF LoginFails
<1>3. guesses' \in 0 .. GuessCeiling /\ guesses' <= guesses + 1
  BY <1>1, AtMostType, GuessCeilingType DEF LoginFails, LoginTypeOK
<1>4. LoginTypeOK'
  <2>1. pc' \in [Logins -> LoginSteps]
    <3>1. "incr" \in LoginSteps BY DEF LoginSteps
    <3> QED BY <1>1, <1>2, <3>1, Moved
  <2> QED BY <1>1, <1>2, <1>3, <2>1 DEF LoginTypeOK, LoginSteps
<1>5. /\ Count(Counting)' = Count(Counting) + 1 /\ Count(Bound)' = Count(Bound) + 1
      /\ Count(Trying)' = Count(Trying) - 1
      /\ Count(Counting) \in Nat /\ Count(Bound) \in Nat /\ Count(Trying) \in Nat
  <2>1. /\ "incr" \in Counting /\ "login" \notin Counting
        /\ "incr" \in Bound /\ "login" \notin Bound
        /\ "login" \in Trying /\ "incr" \notin Trying
    BY DEF Counting, Bound, Trying
  <2> QED BY <1>1, <1>2, <2>1, LoginNumbers, CountMoved
<1>6. ~blocked' => Unblocked'
  <2>1. ASSUME ~blocked' PROVE Unblocked
    BY <2>1, <1>2 DEF LoginIInv
  <2> QED BY <1>1, <1>2, <1>3, <1>5, <2>1, LoginNumbers, LoginAssumption DEF Unblocked
<1>7. blocked' => Blocked'
  <2>1. ASSUME blocked' PROVE Blocked
    BY <2>1, <1>2 DEF LoginIInv
  <2> QED BY <1>1, <1>2, <1>3, <1>5, <2>1, LoginNumbers, LoginAssumption, GuessCeilingType
          DEF Blocked
<1> QED BY <1>4, <1>6, <1>7 DEF LoginIInv

(* RegisterFailure *)

\* Where a call of RegisterFailure or Reset leaves its login.
LEMMA Called ==
  ASSUME LoginTypeOK, NEW p \in Logins, NEW from, NEW to \in LoginSteps, Call(p, from, to)
  PROVE  /\ pc' \in [Logins -> LoginSteps]
         /\ faults' \in 0 .. MaxFaults /\ faults' \in {faults, faults + 1}
         /\ \/ Goto(p, from, to) /\ faults' = faults
            \/ Goto(p, from, "idle") /\ faults' = faults + 1
<1>1. "idle" \in LoginSteps BY DEF LoginSteps
<1>2. CASE Goto(p, from, to) /\ UNCHANGED faults
  BY <1>2, Moved DEF LoginTypeOK
<1>3. CASE Goto(p, from, "idle") /\ Fault
  BY <1>1, <1>3, Moved, FaultType
<1> QED BY <1>2, <1>3 DEF Call

LEMMA ExpireAttemptsKeeps ==
  ASSUME LoginIInv, NEW p \in Logins, ExpireAttempts(p) PROVE LoginIInv'
<1> DEFINE to == IF AtLimit(1) THEN "block" ELSE "idle"
<1>1. LoginTypeOK BY DEF LoginIInv
<1>2. /\ Call(p, "expire", to) /\ due' = (attempts > 0)
      /\ UNCHANGED <<attempts, blocked, guesses>>
  BY DEF ExpireAttempts
<1>3. to \in LoginSteps BY DEF LoginSteps
<1>4. /\ pc' \in [Logins -> LoginSteps]
      /\ faults' \in 0 .. MaxFaults /\ faults' \in {faults, faults + 1}
      /\ \/ Goto(p, "expire", to) /\ faults' = faults
         \/ Goto(p, "expire", "idle") /\ faults' = faults + 1
  BY <1>1, <1>2, <1>3, Called
<1>5. LoginTypeOK'
  BY <1>1, <1>2, <1>4 DEF LoginTypeOK, LoginSteps
<1>6. /\ "expire" \notin Counting /\ to \notin Trying /\ "idle" \notin Trying
      /\ "expire" \in Bound => to \in Bound
  BY DEF Counting, Bound, Trying
<1> HIDE DEF to
<1>7. CASE Goto(p, "expire", to) /\ faults' = faults
  BY <1>2, <1>4, <1>5, <1>6, <1>7, QuietKeeps
<1>8. CASE Goto(p, "expire", "idle") /\ faults' = faults + 1
  BY <1>2, <1>4, <1>5, <1>6, <1>8, QuietKeeps
<1> QED BY <1>4, <1>7, <1>8

LEMMA CountingIsBound == Count(Counting) <= Count(Bound) /\ Count(Counting)' <= Count(Bound)'
<1>1. ASSUME NEW at
      PROVE  Cardinality({p \in Logins : at[p] \in Counting}) <=
             Cardinality({p \in Logins : at[p] \in Bound})
  <2>1. {p \in Logins : at[p] \in Counting} \subseteq {p \in Logins : at[p] \in Bound}
    BY DEF Counting, Bound
  <2>2. IsFiniteSet({p \in Logins : at[p] \in Bound})
    <3>1. {p \in Logins : at[p] \in Bound} \subseteq Logins OBVIOUS
    <3> QED BY <3>1, LoginAssumption, FS_Subset
  <2> QED BY <2>1, <2>2, FS_Subset
<1> QED BY <1>1 DEF Count

LEMMA IncrAttemptsKeeps ==
  ASSUME LoginIInv, NEW p \in Logins, IncrAttempts(p) PROVE LoginIInv'
<1> DEFINE to == IF FirstAttempt(attempts') THEN "expire"
                 ELSE IF AtLimit(attempts') THEN "block" ELSE "idle"
<1>1. LoginTypeOK BY DEF LoginIInv
<1>2. /\ Call(p, "incr", to) /\ attempts' = AtMost(attempts + 1, GuessCeiling)
      /\ UNCHANGED <<due, blocked, guesses>>
  BY DEF IncrAttempts
<1>3. to \in LoginSteps BY DEF LoginSteps
<1>4. /\ pc' \in [Logins -> LoginSteps]
      /\ faults' \in 0 .. MaxFaults /\ faults' \in {faults, faults + 1}
      /\ \/ Goto(p, "incr", to) /\ faults' = faults
         \/ Goto(p, "incr", "idle") /\ faults' = faults + 1
  <2> HIDE DEF to
  <2> QED BY <1>1, <1>2, <1>3, Called
<1>5. /\ attempts' \in 0 .. GuessCeiling
      /\ attempts' = attempts + 1 \/ attempts' = GuessCeiling
  BY <1>1, <1>2, AtMostType, GuessCeilingType DEF LoginTypeOK
<1>6. LoginTypeOK'
  <2> HIDE DEF to
  <2> QED BY <1>1, <1>2, <1>4, <1>5 DEF LoginTypeOK, LoginSteps
<1>7. /\ to \notin Counting /\ "idle" \notin Counting /\ "incr" \in Counting
      /\ to \notin Trying /\ "idle" \notin Trying /\ "incr" \notin Trying
      /\ "idle" \notin Bound /\ "incr" \in Bound
  BY DEF Counting, Bound, Trying
<1>8. to \notin Bound => attempts' <= MaxAttempts - 1
  <2>1. CASE to = "expire"
    BY <2>1, LoginAssumption DEF Bound, AtLimit, FirstAttempt
  <2>2. CASE to = "idle"
    BY <1>5, <2>2, LoginAssumption, GuessCeilingType DEF AtLimit
  <2>3. CASE to = "block" BY <2>3 DEF Bound
  <2> QED BY <2>1, <2>2, <2>3
<1> HIDE DEF to
<1>9. Count(Counting)' = Count(Counting) - 1 /\ Count(Trying)' = Count(Trying)
  <2>1. CASE Goto(p, "incr", to)
    BY <1>1, <1>7, <2>1, LoginNumbers, CountMoved
  <2>2. CASE Goto(p, "incr", "idle")
    BY <1>1, <1>7, <2>2, LoginNumbers, CountMoved
  <2> QED BY <1>4, <2>1, <2>2
<1>10. ASSUME Unblocked PROVE Unblocked'
  <2>1. guesses <= attempts' + Count(Counting)' + faults'
    BY <1>1, <1>4, <1>5, <1>9, <1>10, LoginNumbers, CountType, GuessCeilingType DEF Unblocked
  <2>2. CASE Goto(p, "incr", to) /\ faults' = faults /\ to \in Bound
    <3>1. Count(Bound)' = Count(Bound)
      BY <1>1, <1>7, <2>2, LoginNumbers, CountMoved
    <3> QED BY <1>2, <1>10, <2>1, <2>2, <3>1 DEF Unblocked
  <2>3. CASE Goto(p, "incr", to) /\ faults' = faults /\ to \notin Bound
    <3>1. attempts' <= MaxAttempts - 1 /\ Count(Counting)' <= Count(Bound)'
      BY <1>8, <2>3, CountingIsBound
    <3> QED BY <1>1, <1>2, <1>5, <2>1, <2>3, <3>1, LoginNumbers, CountType, LoginAssumption
            DEF Unblocked
  <2>4. CASE Goto(p, "incr", "idle") /\ faults' = faults + 1
    <3>1. Count(Bound)' = Count(Bound) - 1
      BY <1>1, <1>7, <2>4, LoginNumbers, CountMoved
    <3> QED BY <1>1, <1>2, <1>10, <2>1, <2>4, <3>1, LoginNumbers, CountType, LoginAssumption
            DEF Unblocked
  <2> QED BY <1>4, <2>2, <2>3, <2>4
<1>11. ASSUME Blocked PROVE Blocked'
  BY <1>1, <1>2, <1>4, <1>9, <1>11, LoginNumbers, CountType, GuessCeilingType, LoginAssumption
  DEF Blocked
<1> QED BY <1>2, <1>6, <1>10, <1>11 DEF LoginIInv

LEMMA SetBlockKeeps ==
  ASSUME LoginIInv, NEW p \in Logins, SetBlock(p) PROVE LoginIInv'
<1>1. LoginTypeOK BY DEF LoginIInv
<1>2. Call(p, "block", "forget") /\ blocked' = TRUE /\ UNCHANGED <<attempts, due, guesses>>
  BY DEF SetBlock
<1>3. /\ pc' \in [Logins -> LoginSteps]
      /\ faults' \in 0 .. MaxFaults /\ faults' \in {faults, faults + 1}
      /\ Goto(p, "block", "forget") \/ Goto(p, "block", "idle")
  <2>1. "forget" \in LoginSteps BY DEF LoginSteps
  <2> QED BY <1>1, <1>2, <2>1, Called
<1>4. LoginTypeOK'
  BY <1>1, <1>2, <1>3 DEF LoginTypeOK, LoginSteps
<1>5. Count(Trying)' = Count(Trying)
  <2>1. "block" \notin Trying /\ "forget" \notin Trying /\ "idle" \notin Trying
    BY DEF Trying
  <2>2. CASE Goto(p, "block", "forget") BY <1>1, <2>1, <2>2, LoginNumbers, CountMoved
  <2>3. CASE Goto(p, "block", "idle") BY <1>1, <2>1, <2>3, LoginNumbers, CountMoved
  <2> QED BY <1>3, <2>2, <2>3
<1>6. Blocked
  <2>1. CASE blocked BY <2>1 DEF LoginIInv
  <2>2. CASE ~blocked
    <3>1. Unblocked BY <2>2 DEF LoginIInv
    <3> QED BY <1>1, <3>1, CountDisjoint, CountType, LoginNumbers, GuessCeilingType,
               LoginAssumption DEF Unblocked, Blocked
  <2> QED BY <2>1, <2>2
<1>7. Blocked'
  BY <1>1, <1>2, <1>3, <1>5, <1>6, CountType, LoginNumbers, GuessCeilingType, LoginAssumption
  DEF Blocked
<1> QED BY <1>2, <1>4, <1>7 DEF LoginIInv

LEMMA DelAttemptsKeeps ==
  ASSUME LoginIInv, NEW p \in Logins, DelAttempts(p) PROVE LoginIInv'
<1>1. LoginTypeOK BY DEF LoginIInv
<1>2. /\ attempts' = 0 /\ due' = FALSE /\ Goto(p, "forget", "idle")
      /\ guesses' = IF blocked THEN guesses ELSE 0
      /\ UNCHANGED <<blocked, faults>>
  BY DEF DelAttempts, DropAttempts
<1>3. LoginTypeOK'
  <2>1. "idle" \in LoginSteps BY DEF LoginSteps
  <2>2. pc' \in [Logins -> LoginSteps] BY <1>1, <1>2, <2>1, Moved
  <2>3. guesses' \in 0 .. GuessCeiling /\ attempts' \in 0 .. GuessCeiling
    BY <1>1, <1>2, GuessCeilingType DEF LoginTypeOK
  <2> QED BY <1>1, <1>2, <2>2, <2>3 DEF LoginTypeOK, LoginSteps
<1>4. CASE ~blocked
  BY <1>2, <1>3, <1>4, ForgottenKeeps
<1>5. CASE blocked
  <2>1. Count(Trying)' = Count(Trying)
    <3>1. "idle" \notin Trying /\ "forget" \notin Trying BY DEF Trying
    <3> QED BY <1>1, <1>2, <3>1, LoginNumbers, CountMoved
  <2>2. Blocked' BY <1>2, <1>5, <2>1 DEF LoginIInv, Blocked
  <2> QED BY <1>2, <1>3, <1>5, <2>2 DEF LoginIInv
<1> QED BY <1>4, <1>5

(* Reset, and what Redis removes. *)
LEMMA ForgettingKeeps ==
  ASSUME LoginIInv,
         \/ \E p \in Logins : ResetAttempts(p) \/ ResetBlock(p)
         \/ AttemptsElapse \/ BlockElapse
  PROVE  LoginIInv'
<1>1. LoginTypeOK BY DEF LoginIInv
<1>2. guesses' = 0
  BY DEF ResetAttempts, ResetBlock, AttemptsElapse, BlockElapse
<1>3. /\ attempts' \in {0, attempts} /\ due' \in BOOLEAN /\ blocked' \in BOOLEAN
  BY <1>1 DEF ResetAttempts, ResetBlock, AttemptsElapse, BlockElapse, DropAttempts, LoginTypeOK
<1>4. pc' \in [Logins -> LoginSteps] /\ faults' \in 0 .. MaxFaults
  <2>1. "idle" \in LoginSteps /\ "unblock" \in LoginSteps BY DEF LoginSteps
  <2>2. ASSUME NEW p \in Logins, ResetAttempts(p)
        PROVE  pc' \in [Logins -> LoginSteps] /\ faults' \in 0 .. MaxFaults
    <3>1. Call(p, "reset", "unblock") BY <2>2 DEF ResetAttempts
    <3> QED BY <1>1, <2>1, <3>1, Called
  <2>3. ASSUME NEW p \in Logins, ResetBlock(p)
        PROVE  pc' \in [Logins -> LoginSteps] /\ faults' \in 0 .. MaxFaults
    BY <1>1, <2>1, <2>3, Moved DEF ResetBlock, LoginTypeOK
  <2>4. CASE AttemptsElapse \/ BlockElapse
    BY <1>1, <2>4 DEF AttemptsElapse, BlockElapse, LoginTypeOK, LoginSteps
  <2> QED BY <2>2, <2>3, <2>4
<1>5. LoginTypeOK'
  <2>1. 0 \in 0 .. GuessCeiling /\ attempts \in 0 .. GuessCeiling
    BY <1>1, GuessCeilingType DEF LoginTypeOK
  <2> QED BY <1>2, <1>3, <1>4, <2>1 DEF LoginTypeOK, LoginSteps
<1> QED BY <1>2, <1>5, ForgottenKeeps

LEMMA LoginNextKeeps ==
  ASSUME LoginIInv, [LoginNext]_loginVars PROVE LoginIInv'
<1>1. CASE UNCHANGED loginVars
  BY <1>1 DEF loginVars, LoginIInv, LoginTypeOK, Unblocked, Blocked, Count
<1>2. ASSUME NEW p \in Logins, CheckBlocked(p) \/ CheckFails(p) \/ HandleLogin(p)
      PROVE  LoginIInv'
  <2>1. CASE CheckBlocked(p) \/ CheckFails(p) BY <2>1, CheckKeeps
  <2>2. CASE LoginFails(p) BY <2>2, LoginFailsKeeps
  <2>3. CASE LoginSucceeds(p) \/ LoginErrs(p) BY <2>3, LoginEndsKeeps
  <2>4. CASE IncrAttempts(p) BY <2>4, IncrAttemptsKeeps
  <2>5. CASE ExpireAttempts(p) BY <2>5, ExpireAttemptsKeeps
  <2>6. CASE SetBlock(p) BY <2>6, SetBlockKeeps
  <2>7. CASE DelAttempts(p) BY <2>7, DelAttemptsKeeps
  <2>8. CASE ResetAttempts(p) \/ ResetBlock(p) BY <2>8, ForgettingKeeps
  <2>9. CASE CallFails(p) BY <2>9, CallFailsKeeps
  <2> QED BY <1>2, <2>1, <2>2, <2>3, <2>4, <2>5, <2>6, <2>7, <2>8, <2>9 DEF HandleLogin
<1>3. CASE AttemptsElapse \/ BlockElapse BY <1>3, ForgettingKeeps
<1> QED BY <1>1, <1>2, <1>3 DEF LoginNext

\* What each wrong password shows as, always (HandlerUser.Login and the limiter).
THEOREM LoginIInvHolds == LoginSpec => []LoginIInv
<1>1. LoginInit => LoginIInv BY LoginInitHolds
<1>2. LoginIInv /\ [LoginNext]_loginVars => LoginIInv' BY LoginNextKeeps
<1> QED BY <1>1, <1>2, PTL DEF LoginSpec

\* The limiter lets fewer passwords be tried than its limit, the logins in flight
\* and the calls that failed, together (pkg/security/login_limiter.go).
THEOREM GuessesAlwaysBounded == LoginSpec => []GuessesBounded
<1>1. LoginIInv => GuessesBounded
  <2> SUFFICES ASSUME LoginIInv PROVE GuessesBounded
    OBVIOUS
  <2>1. LoginTypeOK BY DEF LoginIInv
  <2>2. CASE blocked
    <3>1. Blocked BY <2>2 DEF LoginIInv
    <3> QED BY <2>1, <3>1, CountType, LoginNumbers, GuessCeilingType, LoginAssumption
            DEF Blocked, GuessesBounded
  <2>3. CASE ~blocked
    <3>1. Unblocked BY <2>3 DEF LoginIInv
    <3> QED BY <2>1, <3>1, CountType, LoginNumbers, GuessCeilingType, LoginAssumption
            DEF Unblocked, GuessesBounded
  <2> QED BY <2>2, <2>3
<1> QED BY <1>1, LoginIInvHolds, PTL
=============================================================================
