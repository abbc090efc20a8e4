--------------------------- MODULE SessionsProofs ---------------------------
(***************************************************************************)
(* Proofs about Sessions, for any users, sessions and requests in flight,  *)
(* with calls that fail or without.  What the lists of users rest on is    *)
(* that the record of a session is stored once, before its id is listed:   *)
(* who finds an id without its record may drop it, for the record never    *)
(* comes back.                                                             *)
(***************************************************************************)
EXTENDS Sessions, TLAPS

LoggingIn(p, x) == req[p].op = "login" /\ req[p].own = x

\* The record of x has been stored, or never will be.
Written(x) == x \in issued \/ \E p \in Procs : LoggingIn(p, x) /\ req[p].pc # "setRecord"

CreateSteps == {"setRecord", "sadd", "expireList", "setToken"}
DeleteSteps == {"delRecord", "srem", "delToken"}

\* A login has an id of its own, which nobody holds a token of yet; every other
\* request holds one.
LoginsApart ==
  /\ \A p \in Procs :
       /\ req[p].pc \in CreateSteps <=> req[p].op = "login"
       /\ req[p].op = "login" => req[p].own \in Sids \ issued /\ req[p].sid = req[p].own
       /\ req[p].op \notin {"none", "login"} => req[p].own \in issued
  /\ \A p, q \in Procs : req[p].op = "login" /\ LoggingIn(q, req[p].own) => p = q

RecordsWritten == \A x \in record \cup listed : Written(x)

\* A record outlives neither its token nor, once the login has renewed it, the list.
TimesKept ==
  \A x \in record :
    /\ x \notin expired
    /\ x \in listed \ hidden =>
         x \in ttl[UserOf[x]] \/ \E p \in Procs : LoggingIn(p, x) /\ At(p, "expireList")

RecordsListed ==
  \A x \in record \ hidden : x \in listed \/ \E p \in Procs : LoggingIn(p, x) /\ At(p, "sadd")

\* Each step of a request has the operation and the session it works with, and what
\* it takes off a list has no record any more.
StepFits(r) ==
  /\ r.pc \in {"smembers", "gather", "drop"} => r.op \in {"list", "others"}
  /\ r.pc \in DeleteSteps => r.op \in {"logout", "revoke", "others"} /\ r.others = {}
  /\ r.pc = "destroy" => r.op = "others" /\ r.others = {}
  /\ r.pc \in DeleteSteps \cup {"drop"} => r.sid \in Sids
  /\ r.pc = "drop" => r.sid \in hidden \/ r.sid \notin record
  /\ r.pc \in {"srem", "delToken"} => r.sid \notin record
  /\ r.op # "others" => r.before = {}
  /\ r.op = "none" => r.pc = "idle"

\* A request works with sessions whose record was stored before.
Known(r) ==
  /\ \A x \in r.todo \cup r.others : Written(x)
  /\ r.pc \in DeleteSteps \cup {"drop"} => Written(r.sid)

StepsFit == \A p \in Procs : StepFits(req[p]) /\ Known(req[p])

\* What a revocation of the others still has to end is in its hands.
Left(r) ==
  r.todo \cup r.others \cup IF r.pc = "delRecord" THEN {r.sid} ELSE {}

HeldBy(r) ==
  /\ r.op = "others" => r.before \subseteq (issued \cap SessionsOf(r.own)) \ {r.own}
  /\ r.pc # "smembers" => (r.before \cap record) \ hidden \subseteq Left(r)

OthersHeld == \A p \in Procs : HeldBy(req[p])

SessionsIInv ==
  /\ SessionsTypeOK
  /\ LoginsApart /\ RecordsWritten /\ TimesKept /\ RecordsListed
  /\ StepsFit /\ OthersHeld

-----------------------------------------------------------------------------
(* What the commands of a login do to the request.                         *)

LEMMA AdvanceSteps ==
  ASSUME NEW p \in Procs, Advance(p)
  PROVE  /\ At(p, "setRecord") => Goto(p, "sadd") /\ UNCHANGED issued
         /\ At(p, "sadd") => Goto(p, "expireList") /\ UNCHANGED issued
         /\ At(p, "expireList") => Goto(p, "setToken") /\ UNCHANGED issued
         /\ At(p, "setToken") => Finish(p) /\ issued' = issued \cup {req[p].sid}
<1> DEFINE i == CHOOSE i \in DOMAIN CreateOrder : At(p, CreateOrder[i])
<1>1. /\ DOMAIN CreateOrder = 1..4 /\ Len(CreateOrder) = 4
      /\ CreateOrder[1] = "setRecord" /\ CreateOrder[2] = "sadd"
      /\ CreateOrder[3] = "expireList" /\ CreateOrder[4] = "setToken"
  BY DEF CreateOrder
<1>2. IF i < Len(CreateOrder) THEN Goto(p, CreateOrder[i + 1]) /\ UNCHANGED issued
      ELSE Finish(p) /\ issued' = issued \cup {req[p].sid}
  BY DEF Advance
<1>3. ASSUME NEW k \in 1..4, At(p, CreateOrder[k]) PROVE i = k
  <2>1. i \in 1..4 /\ At(p, CreateOrder[i]) BY <1>1, <1>3
  <2>2. CreateOrder[i] = CreateOrder[k] BY <1>3, <2>1 DEF At
  <2> HIDE DEF i
  <2> QED BY <1>1, <1>3, <2>1, <2>2
<1> HIDE DEF i
<1>4. ASSUME At(p, "setRecord") PROVE Goto(p, "sadd") /\ UNCHANGED issued
  <2>1. i = 1 BY <1>1, <1>3, <1>4
  <2> QED BY <1>1, <1>2, <2>1
<1>5. ASSUME At(p, "sadd") PROVE Goto(p, "expireList") /\ UNCHANGED issued
  <2>1. i = 2 BY <1>1, <1>3, <1>5
  <2> QED BY <1>1, <1>2, <2>1
<1>6. ASSUME At(p, "expireList") PROVE Goto(p, "setToken") /\ UNCHANGED issued
  <2>1. i = 3 BY <1>1, <1>3, <1>6
  <2> QED BY <1>1, <1>2, <2>1
<1>7. ASSUME At(p, "setToken") PROVE Finish(p) /\ issued' = issued \cup {req[p].sid}
  <2>1. i = 4 BY <1>1, <1>3, <1>7
  <2> QED BY <1>1, <1>2, <2>1
<1> QED BY <1>4, <1>5, <1>6, <1>7

LEMMA IdleType == Idle \in Request /\ Idle.pc = "idle" /\ Idle.op = "none"
BY DEF Idle, Request, Steps

\* A login is the only request of its session, whose record is unwritten before the
\* first command.
LEMMA LoginAlone ==
  ASSUME SessionsIInv, NEW p \in Procs, req[p].op = "login"
  PROVE  /\ req[p].sid = req[p].own /\ req[p].own \in Sids \ issued
         /\ req[p].pc \in CreateSteps
         /\ \A q \in Procs : LoggingIn(q, req[p].own) => q = p
         /\ At(p, "setRecord") => ~Written(req[p].own)
BY DEF SessionsIInv, LoginsApart, LoggingIn, Written, At

-----------------------------------------------------------------------------
(* A step of a request that is no login, or of time: what it leaves of the *)
(* keys is less than before, and whoever moves is served.                  *)

\* r is a request that holds a token and works with known sessions, or none.
Served(r) ==
  /\ r.op # "login" /\ r.pc \notin CreateSteps
  /\ r.op # "none" => r.own \in issued
  /\ Known(r)

LessKept ==
  /\ UNCHANGED issued
  /\ record' \subseteq record /\ listed' \subseteq listed
  /\ hidden \subseteq hidden'
  /\ \A x \in record' : x \notin expired'
  /\ \A x \in listed \ listed' : x \notin record' \/ x \in hidden'
  /\ \A x \in (record' \cap listed') \ hidden' : ttl[UserOf[x]] \subseteq ttl'[UserOf[x]]

LEMMA LessKeeps ==
  ASSUME SessionsIInv, SessionsTypeOK', LessKept,
         \A q \in Procs : \/ req'[q] = req[q]
                         \/ /\ req[q].op # "login" /\ Served(req'[q])
                            /\ StepFits(req[q])' /\ HeldBy(req[q])'
  PROVE  SessionsIInv'
<1>1. \A q \in Procs : req[q].op = "login" \/ req'[q].op = "login" => req'[q] = req[q]
  BY DEF Served
<1>2. \A x : Written(x) => Written(x)'
  BY <1>1 DEF Written, LoggingIn, LessKept
<1>3. LoginsApart'
  <2>1. \A p \in Procs :
          /\ (req'[p].pc \in CreateSteps) <=> req'[p].op = "login"
          /\ req'[p].op = "login" => req'[p].own \in Sids \ issued /\ req'[p].sid = req'[p].own
          /\ req'[p].op \notin {"none", "login"} => req'[p].own \in issued
    BY DEF SessionsIInv, LoginsApart, Served
  <2>2. \A p, q \in Procs : req'[p].op = "login" /\ req'[q].op = "login" /\ req'[q].own = req'[p].own
                             => p = q
    BY <1>1 DEF SessionsIInv, LoginsApart, LoggingIn
  <2> QED BY <2>1, <2>2 DEF LoginsApart, LoggingIn, LessKept
<1>4. RecordsWritten'
  BY <1>2 DEF SessionsIInv, RecordsWritten, LessKept
<1>5. TimesKept'
  BY <1>1 DEF SessionsIInv, TimesKept, LessKept, LoggingIn, At
<1>6. RecordsListed'
  BY <1>1 DEF SessionsIInv, RecordsListed, LessKept, LoggingIn, At
<1>7. StepsFit'
  <2> SUFFICES ASSUME NEW q \in Procs PROVE StepFits(req[q])' /\ Known(req[q])'
    BY DEF StepsFit
  <2>1. StepFits(req[q])'
    <3>1. CASE req'[q] = req[q]
      <4>1. StepFits(req[q]) BY DEF SessionsIInv, StepsFit
      <4> QED BY <3>1, <4>1 DEF StepFits, LessKept, DeleteSteps
    <3> QED BY <3>1
  <2>2. Known(req'[q])
    BY DEF Served, SessionsIInv, StepsFit
  <2>3. Written(req'[q].sid) => Written(req[q].sid)'
    BY <1>1 DEF Written, LoggingIn, LessKept
  <2>4. Known(req[q])' BY <1>2, <2>2, <2>3 DEF Known, DeleteSteps
  <2> QED BY <2>1, <2>4
<1>8. OthersHeld'
  <2> SUFFICES ASSUME NEW q \in Procs, req'[q] = req[q] PROVE HeldBy(req[q])'
    BY DEF OthersHeld
  <2> QED BY DEF SessionsIInv, OthersHeld, HeldBy, Left, LessKept
<1> QED BY <1>3, <1>4, <1>5, <1>6, <1>7, <1>8 DEF SessionsIInv

LEMMA ServedKeeps ==
  ASSUME SessionsIInv, NEW p \in Procs, NEW r \in Request, req' = [req EXCEPT ![p] = r],
         req[p].op # "login", Served(r), StepFits(r)', HeldBy(r)',
         LessKept, byToken' \subseteq byToken, blacklist' \subseteq blacklist \cup issued,
         hidden' \subseteq hidden \cup record, UNCHANGED expired, ttl' \in [Users -> SUBSET Never]
  PROVE  SessionsIInv'
<1>1. SessionsTypeOK BY DEF SessionsIInv
<1>2. req' \in [Procs -> Request] BY <1>1 DEF SessionsTypeOK
<1>3. SessionsTypeOK' BY <1>1, <1>2 DEF SessionsTypeOK, LessKept
<1>4. req'[p] = r /\ \A q \in Procs \ {p} : req'[q] = req[q] BY <1>1 DEF SessionsTypeOK
<1>5. StepFits(req[p])' BY <1>4 DEF StepFits, DeleteSteps
<1>6. HeldBy(req[p])' BY <1>4 DEF HeldBy, Left
<1> QED BY <1>3, <1>4, <1>5, <1>6, LessKeeps

\* Most steps of a request change nothing but the request.
LEMMA QuietKeeps ==
  ASSUME SessionsIInv, NEW p \in Procs, NEW r \in Request, req' = [req EXCEPT ![p] = r],
         req[p].op # "login", Served(r), StepFits(r), HeldBy(r),
         UNCHANGED <<keys, issued, expired, hidden>>, blacklist' \subseteq blacklist \cup issued
  PROVE  SessionsIInv'
<1>1. UNCHANGED <<record, listed, byToken, ttl>> BY DEF keys
<1>2. LessKept BY <1>1 DEF SessionsIInv, TimesKept, LessKept
<1>3. StepFits(r)' BY <1>1 DEF StepFits, DeleteSteps
<1>4. HeldBy(r)' BY <1>1 DEF HeldBy, Left
<1>5. ttl' \in [Users -> SUBSET Never] BY <1>1 DEF SessionsIInv, SessionsTypeOK
<1> QED BY <1>1, <1>2, <1>3, <1>4, <1>5, ServedKeeps

-----------------------------------------------------------------------------
(* A command of a login, or its answer: nobody else has to do with the     *)
(* session it creates.                                                     *)

\* Going to a step changes that of the request only; finishing leaves it idle.
LEMMA GotoMoves ==
  ASSUME SessionsTypeOK, NEW p \in Procs, NEW pc \in Steps, Goto(p, pc)
  PROVE  /\ req' \in [Procs -> Request]
         /\ \A q \in Procs \ {p} : req'[q] = req[q]
         /\ req'[p].pc = pc
         /\ req'[p].op = req[p].op /\ req'[p].own = req[p].own /\ req'[p].sid = req[p].sid
         /\ req'[p].todo = req[p].todo /\ req'[p].others = req[p].others
         /\ req'[p].before = req[p].before
BY DEF SessionsTypeOK, Goto, Request

LEMMA FinishMoves ==
  ASSUME SessionsTypeOK, NEW p \in Procs, Finish(p)
  PROVE  /\ req' \in [Procs -> Request]
         /\ \A q \in Procs \ {p} : req'[q] = req[q]
         /\ req'[p] = Idle
<1>1. Idle \in Request BY IdleType
<1> HIDE DEF Idle
<1> QED BY <1>1 DEF SessionsTypeOK, Finish

LoginGoes(p) == \E pc \in CreateSteps \ {"setRecord"} : Goto(p, pc) /\ UNCHANGED issued
LoginEnds(p) == Finish(p) /\ issued' = issued \cup {req[p].own}

LEMMA LoginMoves ==
  ASSUME SessionsTypeOK, NEW p \in Procs, req[p].op = "login", LoginGoes(p) \/ LoginEnds(p)
  PROVE  /\ req' \in [Procs -> Request]
         /\ \A q \in Procs \ {p} : req'[q] = req[q]
         /\ issued \subseteq issued' /\ issued' \subseteq issued \cup {req[p].own}
         /\ req'[p].pc # "setRecord"
         /\ \/ /\ req'[p].op = "login" /\ req'[p].pc \in CreateSteps
               /\ req'[p].own = req[p].own /\ req'[p].sid = req[p].sid
               /\ req'[p].todo = req[p].todo /\ req'[p].others = req[p].others
               /\ req'[p].before = req[p].before
               /\ issued' = issued
            \/ /\ req'[p] = Idle
               /\ req[p].own \in issued'
<1>1. CASE LoginGoes(p)
  <2>1. PICK pc \in CreateSteps \ {"setRecord"} : Goto(p, pc) /\ UNCHANGED issued
    BY <1>1 DEF LoginGoes
  <2>2. pc \in Steps BY DEF CreateSteps, Steps
  <2> QED BY <2>1, <2>2, GotoMoves
<1>2. CASE LoginEnds(p)
  <2>1. Finish(p) /\ issued' = issued \cup {req[p].own} BY <1>2 DEF LoginEnds
  <2>2. Idle.pc # "setRecord" BY DEF Idle
  <2> QED BY <2>1, <2>2, FinishMoves
<1> QED BY <1>1, <1>2

LEMMA CreateKeeps ==
  ASSUME SessionsIInv, NEW p \in Procs, NEW x, LoggingIn(p, x), LoginGoes(p) \/ LoginEnds(p),
         hidden \subseteq hidden', record' \subseteq record \cup {x}, listed' \subseteq listed \cup {x},
         record' = record \/ At(p, "setRecord")
  PROVE  LoginsApart' /\ RecordsWritten' /\ StepsFit' /\ OthersHeld'
<1>l. req[p].op = "login" /\ req[p].own = x BY DEF LoggingIn
<1>t. SessionsTypeOK BY DEF SessionsIInv
<1>1. /\ \A q \in Procs \ {p} : req'[q] = req[q]
      /\ issued \subseteq issued' /\ issued' \subseteq issued \cup {x}
      /\ req'[p].pc # "setRecord"
      /\ \/ /\ req'[p].op = "login" /\ req'[p].pc \in CreateSteps
            /\ req'[p].own = x /\ req'[p].sid = req[p].sid
            /\ req'[p].todo = req[p].todo /\ req'[p].others = req[p].others
            /\ req'[p].before = req[p].before
            /\ issued' = issued
         \/ /\ req'[p] = Idle
            /\ x \in issued'
  BY <1>t, <1>l, LoginMoves
<1>2. /\ req[p].sid = x /\ x \in Sids \ issued
      /\ \A q \in Procs : LoggingIn(q, x) => q = p
      /\ At(p, "setRecord") => ~Written(x)
  BY <1>l, LoginAlone
<1>i. /\ Idle.pc = "idle" /\ Idle.op = "none" /\ Idle.todo = {} /\ Idle.others = {}
      /\ Idle.before = {}
  BY DEF Idle
<1>3. Written(x)'
  BY <1>1 DEF Written, LoggingIn
<1>4. \A y : Written(y) => Written(y)'
  BY <1>l, <1>1, <1>2, <1>3 DEF Written, LoggingIn
<1>5. LoginsApart'
  <2>1. \A q \in Procs :
          /\ (req'[q].pc \in CreateSteps) <=> req'[q].op = "login"
          /\ req'[q].op = "login" => req'[q].own \in Sids \ issued' /\ req'[q].sid = req'[q].own
          /\ req'[q].op \notin {"none", "login"} => req'[q].own \in issued'
    <3> TAKE q \in Procs
    <3>1. CASE q = p BY <1>1, <1>2, <1>i, <3>1 DEF CreateSteps
    <3>2. CASE q # p
      <4>1. req'[q] = req[q] BY <1>1, <3>2
      <4>2. req[q].op = "login" => req[q].own # x BY <1>2, <3>2 DEF LoggingIn
      <4> QED BY <1>1, <4>1, <4>2 DEF SessionsIInv, LoginsApart
    <3> QED BY <3>1, <3>2
  <2>2. \A q, r \in Procs : req'[q].op = "login" /\ req'[r].op = "login" /\ req'[r].own = req'[q].own
                             => q = r
    BY <1>l, <1>1, <1>i DEF SessionsIInv, LoginsApart, LoggingIn
  <2> QED BY <2>1, <2>2 DEF LoginsApart, LoggingIn
<1>6. RecordsWritten'
  BY <1>3, <1>4 DEF SessionsIInv, RecordsWritten
<1>7. StepsFit'
  <2> SUFFICES ASSUME NEW q \in Procs
               PROVE  /\ StepFits(req[q])'
                      /\ \A y \in req'[q].todo \cup req'[q].others : Written(y)'
                      /\ req'[q].pc \in DeleteSteps \cup {"drop"} => Written(req[q].sid)'
    BY DEF StepsFit, Known, DeleteSteps
  <2>0. StepFits(req[q]) /\ \A y \in req[q].todo \cup req[q].others : Written(y)
    BY DEF SessionsIInv, StepsFit, Known
  <2>1. CASE q = p
    <3>1. req'[p].pc \notin DeleteSteps \cup {"smembers", "gather", "drop", "destroy"}
      BY <1>1, <1>i DEF CreateSteps, DeleteSteps
    <3>2. /\ req'[p].op # "others" => req'[p].before = {}
          /\ req'[p].op = "none" => req'[p].pc = "idle"
      BY <1>l, <1>1, <1>i, <2>0, <2>1 DEF StepFits
    <3>3. StepFits(req[q])' BY <2>1, <3>1, <3>2 DEF StepFits, DeleteSteps
    <3>4. \A y \in req'[q].todo \cup req'[q].others : Written(y)'
      BY <1>1, <1>i, <1>4, <2>0, <2>1
    <3> QED BY <2>1, <3>1, <3>3, <3>4
  <2>2. CASE q # p
    <3>1. req'[q] = req[q] BY <1>1, <2>2
    <3>2. req[q].pc \in DeleteSteps \cup {"drop"} => Written(req[q].sid)
      BY DEF SessionsIInv, StepsFit, Known
    <3>3. Written(req[q].sid) => Written(req[q].sid)'
      BY <1>1, <1>2, <1>3, <3>1 DEF Written, LoggingIn
    <3>4. req[q].pc \in DeleteSteps \cup {"drop"} /\ req[q].sid \notin record
            => req[q].sid \notin record'
      BY <1>2, <3>2
    <3>5. StepFits(req[q])' BY <2>0, <3>1, <3>4 DEF StepFits, DeleteSteps
    <3> QED BY <1>4, <2>0, <3>1, <3>2, <3>3, <3>5
  <2> QED BY <2>1, <2>2
<1>8. OthersHeld'
  <2> SUFFICES ASSUME NEW q \in Procs PROVE HeldBy(req[q])'
    BY DEF OthersHeld
  <2>0. HeldBy(req[q]) /\ StepFits(req[q]) BY DEF SessionsIInv, StepsFit, OthersHeld
  <2>1. CASE q = p
    <3>1. req'[p].before = {} BY <1>l, <1>1, <1>i, <2>0, <2>1 DEF StepFits
    <3> QED BY <2>1, <3>1 DEF HeldBy
  <2>2. CASE q # p
    <3>1. req'[q] = req[q] BY <1>1, <2>2
    <3>2. x \notin req[q].before BY <1>2, <2>0 DEF HeldBy, StepFits
    <3>3. req[q].before \cap record' \subseteq req[q].before \cap record BY <3>2
    <3> QED BY <1>1, <2>0, <3>1, <3>3 DEF HeldBy, Left
  <2> QED BY <2>1, <2>2
<1> QED BY <1>5, <1>6, <1>7, <1>8

LEMMA CreateType ==
  ASSUME SessionsIInv, NEW p \in Procs, NEW x, LoggingIn(p, x), LoginGoes(p) \/ LoginEnds(p),
         record' \subseteq record \cup {x}, listed' \subseteq listed \cup {x},
         byToken' \subseteq byToken \cup {x}, hidden' \subseteq hidden \cup {x},
         UNCHANGED <<blacklist, expired>>, ttl' \in [Users -> SUBSET Never]
  PROVE  SessionsTypeOK'
<1>1. SessionsTypeOK BY DEF SessionsIInv
<1>2. req[p].op = "login" /\ req[p].own = x BY DEF LoggingIn
<1>3. /\ req' \in [Procs -> Request]
      /\ issued \subseteq issued' /\ issued' \subseteq issued \cup {x}
  BY <1>1, <1>2, LoginMoves
<1>4. x \in Sids BY <1>2, LoginAlone
<1>5. \A keySet \in {record', listed', byToken', blacklist', issued', hidden'} : keySet \subseteq Sids
  BY <1>1, <1>3, <1>4 DEF SessionsTypeOK
<1>6. expired' \subseteq issued' BY <1>1, <1>3 DEF SessionsTypeOK
<1> QED BY <1>3, <1>5, <1>6 DEF SessionsTypeOK

\* The request p creates the session x and stands at the step pc.
Creates(p, pc, x) == LoggingIn(p, x) /\ At(p, pc)

LEMMA Creating ==
  ASSUME SessionsIInv, NEW p \in Procs, NEW pc \in CreateSteps, At(p, pc)
  PROVE  \E x \in Sids \ issued :
           /\ Creates(p, pc, x) /\ req[p].sid = x
           /\ pc = "setRecord" => x \notin record \cup listed
           /\ \A y, step : Creates(p, step, y) => y = x /\ step = pc
<1>1. req[p].op = "login" BY DEF SessionsIInv, LoginsApart, At
<1>2. /\ req[p].sid = req[p].own /\ req[p].own \in Sids \ issued
      /\ At(p, "setRecord") => ~Written(req[p].own)
  BY <1>1, LoginAlone
<1>3. Creates(p, pc, req[p].own) BY <1>1 DEF Creates, LoggingIn
<1>4. pc = "setRecord" => req[p].own \notin record \cup listed
  BY <1>2 DEF SessionsIInv, RecordsWritten
<1>5. \A y, step : Creates(p, step, y) => y = req[p].own /\ step = pc
  BY DEF Creates, LoggingIn, At
<1> QED BY <1>2, <1>3, <1>4, <1>5

\* What the commands of the other logins wait for stays.
LEMMA OtherLogins ==
  ASSUME SessionsTypeOK, NEW p \in Procs, NEW pc, NEW x, Creates(p, pc, x),
         LoginGoes(p) \/ LoginEnds(p),
         NEW step, NEW y, y # x \/ step # pc, \E q \in Procs : Creates(q, step, y)
  PROVE  \E q \in Procs : Creates(q, step, y)'
<1>1. req[p].op = "login" BY DEF Creates, LoggingIn
<1>2. PICK q \in Procs : Creates(q, step, y) OBVIOUS
<1>3. q # p BY <1>2 DEF Creates, LoggingIn, At
<1>4. req'[q] = req[q] BY <1>1, <1>3, LoginMoves
<1> QED BY <1>2, <1>4 DEF Creates, LoggingIn, At

LEMMA SetRecordKeeps ==
  ASSUME SessionsIInv, NEW p \in Procs, SetRecord(p)
  PROVE  SessionsIInv'
<1>0. /\ SessionsTypeOK /\ At(p, "setRecord") /\ "setRecord" \in CreateSteps
      /\ UNCHANGED <<listed, byToken, ttl, blacklist, expired, hidden>>
  BY DEF SessionsIInv, SetRecord, CreateSteps
<1>1. PICK x \in Sids \ issued :
        Creates(p, "setRecord", x) /\ req[p].sid = x /\ x \notin record \cup listed
  BY <1>0, Creating
<1>2. record' = record \cup {x} BY <1>1 DEF SetRecord
<1>3. LoggingIn(p, x) /\ req[p].op = "login" BY <1>1 DEF Creates, LoggingIn
<1>4. Goto(p, "sadd") /\ UNCHANGED issued BY <1>0, AdvanceSteps DEF SetRecord
<1>5. LoginGoes(p) BY <1>4 DEF LoginGoes, CreateSteps
<1>6. SessionsTypeOK'
  <2>1. ttl' \in [Users -> SUBSET Never] BY <1>0 DEF SessionsTypeOK
  <2> QED BY <1>0, <1>2, <1>3, <1>5, <2>1, CreateType
<1>7. LoginsApart' /\ RecordsWritten' /\ StepsFit' /\ OthersHeld'
  BY <1>0, <1>2, <1>3, <1>5, CreateKeeps
<1>8. TimesKept'
  <2> SUFFICES ASSUME NEW y \in record'
               PROVE  /\ y \notin expired
                      /\ y \in listed \ hidden =>
                           y \in ttl[UserOf[y]] \/ \E q \in Procs : Creates(q, "expireList", y)'
    BY <1>0 DEF TimesKept, Creates
  <2>1. CASE y = x BY <1>0, <1>1, <2>1 DEF SessionsTypeOK
  <2>2. CASE y \in record
    <3>1. /\ y \notin expired
          /\ y \in listed \ hidden =>
               y \in ttl[UserOf[y]] \/ \E q \in Procs : Creates(q, "expireList", y)
      BY <2>2 DEF SessionsIInv, TimesKept, Creates
    <3> QED BY <1>0, <1>1, <1>5, <3>1, OtherLogins
  <2> QED BY <1>2, <2>1, <2>2
<1>9. RecordsListed'
  <2> SUFFICES ASSUME NEW y \in record' \ hidden
               PROVE  y \in listed \/ \E q \in Procs : Creates(q, "sadd", y)'
    BY <1>0 DEF RecordsListed, Creates
  <2>1. CASE y = x
    <3>1. Creates(p, "sadd", x)'
      BY <1>0, <1>3, <1>4, GotoMoves DEF Creates, LoggingIn, At, Steps
    <3> QED BY <2>1, <3>1
  <2>2. CASE y \in record
    <3>1. y \in listed \/ \E q \in Procs : Creates(q, "sadd", y)
      BY <2>2 DEF SessionsIInv, RecordsListed, Creates
    <3> QED BY <1>0, <1>1, <1>5, <3>1, OtherLogins
  <2> QED BY <1>2, <2>1, <2>2
<1> QED BY <1>6, <1>7, <1>8, <1>9 DEF SessionsIInv

LEMMA SAddKeeps ==
  ASSUME SessionsIInv, NEW p \in Procs, SAdd(p)
  PROVE  SessionsIInv'
<1>0. /\ SessionsTypeOK /\ At(p, "sadd") /\ "sadd" \in CreateSteps
      /\ UNCHANGED <<record, byToken, ttl, blacklist, expired, hidden>>
  BY DEF SessionsIInv, SAdd, CreateSteps
<1>1. PICK x \in Sids \ issued : Creates(p, "sadd", x) /\ req[p].sid = x
  BY <1>0, Creating
<1>2. listed' = listed \cup {x} BY <1>1 DEF SAdd
<1>3. LoggingIn(p, x) /\ req[p].op = "login" BY <1>1 DEF Creates, LoggingIn
<1>4. Goto(p, "expireList") /\ UNCHANGED issued BY <1>0, AdvanceSteps DEF SAdd
<1>5. LoginGoes(p) BY <1>4 DEF LoginGoes, CreateSteps
<1>6. SessionsTypeOK'
  <2>1. ttl' \in [Users -> SUBSET Never] BY <1>0 DEF SessionsTypeOK
  <2> QED BY <1>0, <1>2, <1>3, <1>5, <2>1, CreateType
<1>7. LoginsApart' /\ RecordsWritten' /\ StepsFit' /\ OthersHeld'
  BY <1>0, <1>2, <1>3, <1>5, CreateKeeps
<1>8. TimesKept'
  <2> SUFFICES ASSUME NEW y \in record
               PROVE  /\ y \notin expired
                      /\ y \in listed' \ hidden =>
                           y \in ttl[UserOf[y]] \/ \E q \in Procs : Creates(q, "expireList", y)'
    BY <1>0 DEF TimesKept, Creates
  <2>1. /\ y \notin expired
        /\ y \in listed \ hidden =>
             y \in ttl[UserOf[y]] \/ \E q \in Procs : Creates(q, "expireList", y)
    BY DEF SessionsIInv, TimesKept, Creates
  <2>2. Creates(p, "expireList", x)'
    BY <1>0, <1>3, <1>4, GotoMoves DEF Creates, LoggingIn, At, Steps
  <2> QED BY <1>0, <1>1, <1>2, <1>5, <2>1, <2>2, OtherLogins
<1>9. RecordsListed'
  <2> SUFFICES ASSUME NEW y \in record \ hidden, y # x
               PROVE  y \in listed' \/ \E q \in Procs : Creates(q, "sadd", y)'
    BY <1>0, <1>2 DEF RecordsListed, Creates
  <2>1. y \in listed \/ \E q \in Procs : Creates(q, "sadd", y)
    BY DEF SessionsIInv, RecordsListed, Creates
  <2> QED BY <1>0, <1>1, <1>2, <1>5, <2>1, OtherLogins
<1> QED BY <1>6, <1>7, <1>8, <1>9 DEF SessionsIInv

LEMMA ExpireListKeeps ==
  ASSUME SessionsIInv, NEW p \in Procs, ExpireList(p)
  PROVE  SessionsIInv'
<1>0. /\ SessionsTypeOK /\ At(p, "expireList") /\ "expireList" \in CreateSteps
      /\ UNCHANGED <<record, listed, byToken, blacklist, expired, hidden>>
  BY DEF SessionsIInv, ExpireList, CreateSteps
<1>1. PICK x \in Sids \ issued : Creates(p, "expireList", x) /\ req[p].sid = x
  BY <1>0, Creating
<1>2. ttl' = IF listed \cap SessionsOf(x) = {} THEN ttl
             ELSE [ttl EXCEPT ![UserOf[x]] = {x} \cup (record \cap SessionsOf(x))]
  BY <1>1 DEF ExpireList
<1>3. LoggingIn(p, x) /\ req[p].op = "login" BY <1>1 DEF Creates, LoggingIn
<1>4. Goto(p, "setToken") /\ UNCHANGED issued BY <1>0, AdvanceSteps DEF ExpireList
<1>5. LoginGoes(p) BY <1>4 DEF LoginGoes, CreateSteps
<1>6. SessionsTypeOK'
  <2>1. {x} \cup (record \cap SessionsOf(x)) \in SUBSET Never BY DEF SessionsOf, Never
  <2>2. ttl' \in [Users -> SUBSET Never] BY <1>0, <1>2, <2>1 DEF SessionsTypeOK
  <2> QED BY <1>0, <1>3, <1>5, <2>2, CreateType
<1>7. LoginsApart' /\ RecordsWritten' /\ StepsFit' /\ OthersHeld'
  BY <1>0, <1>3, <1>5, CreateKeeps
<1>8. TimesKept'
  <2> SUFFICES ASSUME NEW y \in record
               PROVE  /\ y \notin expired
                      /\ y \in listed \ hidden =>
                           y \in ttl'[UserOf[y]] \/ \E q \in Procs : Creates(q, "expireList", y)'
    BY <1>0 DEF TimesKept, Creates
  <2>1. /\ y \notin expired
        /\ y \in listed \ hidden =>
             y \in ttl[UserOf[y]] \/ \E q \in Procs : Creates(q, "expireList", y)
    BY DEF SessionsIInv, TimesKept, Creates
  <2>2. y \in Sids /\ UserOf[y] \in Users /\ UserOf[x] \in Users
    BY <1>0 DEF SessionsTypeOK, Users
  <2>3. CASE UserOf[y] = UserOf[x]
    <3>1. y \in listed => y \in listed \cap SessionsOf(x) BY <2>2, <2>3 DEF SessionsOf
    <3>2. y \in listed => y \in ttl'[UserOf[y]]
      BY <1>0, <1>2, <2>2, <2>3, <3>1 DEF SessionsTypeOK
    <3> QED BY <2>1, <3>2
  <2>4. CASE UserOf[y] # UserOf[x]
    <3>1. ttl'[UserOf[y]] = ttl[UserOf[y]] BY <1>0, <1>2, <2>2, <2>4 DEF SessionsTypeOK
    <3> QED BY <1>0, <1>1, <1>5, <2>1, <2>4, <3>1, OtherLogins
  <2> QED BY <2>3, <2>4
<1>9. RecordsListed'
  <2> SUFFICES ASSUME NEW y \in record \ hidden
               PROVE  y \in listed \/ \E q \in Procs : Creates(q, "sadd", y)'
    BY <1>0 DEF RecordsListed, Creates
  <2>1. y \in listed \/ \E q \in Procs : Creates(q, "sadd", y)
    BY DEF SessionsIInv, RecordsListed, Creates
  <2> QED BY <1>0, <1>1, <1>5, <2>1, OtherLogins
<1> QED BY <1>6, <1>7, <1>8, <1>9 DEF SessionsIInv

\* The end of a login, by its last command or when the connection breaks.
LEMMA LoginEndKeeps ==
  ASSUME SessionsIInv, NEW p \in Procs, SetToken(p) \/ CreateBreaks(p)
  PROVE  SessionsIInv'
<1>0. /\ SessionsTypeOK
      /\ UNCHANGED <<record, listed, ttl, blacklist, expired>>
      /\ \E pc \in CreateSteps : At(p, pc)
      /\ At(p, "setToken") \/ CreateBreaks(p)
  BY DEF SessionsIInv, SetToken, CreateBreaks, CreateSteps, LoginsApart, At, keys
<1>1. PICK pc \in CreateSteps, x \in Sids \ issued : Creates(p, pc, x) /\ req[p].sid = x
  BY <1>0, Creating
<1>2. /\ hidden' \subseteq hidden \cup {x} /\ hidden \subseteq hidden'
      /\ pc = "setToken" \/ x \in hidden'
      /\ byToken' \subseteq byToken \cup {x}
  BY <1>0, <1>1 DEF SetToken, CreateBreaks, keys, Creates, At
<1>3. LoggingIn(p, x) /\ req[p].op = "login" BY <1>1 DEF Creates, LoggingIn
<1>4. Finish(p) /\ issued' = issued \cup {req[p].sid}
  BY AdvanceSteps DEF SetToken, CreateBreaks
<1>5. LoginEnds(p) BY <1>1, <1>4 DEF LoginEnds, Creates, LoggingIn
<1>6. SessionsTypeOK'
  <2>1. ttl' \in [Users -> SUBSET Never] BY <1>0 DEF SessionsTypeOK
  <2> QED BY <1>0, <1>2, <1>3, <1>5, <2>1, CreateType
<1>7. LoginsApart' /\ RecordsWritten' /\ StepsFit' /\ OthersHeld'
  BY <1>0, <1>2, <1>3, <1>5, CreateKeeps
<1>8. \A step, y : y \notin hidden' /\ step # "setToken" /\ (\E q \in Procs : Creates(q, step, y))
                  => \E q \in Procs : Creates(q, step, y)'
  BY <1>0, <1>1, <1>2, <1>5, OtherLogins
<1>9. TimesKept'
  BY <1>0, <1>2, <1>8 DEF SessionsIInv, TimesKept, Creates
<1>10. RecordsListed'
  BY <1>0, <1>2, <1>8 DEF SessionsIInv, RecordsListed, Creates
<1> QED BY <1>6, <1>7, <1>9, <1>10 DEF SessionsIInv

-----------------------------------------------------------------------------
(* The start of a login                                                    *)

LEMMA LoginStarts ==
  ASSUME SessionsIInv, NEW p \in Procs, NEW x \in Sids, Login(p, x)
  PROVE  SessionsIInv'
<1>1. PICK r : r = [Idle EXCEPT !.op = "login", !.own = x, !.sid = x, !.pc = CreateOrder[1]]
  OBVIOUS
<1>2. /\ Fresh(x) /\ At(p, "idle") /\ req' = [req EXCEPT ![p] = r]
      /\ UNCHANGED <<record, listed, byToken, ttl, blacklist, issued, expired, hidden>>
  BY <1>1 DEF Login, Begin, keys
<1>3. /\ r.pc = "setRecord" /\ r.op = "login" /\ r.own = x /\ r.sid = x
      /\ r.todo = {} /\ r.others = {} /\ r.before = {} /\ r \in Request
  BY <1>1 DEF Idle, CreateOrder, Request, Steps
<1> HIDE <1>1
<1>4. SessionsTypeOK BY DEF SessionsIInv
<1>5. SessionsTypeOK' BY <1>2, <1>3, <1>4 DEF SessionsTypeOK
<1>6. req'[p] = r /\ \A q \in Procs \ {p} : req'[q] = req[q] BY <1>2, <1>4 DEF SessionsTypeOK
<1>7. req[p].op # "login" BY <1>2 DEF SessionsIInv, LoginsApart, At, CreateSteps
<1>8. \A q \in Procs : \A y, pc : LoggingIn(q, y) /\ req[q].pc = pc
                             => q # p /\ y # x /\ LoggingIn(q, y)' /\ req'[q].pc = pc
  BY <1>2, <1>6, <1>7 DEF LoggingIn, Fresh
<1>9. \A y : Written(y) => Written(y)'
  BY <1>2, <1>8 DEF Written
<1>10. LoginsApart'
  <2>1. \A q \in Procs :
          /\ (req'[q].pc \in CreateSteps) <=> req'[q].op = "login"
          /\ req'[q].op = "login" => req'[q].own \in Sids \ issued /\ req'[q].sid = req'[q].own
          /\ req'[q].op \notin {"none", "login"} => req'[q].own \in issued
    BY <1>2, <1>3, <1>6 DEF SessionsIInv, LoginsApart, CreateSteps, Fresh
  <2>2. \A q, t \in Procs : req'[q].op = "login" /\ req'[t].op = "login" /\ req'[t].own = req'[q].own
                             => q = t
    BY <1>2, <1>3, <1>6 DEF SessionsIInv, LoginsApart, LoggingIn, Fresh
  <2> QED BY <1>2, <2>1, <2>2 DEF LoginsApart, LoggingIn
<1>11. RecordsWritten' BY <1>2, <1>9 DEF SessionsIInv, RecordsWritten
<1>12. TimesKept' BY <1>2, <1>8 DEF SessionsIInv, TimesKept, At
<1>13. RecordsListed' BY <1>2, <1>8 DEF SessionsIInv, RecordsListed, At
<1>14. ASSUME NEW q \in Procs PROVE StepFits(req[q])' /\ Known(req[q])' /\ HeldBy(req[q])'
  <2>1. StepFits(req[q]) /\ Known(req[q]) /\ HeldBy(req[q])
    BY DEF SessionsIInv, StepsFit, OthersHeld
  <2>2. CASE q = p
    BY <1>3, <1>6, <2>2 DEF StepFits, Known, HeldBy, DeleteSteps
  <2>3. CASE q # p
    <3>1. req'[q] = req[q] BY <1>6, <2>3
    <3>2. StepFits(req[q])' BY <1>2, <2>1, <3>1 DEF StepFits, DeleteSteps
    <3>3. HeldBy(req[q])' BY <1>2, <2>1, <3>1 DEF HeldBy, Left
    <3>4. Written(req[q].sid) => Written(req[q].sid)'
      BY <1>2, <1>8, <3>1 DEF Written
    <3> QED BY <1>9, <2>1, <3>1, <3>2, <3>3, <3>4 DEF Known, DeleteSteps
  <2> QED BY <2>2, <2>3
<1> QED BY <1>5, <1>10, <1>11, <1>12, <1>13, <1>14 DEF SessionsIInv, StepsFit, OthersHeld

LEMMA LoginWithoutSessionKeeps ==
  ASSUME SessionsIInv, NEW x \in Sids, LoginWithoutSession(x)
  PROVE  SessionsIInv'
<1>1. /\ \A q \in Procs : req[q].own # x
      /\ issued' = issued \cup {x}
      /\ UNCHANGED <<record, listed, byToken, ttl, blacklist, expired, hidden, req>>
  BY DEF LoginWithoutSession, Fresh, keys
<1>2. SessionsTypeOK' BY <1>1 DEF SessionsIInv, SessionsTypeOK
<1>3. LoginsApart'
  BY <1>1 DEF SessionsIInv, LoginsApart, LoggingIn
<1>4. RecordsWritten'
  BY <1>1 DEF SessionsIInv, RecordsWritten, Written, LoggingIn
<1>5. TimesKept' BY <1>1 DEF SessionsIInv, TimesKept, LoggingIn, At
<1>6. RecordsListed' BY <1>1 DEF SessionsIInv, RecordsListed, LoggingIn, At
<1>7. StepsFit'
  BY <1>1 DEF SessionsIInv, StepsFit, StepFits, Known, Written, LoggingIn, DeleteSteps
<1>8. OthersHeld'
  BY <1>1 DEF SessionsIInv, OthersHeld, HeldBy, Left
<1> QED BY <1>2, <1>3, <1>4, <1>5, <1>6, <1>7, <1>8 DEF SessionsIInv

-----------------------------------------------------------------------------
(* The requests that hold a token                                          *)

LEMMA IdleServed == Idle \in Request /\ Served(Idle) /\ StepFits(Idle) /\ HeldBy(Idle)
<1>1. /\ Idle.pc = "idle" /\ Idle.op = "none" /\ Idle.todo = {} /\ Idle.others = {}
      /\ Idle.before = {}
  BY DEF Idle
<1> QED BY <1>1, IdleType DEF Served, Known, StepFits, HeldBy, Left, CreateSteps, DeleteSteps

\* What a request that is neither a login nor idle relies on.
LEMMA RequestHolds ==
  ASSUME SessionsIInv, NEW p \in Procs
  PROVE  /\ req[p] \in Request /\ StepFits(req[p]) /\ Known(req[p]) /\ HeldBy(req[p])
         /\ req[p].pc \notin CreateSteps => req[p].op # "login"
         /\ req[p].op \notin {"none", "login"} => req[p].own \in issued
         /\ \A x \in record \cup issued : Written(x)
         /\ record \cup listed \cup issued \subseteq Sids
BY DEF SessionsIInv, StepsFit, OthersHeld, SessionsTypeOK, LoginsApart, RecordsWritten, Written

LEMMA FinishKeeps ==
  ASSUME SessionsIInv, NEW p \in Procs, Finish(p), req[p].op # "login",
         UNCHANGED <<keys, issued, expired, hidden>>, blacklist' \subseteq blacklist \cup issued
  PROVE  SessionsIInv'
<1>1. PICK r : r = Idle OBVIOUS
<1>2. r \in Request /\ Served(r) /\ StepFits(r) /\ HeldBy(r) BY <1>1, IdleServed
<1>3. req' = [req EXCEPT ![p] = r] BY <1>1 DEF Finish
<1> QED BY <1>2, <1>3, QuietKeeps

\* A request begins with nothing to do.
LEMMA BeginKeeps ==
  ASSUME SessionsIInv, NEW p \in Procs, NEW r \in Request, Begin(p, r),
         UNCHANGED <<keys, blacklist, issued, expired, hidden>>,
         r.op \in {"logout", "revoke", "list", "others"}, r.own \in issued,
         r.todo = {}, r.others = {},
         \/ r.pc = "delRecord" /\ r.sid \in record /\ r.op \in {"logout", "revoke"}
         \/ r.pc = "blacklist" /\ r.op = "logout"
         \/ r.pc = "smembers" /\ r.op \in {"list", "others"},
         r.before \subseteq (issued \cap SessionsOf(r.own)) \ {r.own},
         r.op # "others" => r.before = {}
  PROVE  SessionsIInv'
<1>1. /\ \A x \in record \cup issued : Written(x)
      /\ req[p].pc \notin CreateSteps => req[p].op # "login"
      /\ record \cup issued \subseteq Sids
  BY RequestHolds
<1>2. req[p].pc = "idle" /\ req' = [req EXCEPT ![p] = r] BY DEF Begin, At
<1>3. req[p].op # "login" BY <1>1, <1>2 DEF CreateSteps
<1>4. Served(r) BY <1>1 DEF Served, Known, CreateSteps, DeleteSteps
<1>5. StepFits(r) BY <1>1 DEF StepFits, DeleteSteps
<1>6. HeldBy(r) BY DEF HeldBy, Left
<1> QED BY <1>2, <1>3, <1>4, <1>5, <1>6, QuietKeeps

LEMMA ArrivalKeeps ==
  ASSUME SessionsIInv, NEW p \in Procs, NEW s \in Sids,
         \/ Logout(p, s) \/ GetActiveSessions(p, s) \/ RevokeAllOtherSessions(p, s)
         \/ \E x \in Sids : RevokeSession(p, s, x)
  PROVE  SessionsIInv'
<1>1. CASE Logout(p, s)
  <2>1. s \in issued BY <1>1 DEF Logout, Accepted
  <2>2. CASE /\ ByToken(s)
             /\ Begin(p, [Idle EXCEPT !.op = "logout", !.own = s, !.sid = s, !.pc = "delRecord"])
    <3>1. PICK r : r = [Idle EXCEPT !.op = "logout", !.own = s, !.sid = s, !.pc = "delRecord"]
      OBVIOUS
    <3>2. /\ r \in Request /\ r.op = "logout" /\ r.own = s /\ r.sid = s /\ r.pc = "delRecord"
          /\ r.before = {} /\ r.todo = {} /\ r.others = {}
      BY <3>1 DEF Idle, Request, Steps
    <3>3. Begin(p, r) BY <2>2, <3>1
    <3>4. s \in record BY <2>2 DEF ByToken
    <3>5. UNCHANGED <<keys, blacklist, issued, expired, hidden>> BY <1>1 DEF Logout
    <3> QED BY <2>1, <3>2, <3>3, <3>4, <3>5, BeginKeeps
  <2>3. CASE Begin(p, [Idle EXCEPT !.op = "logout", !.own = s, !.pc = "blacklist"])
    <3>1. PICK r : r = [Idle EXCEPT !.op = "logout", !.own = s, !.pc = "blacklist"]
      OBVIOUS
    <3>2. /\ r \in Request /\ r.op = "logout" /\ r.own = s /\ r.pc = "blacklist"
          /\ r.before = {} /\ r.todo = {} /\ r.others = {}
      BY <3>1 DEF Idle, Request, Steps
    <3>3. Begin(p, r) BY <2>3, <3>1
    <3>5. UNCHANGED <<keys, blacklist, issued, expired, hidden>> BY <1>1 DEF Logout
    <3> QED BY <2>1, <3>2, <3>3, <3>5, BeginKeeps
  <2> QED BY <1>1, <2>2, <2>3 DEF Logout
<1>2. CASE GetActiveSessions(p, s)
  <2>1. PICK r : r = [Idle EXCEPT !.op = "list", !.own = s, !.pc = "smembers"]
    OBVIOUS
  <2>2. /\ r \in Request /\ r.op = "list" /\ r.own = s /\ r.pc = "smembers"
        /\ r.before = {} /\ r.todo = {} /\ r.others = {}
    BY <2>1 DEF Idle, Request, Steps
  <2>3. Begin(p, r) BY <1>2, <2>1 DEF GetActiveSessions
  <2>4. s \in issued /\ UNCHANGED <<keys, blacklist, issued, expired, hidden>>
    BY <1>2 DEF GetActiveSessions, Accepted
  <2> QED BY <2>2, <2>3, <2>4, BeginKeeps
<1>3. CASE RevokeAllOtherSessions(p, s)
  <2>1. PICK b : b = (issued \cap record \cap SessionsOf(s)) \ {s} OBVIOUS
  <2>2. PICK r : r = [Idle EXCEPT !.op = "others", !.own = s, !.pc = "smembers", !.before = b]
    OBVIOUS
  <2>3. b \in SUBSET Sids BY <2>1 DEF SessionsOf
  <2>4. /\ r \in Request /\ r.op = "others" /\ r.own = s /\ r.pc = "smembers"
        /\ r.before = b /\ r.todo = {} /\ r.others = {}
    BY <2>2, <2>3 DEF Idle, Request, Steps
  <2>5. Begin(p, r) BY <1>3, <2>1, <2>2 DEF RevokeAllOtherSessions
  <2>6. s \in issued /\ UNCHANGED <<keys, blacklist, issued, expired, hidden>>
    BY <1>3 DEF RevokeAllOtherSessions, Accepted
  <2> QED BY <2>1, <2>4, <2>5, <2>6, BeginKeeps
<1>4. ASSUME NEW x \in Sids, RevokeSession(p, s, x) PROVE SessionsIInv'
  <2>1. PICK r : r = [Idle EXCEPT !.op = "revoke", !.own = s, !.sid = x, !.pc = "delRecord"]
    OBVIOUS
  <2>2. /\ r \in Request /\ r.op = "revoke" /\ r.own = s /\ r.sid = x /\ r.pc = "delRecord"
        /\ r.before = {} /\ r.todo = {} /\ r.others = {}
    BY <2>1 DEF Idle, Request, Steps
  <2>3. Begin(p, r) BY <1>4, <2>1 DEF RevokeSession
  <2>4. s \in issued /\ x \in record /\ UNCHANGED <<keys, blacklist, issued, expired, hidden>>
    BY <1>4 DEF RevokeSession, Accepted
  <2> QED BY <2>2, <2>3, <2>4, BeginKeeps
<1> QED BY <1>1, <1>2, <1>3, <1>4

-----------------------------------------------------------------------------
(* The steps of GetByUserID and of the revocations                         *)

LEMMA StoreBlacklistKeeps ==
  ASSUME SessionsIInv, NEW p \in Procs, StoreBlacklist(p)
  PROVE  SessionsIInv'
<1>1. /\ req[p].pc = "blacklist" /\ Finish(p)
      /\ UNCHANGED <<keys, issued, expired, hidden>>
      /\ blacklist' \subseteq blacklist \cup {req[p].own}
  BY DEF StoreBlacklist, At
<1>2. req[p].op # "none" BY <1>1, RequestHolds DEF StepFits
<1>3. req[p].op # "login" BY <1>1, RequestHolds DEF CreateSteps
<1>4. req[p].own \in issued BY <1>2, <1>3, RequestHolds
<1> QED BY <1>1, <1>3, <1>4, FinishKeeps

LEMMA SMembersKeeps ==
  ASSUME SessionsIInv, NEW p \in Procs, SMembers(p)
  PROVE  SessionsIInv'
<1>1. /\ req[p].pc = "smembers" /\ UNCHANGED <<keys, blacklist, issued, expired, hidden>>
      /\ \/ req' = [req EXCEPT ![p].todo = listed \cap SessionsOf(req[p].own), ![p].pc = "gather"]
         \/ Finish(p)
  BY DEF SMembers, At
<1>2. /\ req[p] \in Request /\ StepFits(req[p]) /\ Known(req[p]) /\ HeldBy(req[p])
      /\ req[p].op \in {"list", "others"} /\ req[p].own \in issued
      /\ listed \subseteq Sids
  BY <1>1, RequestHolds DEF StepFits
<1>3. CASE Finish(p) BY <1>1, <1>2, <1>3, FinishKeeps
<1>4. CASE req' = [req EXCEPT ![p].todo = listed \cap SessionsOf(req[p].own), ![p].pc = "gather"]
  <2>1. PICK todo : todo = listed \cap SessionsOf(req[p].own) OBVIOUS
  <2>2. PICK r : r = [req[p] EXCEPT !.todo = todo, !.pc = "gather"] OBVIOUS
  <2>3. req' = [req EXCEPT ![p] = r] BY <1>4, <2>1, <2>2
  <2>4. /\ r \in Request /\ r.pc = "gather" /\ r.op = req[p].op /\ r.own = req[p].own
        /\ r.todo = todo /\ r.others = req[p].others /\ r.before = req[p].before
    BY <1>2, <2>1, <2>2 DEF Request, Steps
  <2>5. StepFits(r) BY <1>2, <2>4 DEF StepFits, DeleteSteps
  <2>6. \A x \in listed : Written(x) BY DEF SessionsIInv, RecordsWritten
  <2>7. Served(r) BY <1>2, <2>1, <2>4, <2>6 DEF Served, Known, CreateSteps, DeleteSteps
  <2>8. HeldBy(r)
    <3>1. CASE req[p].op # "others"
      <4>1. r.before = {} BY <1>2, <2>4, <3>1 DEF StepFits
      <4> QED BY <2>4, <3>1, <4>1 DEF HeldBy
    <3>2. CASE req[p].op = "others"
      <4>1. r.before \subseteq (issued \cap SessionsOf(r.own)) \ {r.own}
        BY <1>2, <2>4, <3>2 DEF HeldBy
      <4>2. \A x \in (issued \cap record) \ hidden : x \in listed
        BY DEF SessionsIInv, RecordsListed, LoginsApart, LoggingIn
      <4>3. (r.before \cap record) \ hidden \subseteq todo BY <2>1, <2>4, <4>1, <4>2
      <4> QED BY <2>4, <4>1, <4>3 DEF HeldBy, Left
    <3> QED BY <3>1, <3>2
  <2> QED BY <1>1, <1>2, <2>3, <2>4, <2>5, <2>7, <2>8, QuietKeeps
<1> QED BY <1>1, <1>3, <1>4

LEMMA GatherSessionKeeps ==
  ASSUME SessionsIInv, NEW p \in Procs, GatherSession(p)
  PROVE  SessionsIInv'
<1>1. /\ req[p].pc = "gather" /\ UNCHANGED <<keys, blacklist, issued, expired>>
      /\ UNCHANGED <<record, listed, byToken, ttl>>
  BY DEF GatherSession, At, keys
<1>2. /\ req[p] \in Request /\ StepFits(req[p]) /\ Known(req[p]) /\ HeldBy(req[p])
      /\ req[p].op \in {"list", "others"} /\ req[p].own \in issued
      /\ req[p].todo \subseteq Sids /\ record \subseteq Sids
  BY <1>1, RequestHolds DEF StepFits, Request
<1>3. PICK x \in req[p].todo :
        \/ /\ x \in record
           /\ req' = [req EXCEPT ![p].todo = @ \ {x}, ![p].others = @ \cup ({x} \ {req[p].own})]
           /\ UNCHANGED hidden
        \/ /\ req' = [req EXCEPT ![p].todo = @ \ {x}, ![p].sid = x, ![p].pc = "drop"]
           /\ hidden' = hidden \cup (record \cap {x})
  BY DEF GatherSession
<1>4. CASE /\ x \in record
           /\ req' = [req EXCEPT ![p].todo = @ \ {x}, ![p].others = @ \cup ({x} \ {req[p].own})]
           /\ UNCHANGED hidden
  <2>1. PICK others : others = req[p].others \cup ({x} \ {req[p].own}) OBVIOUS
  <2>2. PICK r : r = [req[p] EXCEPT !.todo = req[p].todo \ {x}, !.others = others] OBVIOUS
  <2>3. req' = [req EXCEPT ![p] = r] BY <1>4, <2>1, <2>2
  <2>4. /\ r \in Request /\ r.pc = "gather" /\ r.op = req[p].op /\ r.own = req[p].own
        /\ r.todo = req[p].todo \ {x} /\ r.others = others /\ r.before = req[p].before
    BY <1>1, <1>2, <2>1, <2>2 DEF Request
  <2>5. StepFits(r) BY <1>2, <2>4 DEF StepFits, DeleteSteps
  <2>6. Served(r) BY <1>2, <2>1, <2>4 DEF Served, Known, CreateSteps, DeleteSteps
  <2>7. HeldBy(r)
    <3>1. r.op = "others" => r.before \subseteq (issued \cap SessionsOf(r.own)) \ {r.own}
      BY <1>2, <2>4 DEF HeldBy
    <3>2. (req[p].before \cap record) \ hidden \subseteq req[p].todo \cup req[p].others
      BY <1>1, <1>2 DEF HeldBy, Left
    <3>3. req[p].own \notin req[p].before BY <1>2 DEF HeldBy, StepFits
    <3>4. (r.before \cap record) \ hidden \subseteq r.todo \cup r.others
      BY <2>1, <2>4, <3>2, <3>3
    <3> QED BY <2>4, <3>1, <3>4 DEF HeldBy, Left
  <2> QED BY <1>1, <1>2, <1>4, <2>3, <2>4, <2>5, <2>6, <2>7, QuietKeeps
<1>5. CASE /\ req' = [req EXCEPT ![p].todo = @ \ {x}, ![p].sid = x, ![p].pc = "drop"]
           /\ hidden' = hidden \cup (record \cap {x})
  <2>2. PICK r : r = [req[p] EXCEPT !.todo = req[p].todo \ {x}, !.sid = x, !.pc = "drop"] OBVIOUS
  <2>3. req' = [req EXCEPT ![p] = r] BY <1>5, <2>2
  <2>4. /\ r \in Request /\ r.pc = "drop" /\ r.op = req[p].op /\ r.own = req[p].own
        /\ r.sid = x
        /\ r.todo = req[p].todo \ {x} /\ r.others = req[p].others /\ r.before = req[p].before
    BY <1>2, <2>2 DEF Request, Steps
  <2>5. StepFits(r)' BY <1>1, <1>2, <1>5, <2>4 DEF StepFits, DeleteSteps
  <2>6. Served(r) BY <1>2, <2>4 DEF Served, Known, CreateSteps, DeleteSteps
  <2>7. HeldBy(r)'
    <3>1. r.op = "others" => r.before \subseteq (issued \cap SessionsOf(r.own)) \ {r.own}
      BY <1>2, <2>4 DEF HeldBy
    <3>2. (req[p].before \cap record) \ hidden \subseteq req[p].todo \cup req[p].others
      BY <1>1, <1>2 DEF HeldBy, Left
    <3>3. (r.before \cap record') \ hidden' \subseteq r.todo \cup r.others
      BY <1>1, <1>5, <2>4, <3>2
    <3> QED BY <1>1, <2>4, <3>1, <3>3 DEF HeldBy, Left
  <2>8. LessKept BY <1>1, <1>5 DEF SessionsIInv, TimesKept, LessKept
  <2>9. ttl' \in [Users -> SUBSET Never] BY <1>1 DEF SessionsIInv, SessionsTypeOK
  <2> QED BY <1>1, <1>2, <1>5, <2>3, <2>4, <2>5, <2>6, <2>7, <2>8, <2>9, ServedKeeps
<1> QED BY <1>3, <1>4, <1>5

\* A list that loses members keeps its time to live while it has any.
LEMMA SetListKeepsTimes ==
  ASSUME SessionsTypeOK, NEW list \in SUBSET listed, SetList(list)
  PROVE  /\ listed' = list
         /\ ttl' \in [Users -> SUBSET Never]
         /\ \A x \in listed' : ttl'[UserOf[x]] = ttl[UserOf[x]]
<1>1. Never \in SUBSET Never /\ \A x \in list : x \in Sids /\ UserOf[x] \in Users
  BY DEF SessionsTypeOK, Users
<1> QED BY <1>1 DEF SetList, SessionsTypeOK

LEMMA DropFromListKeeps ==
  ASSUME SessionsIInv, NEW p \in Procs, DropFromList(p)
  PROVE  SessionsIInv'
<1>1. /\ req[p].pc = "drop" /\ UNCHANGED <<record, byToken, blacklist, issued, expired, hidden>>
      /\ SetList(listed \ {req[p].sid}) \/ UNCHANGED <<listed, ttl>>
      /\ req' = [req EXCEPT ![p].pc = "gather", ![p].sid = None]
      /\ SessionsTypeOK
  BY DEF DropFromList, At, SessionsIInv
<1>2. /\ req[p] \in Request /\ StepFits(req[p]) /\ Known(req[p]) /\ HeldBy(req[p])
      /\ req[p].op \in {"list", "others"} /\ req[p].own \in issued
      /\ req[p].sid \in hidden \/ req[p].sid \notin record
  BY <1>1, RequestHolds DEF StepFits
<1>3. PICK r : r = [req[p] EXCEPT !.pc = "gather", !.sid = None] OBVIOUS
<1>4. req' = [req EXCEPT ![p] = r] BY <1>1, <1>3
<1>5. /\ r \in Request /\ r.pc = "gather" /\ r.op = req[p].op /\ r.own = req[p].own
      /\ r.todo = req[p].todo /\ r.others = req[p].others /\ r.before = req[p].before
  BY <1>2, <1>3 DEF Request, Steps
<1>6. StepFits(r)' BY <1>1, <1>2, <1>5 DEF StepFits, DeleteSteps
<1>7. Served(r) BY <1>2, <1>5 DEF Served, Known, CreateSteps, DeleteSteps
<1>8. HeldBy(r)' BY <1>1, <1>2, <1>5 DEF HeldBy, Left
<1>9. /\ listed' \subseteq listed /\ listed \ listed' \subseteq {req[p].sid}
      /\ ttl' \in [Users -> SUBSET Never]
      /\ \A x \in listed' : ttl'[UserOf[x]] = ttl[UserOf[x]]
  <2>1. CASE UNCHANGED <<listed, ttl>> BY <1>1, <2>1 DEF SessionsTypeOK
  <2>2. CASE SetList(listed \ {req[p].sid})
    <3>1. listed \ {req[p].sid} \in SUBSET listed OBVIOUS
    <3> QED BY <1>1, <2>2, <3>1, SetListKeepsTimes
  <2> QED BY <1>1, <2>1, <2>2
<1>10. LessKept BY <1>1, <1>2, <1>9 DEF SessionsIInv, TimesKept, LessKept
<1> QED BY <1>1, <1>2, <1>4, <1>5, <1>6, <1>7, <1>8, <1>9, <1>10, ServedKeeps

LEMMA GatheredKeeps ==
  ASSUME SessionsIInv, NEW p \in Procs, Gathered(p)
  PROVE  SessionsIInv'
<1>1. /\ req[p].pc = "gather" /\ req[p].todo = {}
      /\ UNCHANGED <<keys, blacklist, issued, expired, hidden>>
      /\ IF req[p].op = "list" THEN Finish(p)
         ELSE req' = [req EXCEPT ![p].todo = req[p].others, ![p].others = {}, ![p].pc = "destroy"]
  BY DEF Gathered, At
<1>2. /\ req[p] \in Request /\ StepFits(req[p]) /\ Known(req[p]) /\ HeldBy(req[p])
      /\ req[p].op \in {"list", "others"} /\ req[p].own \in issued
  BY <1>1, RequestHolds DEF StepFits
<1>3. CASE req[p].op = "list" BY <1>1, <1>2, <1>3, FinishKeeps
<1>4. CASE req[p].op = "others"
  <2>1. PICK r : r = [req[p] EXCEPT !.todo = req[p].others, !.others = {}, !.pc = "destroy"] OBVIOUS
  <2>2. req' = [req EXCEPT ![p] = r] BY <1>1, <1>4, <2>1
  <2>3. /\ r \in Request /\ r.pc = "destroy" /\ r.op = "others" /\ r.own = req[p].own
        /\ r.todo = req[p].others /\ r.others = {} /\ r.before = req[p].before
    BY <1>2, <1>4, <2>1 DEF Request, Steps
  <2>4. StepFits(r) BY <1>2, <2>3 DEF StepFits, DeleteSteps
  <2>5. Served(r) BY <1>2, <2>3 DEF Served, Known, CreateSteps, DeleteSteps
  <2>6. HeldBy(r) BY <1>1, <1>2, <1>4, <2>3 DEF HeldBy, Left
  <2> QED BY <1>1, <1>2, <2>2, <2>3, <2>4, <2>5, <2>6, QuietKeeps
<1> QED BY <1>2, <1>3, <1>4

LEMMA DestroyNextKeeps ==
  ASSUME SessionsIInv, NEW p \in Procs, DestroyNext(p)
  PROVE  SessionsIInv'
<1>1. req[p].pc = "destroy" /\ UNCHANGED <<keys, blacklist, issued, expired, hidden>>
  BY DEF DestroyNext, At
<1>2. /\ req[p] \in Request /\ StepFits(req[p]) /\ Known(req[p]) /\ HeldBy(req[p])
      /\ req[p].op = "others" /\ req[p].own \in issued /\ req[p].others = {}
      /\ req[p].todo \subseteq Sids
  BY <1>1, RequestHolds DEF StepFits, Request
<1>3. PICK x \in req[p].todo :
        \/ req' = [req EXCEPT ![p].todo = @ \ {x}, ![p].sid = x, ![p].pc = "delRecord"]
        \/ Finish(p)
  BY DEF DestroyNext, GiveUp
<1>4. CASE Finish(p) BY <1>1, <1>2, <1>4, FinishKeeps
<1>5. CASE req' = [req EXCEPT ![p].todo = @ \ {x}, ![p].sid = x, ![p].pc = "delRecord"]
  <2>1. PICK r : r = [req[p] EXCEPT !.todo = req[p].todo \ {x}, !.sid = x, !.pc = "delRecord"]
    OBVIOUS
  <2>2. req' = [req EXCEPT ![p] = r] BY <1>5, <2>1
  <2>3. /\ r \in Request /\ r.pc = "delRecord" /\ r.op = "others" /\ r.own = req[p].own
        /\ r.sid = x /\ r.todo = req[p].todo \ {x} /\ r.others = {} /\ r.before = req[p].before
    BY <1>2, <2>1 DEF Request, Steps
  <2>4. StepFits(r) BY <1>2, <2>3 DEF StepFits, DeleteSteps
  <2>5. Served(r) BY <1>2, <2>3 DEF Served, Known, CreateSteps, DeleteSteps
  <2>6. HeldBy(r) BY <1>1, <1>2, <2>3 DEF HeldBy, Left
  <2> QED BY <1>1, <1>2, <2>2, <2>3, <2>4, <2>5, <2>6, QuietKeeps
<1> QED BY <1>3, <1>4, <1>5

LEMMA OthersDoneKeeps ==
  ASSUME SessionsIInv, NEW p \in Procs, OthersDone(p)
  PROVE  SessionsIInv'
<1>1. /\ req[p].pc = "destroy" /\ Finish(p)
      /\ UNCHANGED <<keys, blacklist, issued, expired, hidden>>
  BY DEF OthersDone, At
<1>2. req[p].op # "login" BY <1>1, RequestHolds DEF CreateSteps
<1> QED BY <1>1, <1>2, FinishKeeps

-----------------------------------------------------------------------------
(* The deletion of a session                                               *)

LEMMA DelRecordKeeps ==
  ASSUME SessionsIInv, NEW p \in Procs, DelRecord(p)
  PROVE  SessionsIInv'
<1>1. /\ req[p].pc = "delRecord" /\ record' = record \ {req[p].sid} /\ Goto(p, "srem")
      /\ UNCHANGED <<listed, byToken, ttl, blacklist, issued, expired, hidden>>
  BY DEF DelRecord, At
<1>2. /\ req[p] \in Request /\ StepFits(req[p]) /\ Known(req[p]) /\ HeldBy(req[p])
      /\ req[p].op \in {"logout", "revoke", "others"} /\ req[p].own \in issued
      /\ req[p].others = {} /\ req[p].sid \in Sids
  BY <1>1, RequestHolds DEF StepFits, DeleteSteps
<1>3. PICK r : r = [req[p] EXCEPT !.pc = "srem"] OBVIOUS
<1>4. req' = [req EXCEPT ![p] = r] BY <1>1, <1>3 DEF Goto
<1>5. /\ r \in Request /\ r.pc = "srem" /\ r.op = req[p].op /\ r.own = req[p].own
      /\ r.sid = req[p].sid /\ r.todo = req[p].todo /\ r.others = {} /\ r.before = req[p].before
  BY <1>2, <1>3 DEF Request, Steps
<1>6. StepFits(r)' BY <1>1, <1>2, <1>5 DEF StepFits, DeleteSteps
<1>7. Served(r) BY <1>1, <1>2, <1>5 DEF Served, Known, CreateSteps, DeleteSteps
<1>8. HeldBy(r)' BY <1>1, <1>2, <1>5 DEF HeldBy, Left
<1>9. LessKept BY <1>1 DEF SessionsIInv, TimesKept, LessKept
<1>10. ttl' \in [Users -> SUBSET Never] BY <1>1 DEF SessionsIInv, SessionsTypeOK
<1> QED BY <1>1, <1>2, <1>4, <1>5, <1>6, <1>7, <1>8, <1>9, <1>10, ServedKeeps

LEMMA SRemKeeps ==
  ASSUME SessionsIInv, NEW p \in Procs, SRem(p)
  PROVE  SessionsIInv'
<1>1. /\ req[p].pc = "srem" /\ SetList(listed \ {req[p].sid}) /\ Goto(p, "delToken")
      /\ UNCHANGED <<record, byToken, blacklist, issued, expired, hidden>>
      /\ SessionsTypeOK
  BY DEF SRem, At, SessionsIInv
<1>2. /\ req[p] \in Request /\ StepFits(req[p]) /\ Known(req[p]) /\ HeldBy(req[p])
      /\ req[p].op \in {"logout", "revoke", "others"} /\ req[p].own \in issued
      /\ req[p].others = {} /\ req[p].sid \in Sids /\ req[p].sid \notin record
  BY <1>1, RequestHolds DEF StepFits, DeleteSteps
<1>3. PICK r : r = [req[p] EXCEPT !.pc = "delToken"] OBVIOUS
<1>4. req' = [req EXCEPT ![p] = r] BY <1>1, <1>3 DEF Goto
<1>5. /\ r \in Request /\ r.pc = "delToken" /\ r.op = req[p].op /\ r.own = req[p].own
      /\ r.sid = req[p].sid /\ r.todo = req[p].todo /\ r.others = {} /\ r.before = req[p].before
  BY <1>2, <1>3 DEF Request, Steps
<1>6. StepFits(r)' BY <1>1, <1>2, <1>5 DEF StepFits, DeleteSteps
<1>7. Served(r) BY <1>1, <1>2, <1>5 DEF Served, Known, CreateSteps, DeleteSteps
<1>8. HeldBy(r)' BY <1>1, <1>2, <1>5 DEF HeldBy, Left
<1>9. /\ listed' = listed \ {req[p].sid}
      /\ ttl' \in [Users -> SUBSET Never]
      /\ \A x \in listed' : ttl'[UserOf[x]] = ttl[UserOf[x]]
  <2>1. listed \ {req[p].sid} \in SUBSET listed OBVIOUS
  <2> QED BY <1>1, <2>1, SetListKeepsTimes
<1>10. LessKept BY <1>1, <1>2, <1>9 DEF SessionsIInv, TimesKept, LessKept
<1> QED BY <1>1, <1>2, <1>4, <1>5, <1>6, <1>7, <1>8, <1>9, <1>10, ServedKeeps

LEMMA DelTokenKeeps ==
  ASSUME SessionsIInv, NEW p \in Procs, DelToken(p) \/ DeleteBreaks(p)
  PROVE  SessionsIInv'
<1>1. /\ req[p].pc \in DeleteSteps
      /\ UNCHANGED <<record, listed, ttl, blacklist, issued, expired, hidden>>
      /\ byToken' \subseteq byToken
  BY DEF DelToken, DeleteBreaks, DeleteSteps, At, keys
<1>2. /\ req[p] \in Request /\ StepFits(req[p]) /\ Known(req[p]) /\ HeldBy(req[p])
      /\ req[p].op \in {"logout", "revoke", "others"} /\ req[p].own \in issued
      /\ req[p].others = {}
  BY <1>1, RequestHolds DEF StepFits
<1>3. LessKept BY <1>1 DEF SessionsIInv, TimesKept, LessKept
<1>4. ttl' \in [Users -> SUBSET Never] BY <1>1 DEF SessionsIInv, SessionsTypeOK
<1>5. ASSUME NEW r \in Request, req' = [req EXCEPT ![p] = r], Served(r), StepFits(r), HeldBy(r)
      PROVE  SessionsIInv'
  <2>1. StepFits(r)' /\ HeldBy(r)' BY <1>1, <1>5 DEF StepFits, HeldBy, Left, DeleteSteps
  <2> QED BY <1>1, <1>2, <1>3, <1>4, <1>5, <2>1, ServedKeeps
<1>6. CASE Finish(p)
  <2>1. PICK r : r = Idle OBVIOUS
  <2>2. r \in Request /\ Served(r) /\ StepFits(r) /\ HeldBy(r) BY <2>1, IdleServed
  <2>3. req' = [req EXCEPT ![p] = r] BY <1>6, <2>1 DEF Finish
  <2> QED BY <1>5, <2>2, <2>3
<1>7. CASE req[p].op = "logout" /\ ToBlacklist(p)
  <2>1. PICK r : r = [req[p] EXCEPT !.pc = "blacklist", !.sid = None] OBVIOUS
  <2>2. req' = [req EXCEPT ![p] = r] BY <1>7, <2>1 DEF ToBlacklist
  <2>3. /\ r.pc = "blacklist" /\ r.op = "logout" /\ r.own = req[p].own /\ r.todo = req[p].todo
        /\ r.others = req[p].others /\ r.before = req[p].before /\ r \in Request
    BY <1>2, <1>7, <2>1 DEF Request, Steps
  <2>4. StepFits(r) /\ r.before = {} BY <1>2, <1>7, <2>3 DEF StepFits, DeleteSteps
  <2>5. HeldBy(r) BY <2>3, <2>4 DEF HeldBy
  <2>6. Served(r) BY <1>2, <2>3 DEF Served, Known, CreateSteps, DeleteSteps
  <2> QED BY <1>5, <2>2, <2>3, <2>4, <2>5, <2>6
<1>8. CASE /\ req[p].op = "others" /\ req[p].pc = "delToken"
           /\ req' = [req EXCEPT ![p].pc = "destroy", ![p].sid = None]
  <2>1. PICK r : r = [req[p] EXCEPT !.pc = "destroy", !.sid = None] OBVIOUS
  <2>2. req' = [req EXCEPT ![p] = r] BY <1>8, <2>1
  <2>3. /\ r.pc = "destroy" /\ r.op = "others" /\ r.own = req[p].own /\ r.todo = req[p].todo
        /\ r.others = req[p].others /\ r.before = req[p].before /\ r \in Request
    BY <1>2, <1>8, <2>1 DEF Request, Steps
  <2>4. StepFits(r) BY <1>2, <2>3 DEF StepFits, DeleteSteps
  <2>5. HeldBy(r) BY <1>2, <1>8, <2>3 DEF HeldBy, Left
  <2>6. Served(r) BY <1>2, <2>3 DEF Served, Known, CreateSteps, DeleteSteps
  <2> QED BY <1>5, <2>2, <2>3, <2>4, <2>5, <2>6
<1>9. CASE DelToken(p)
  <2>1. req[p].pc = "delToken" BY <1>9 DEF DelToken, At
  <2>2. \/ req[p].op = "logout" /\ ToBlacklist(p)
        \/ Finish(p)
        \/ /\ req[p].op = "others"
           /\ req' = [req EXCEPT ![p].pc = "destroy", ![p].sid = None]
    BY <1>2, <1>9 DEF DelToken
  <2> QED BY <1>6, <1>7, <1>8, <2>1, <2>2
<1>10. CASE DeleteBreaks(p)
  BY <1>6, <1>7, <1>10 DEF DeleteBreaks
<1> QED BY <1>9, <1>10

-----------------------------------------------------------------------------
(* Time                                                                    *)

LEMMA ExpireKeeps ==
  ASSUME SessionsIInv, NEW s \in Sids, Expire(s)
  PROVE  SessionsIInv'
<1>1. /\ s \in issued /\ expired' = expired \cup {s} /\ record' = record \ {s}
      /\ byToken' = byToken \ {s} /\ UNCHANGED <<listed, ttl, blacklist, issued, hidden, req>>
  BY DEF Expire
<1>2. SessionsTypeOK' BY <1>1 DEF SessionsIInv, SessionsTypeOK
<1>3. LessKept BY <1>1 DEF SessionsIInv, TimesKept, LessKept
<1> QED BY <1>1, <1>2, <1>3, LessKeeps

\* A record on the list that is not off it by a fault has its token in ttl, and
\* the list elapses once all those have expired: it takes no live session with it.
LEMMA ListElapsesKeeps ==
  ASSUME SessionsIInv, NEW u \in Users, ListElapses(u)
  PROVE  SessionsIInv'
<1> DEFINE mine == {s \in listed : UserOf[s] = u}
<1>1. /\ ttl[u] \subseteq expired /\ SetList(listed \ mine)
      /\ hidden' = hidden \cup {s \in mine : \E p \in Procs : At(p, "expireList") /\ req[p].sid = s}
      /\ UNCHANGED <<record, byToken, blacklist, issued, expired, req>>
      /\ SessionsTypeOK
  BY DEF ListElapses, SessionsIInv
<1>2. /\ listed' = listed \ mine
      /\ ttl' \in [Users -> SUBSET Never]
      /\ \A x \in listed' : ttl'[UserOf[x]] = ttl[UserOf[x]]
  <2>1. listed \ mine \in SUBSET listed OBVIOUS
  <2> QED BY <1>1, <2>1, SetListKeepsTimes
<1>3. SessionsTypeOK' BY <1>1, <1>2 DEF SessionsTypeOK
<1>4. \A x \in mine : x \notin record \/ x \in hidden'
  <2> SUFFICES ASSUME NEW x \in mine, x \in record, x \notin hidden PROVE x \in hidden'
    BY <1>1
  <2>1. x \in ttl[UserOf[x]] \/ \E p \in Procs : LoggingIn(p, x) /\ At(p, "expireList")
    BY DEF SessionsIInv, TimesKept
  <2>2. x \notin ttl[UserOf[x]] BY <1>1 DEF SessionsIInv, TimesKept
  <2>3. PICK p \in Procs : LoggingIn(p, x) /\ At(p, "expireList") BY <2>1, <2>2
  <2>4. req[p].sid = x BY <2>3, LoginAlone DEF LoggingIn
  <2> QED BY <1>1, <2>3, <2>4
<1>5. LessKept BY <1>1, <1>2, <1>4 DEF SessionsIInv, TimesKept, LessKept
<1> QED BY <1>1, <1>3, <1>5, LessKeeps

-----------------------------------------------------------------------------
(* The theorems                                                            *)

LEMMA SessionsInitInv == ASSUME SessionsInit PROVE SessionsIInv
<1>1. /\ record = {} /\ listed = {} /\ byToken = {} /\ blacklist = {} /\ issued = {}
      /\ expired = {} /\ hidden = {} /\ ttl = [u \in Users |-> Never]
  BY DEF SessionsInit
<1>2. \A p \in Procs : req[p] = Idle BY DEF SessionsInit
<1>3. req \in [Procs -> Request]
  <2>1. Idle \in Request BY IdleType
  <2> HIDE DEF Idle
  <2> QED BY <2>1 DEF SessionsInit
<1>4. Never \in SUBSET Never OBVIOUS
<1>5. SessionsTypeOK BY <1>1, <1>3, <1>4 DEF SessionsTypeOK
<1>6. LoginsApart BY <1>2, IdleType DEF LoginsApart, LoggingIn, CreateSteps
<1>7. RecordsWritten /\ TimesKept /\ RecordsListed
  BY <1>1 DEF RecordsWritten, TimesKept, RecordsListed
<1>8. StepsFit /\ OthersHeld BY <1>2, IdleServed DEF StepsFit, OthersHeld, Served
<1> QED BY <1>5, <1>6, <1>7, <1>8 DEF SessionsIInv

LEMMA SessionsNextInv ==
  ASSUME SessionsIInv, [SessionsNext]_sessionsVars
  PROVE  SessionsIInv'
<1>1. CASE \E p \in Procs, s \in Sids :
             \/ Login(p, s) \/ Logout(p, s) \/ GetActiveSessions(p, s) \/ RevokeAllOtherSessions(p, s)
             \/ \E x \in Sids : RevokeSession(p, s, x)
  BY <1>1, LoginStarts, ArrivalKeeps
<1>2. ASSUME NEW p \in Procs, Proceed(p) PROVE SessionsIInv'
  BY <1>2, SetRecordKeeps, SAddKeeps, ExpireListKeeps, LoginEndKeeps, StoreBlacklistKeeps,
     SMembersKeeps, GatherSessionKeeps, DropFromListKeeps, GatheredKeeps, DestroyNextKeeps,
     OthersDoneKeeps, DelRecordKeeps, SRemKeeps, DelTokenKeeps DEF Proceed
<1>3. CASE \E s \in Sids : LoginWithoutSession(s) \/ Expire(s)
  BY <1>3, LoginWithoutSessionKeeps, ExpireKeeps
<1>4. CASE \E u \in Users : ListElapses(u)
  BY <1>4, ListElapsesKeeps
<1>5. CASE UNCHANGED sessionsVars
  <2>1. UNCHANGED <<record, listed, byToken, ttl, blacklist, issued, expired, hidden, req>>
    BY <1>5 DEF sessionsVars
  <2>2. SessionsTypeOK' BY <2>1 DEF SessionsIInv, SessionsTypeOK
  <2>3. LessKept BY <2>1 DEF SessionsIInv, TimesKept, LessKept
  <2> QED BY <2>1, <2>2, <2>3, LessKeeps
<1> QED BY <1>1, <1>2, <1>3, <1>4, <1>5 DEF SessionsNext

\* The state of Redis and of the requests in flight: what LiveListed and
\* OthersRevoked rest on, whoever logs in, lists and revokes at once.
THEOREM SessionsIInvHolds == SessionsSpec => []SessionsIInv
<1>1. SessionsInit => SessionsIInv BY SessionsInitInv
<1>2. SessionsIInv /\ [SessionsNext]_sessionsVars => SessionsIInv' BY SessionsNextInv
<1> QED BY <1>1, <1>2, PTL DEF SessionsSpec

\* SessionRepository.Create stores a session before it lists it and renews the list
\* after, so no listing drops the id of a session that is alive, and the list never
\* expires before it: a live session is one the user sees.
THEOREM LiveAlwaysListed == SessionsSpec => []LiveListed
<1>1. SessionsIInv => LiveListed
  BY DEF SessionsIInv, RecordsListed, LoginsApart, LoggingIn, LiveListed
<1> QED BY <1>1, SessionsIInvHolds, PTL

\* DestroyOtherSessions works through every session the user had when the request
\* came, and gives up rather than skip one: when it reports success, all are ended.
THEOREM OthersAlwaysRevoked == SessionsSpec => []OthersRevoked
<1>1. SessionsIInv => OthersRevoked
  BY DEF SessionsIInv, OthersHeld, HeldBy, Left, StepsFit, StepFits, OthersRevoked, At
<1> QED BY <1>1, SessionsIInvHolds, PTL
=============================================================================
