------------------------------ MODULE Sessions ------------------------------
(***************************************************************************)
(* Sessions of users in Redis and the tokens they stand for: the handlers  *)
(* Login and Logout of internal/handlers/http/user and those of            *)
(* internal/handlers/http/session, over repositories/session and the       *)
(* blacklist in PostgreSQL.                                                *)
(*                                                                         *)
(* A session has three keys: session:<id> (record), its id in the set      *)
(* user_sessions:<user> (listed), and token_session:<token> (byToken).     *)
(* Every session has a token of its own, so a session id stands for both.  *)
(* A pipeline sends its commands together, but Redis may run commands of   *)
(* other clients between them, and when the connection breaks the last of  *)
(* them are not run: each is a step.  Commands that read the same key      *)
(* twice in a row to the same end are one step.                            *)
(*                                                                         *)
(* hidden is a history variable: the sessions that a failed call, or a     *)
(* login at the very end of the list's time to live, can leave off it.     *)
(***************************************************************************)
EXTENDS Integers, Sequences

CONSTANTS
  Procs,   \* requests in flight at once
  Sids,    \* sessions (a bound: ids never run out in the code)
  UserOf,  \* UserOf[s]: the user of session s
  None,
  Faults   \* may calls fail?

ASSUME SessionsAssumption == None \notin Sids /\ Faults \in BOOLEAN

VARIABLES record, listed, byToken, ttl, blacklist, issued, expired, hidden, req

keys == <<record, listed, byToken, ttl>>
sessionsVars == <<record, listed, byToken, ttl, blacklist, issued, expired, hidden, req>>

Idle == [pc |-> "idle", op |-> "none", own |-> None, sid |-> None,
         todo |-> {}, others |-> {}, before |-> {}]

SessionsOf(s) == {x \in Sids : UserOf[x] = UserOf[s]}
Users == {UserOf[s] : s \in Sids}

\* ttl[u] stands for the moment the list of u goes: when the session of its last
\* Expire and those stored before it have expired, or never.
Never == Sids \cup {None}

SessionsInit ==
  /\ record = {} /\ listed = {} /\ byToken = {}
  /\ ttl = [u \in Users |-> Never]
  /\ blacklist = {} /\ issued = {} /\ expired = {} /\ hidden = {}
  /\ req = [p \in Procs |-> Idle]

At(p, pc) == req[p].pc = pc
Goto(p, pc) == req' = [req EXCEPT ![p].pc = pc]
Finish(p) == req' = [req EXCEPT ![p] = Idle]
Begin(p, r) == At(p, "idle") /\ req' = [req EXCEPT ![p] = r]

\* Redis removes a set that has no members, and its time to live with it.
SetList(list) ==
  /\ listed' = list
  /\ ttl' = [u \in Users |-> IF \E s \in list : UserOf[s] = u THEN ttl[u] ELSE Never]

\* AuthMiddleware: a token is accepted until it expires or is blacklisted.
Accepted(s) == s \in issued \ (expired \cup blacklist)

-----------------------------------------------------------------------------
(* Login *)

\* mutant: the id is listed before the session is stored
CreateListsFirst == << "sadd", "setRecord", "expireList", "setToken" >>

\* The pipeline of SessionRepository.Create.
CreateOrder == << "setRecord", "sadd", "expireList", "setToken" >>

Fresh(s) == s \notin issued /\ \A p \in Procs : req[p].own # s

Login(p, s) ==
  /\ Fresh(s)
  /\ Begin(p, [Idle EXCEPT !.op = "login", !.own = s, !.sid = s, !.pc = CreateOrder[1]])
  /\ UNCHANGED <<keys, blacklist, issued, expired, hidden>>

\* LoginWithGoogle, and a Login whose user could not be read again.
LoginWithoutSession(s) ==
  /\ Fresh(s)
  /\ issued' = issued \cup {s}
  /\ UNCHANGED <<keys, blacklist, expired, hidden, req>>

\* The next command, or the answer with the token.
Advance(p) ==
  LET i == CHOOSE i \in DOMAIN CreateOrder : At(p, CreateOrder[i]) IN
  IF i < Len(CreateOrder)
  THEN Goto(p, CreateOrder[i + 1]) /\ UNCHANGED issued
  ELSE Finish(p) /\ issued' = issued \cup {req[p].sid}

SetRecord(p) ==
  /\ At(p, "setRecord")
  /\ record' = record \cup {req[p].sid}
  /\ Advance(p)
  /\ UNCHANGED <<listed, byToken, ttl, blacklist, expired, hidden>>

SAdd(p) ==
  /\ At(p, "sadd")
  /\ listed' = listed \cup {req[p].sid}
  /\ Advance(p)
  /\ UNCHANGED <<record, byToken, ttl, blacklist, expired, hidden>>

ExpireList(p) ==
  /\ At(p, "expireList")
  /\ LET mine == SessionsOf(req[p].sid) IN
       ttl' = IF listed \cap mine = {} THEN ttl
              ELSE [ttl EXCEPT ![UserOf[req[p].sid]] = {req[p].sid} \cup (record \cap mine)]
  /\ Advance(p)
  /\ UNCHANGED <<record, listed, byToken, blacklist, expired, hidden>>

SetToken(p) ==
  /\ At(p, "setToken")
  /\ byToken' = byToken \cup {req[p].sid}
  /\ Advance(p)
  /\ UNCHANGED <<record, listed, ttl, blacklist, expired, hidden>>

\* The connection breaks; Login answers with the token all the same.
CreateBreaks(p) ==
  /\ Faults
  /\ req[p].op = "login"
  /\ issued' = issued \cup {req[p].sid}
  /\ hidden' = hidden \cup {req[p].sid}
  /\ Finish(p)
  /\ UNCHANGED <<keys, blacklist, expired>>

-----------------------------------------------------------------------------
(* The requests of a client that holds the token s *)

\* A session is looked up by its token: both keys are there, and no call fails.
ByToken(s) == s \in byToken \cap record

\* A lookup that ends without a session, by an error if x has one.
Misses(x) == Faults \/ x \notin record

Logout(p, s) ==
  /\ Accepted(s)
  /\ \/ ByToken(s) /\ Begin(p, [Idle EXCEPT !.op = "logout", !.own = s, !.sid = s,
                                            !.pc = "delRecord"])
     \/ (Faults \/ ~ByToken(s)) /\ Begin(p, [Idle EXCEPT !.op = "logout", !.own = s,
                                                         !.pc = "blacklist"])
  /\ UNCHANGED <<keys, blacklist, issued, expired, hidden>>

ToBlacklist(p) == req' = [req EXCEPT ![p].pc = "blacklist", ![p].sid = None]

\* LogoutUser, whatever became of the session.
StoreBlacklist(p) ==
  /\ At(p, "blacklist")
  /\ blacklist' \in {blacklist \cup {req[p].own}} \cup IF Faults THEN {blacklist} ELSE {}
  /\ Finish(p)
  /\ UNCHANGED <<keys, issued, expired, hidden>>

RevokeSession(p, s, x) ==
  /\ Accepted(s)
  /\ x \in record
  /\ UserOf[s] = UserOf[x]
  /\ Begin(p, [Idle EXCEPT !.op = "revoke", !.own = s, !.sid = x, !.pc = "delRecord"])
  /\ UNCHANGED <<keys, blacklist, issued, expired, hidden>>

GetActiveSessions(p, s) ==
  /\ Accepted(s)
  /\ Begin(p, [Idle EXCEPT !.op = "list", !.own = s, !.pc = "smembers"])
  /\ UNCHANGED <<keys, blacklist, issued, expired, hidden>>

\* before: what the user has to lose, for OthersRevoked.
RevokeAllOtherSessions(p, s) ==
  /\ Accepted(s)
  /\ ByToken(s)
  /\ Begin(p, [Idle EXCEPT !.op = "others", !.own = s, !.pc = "smembers",
                           !.before = (issued \cap record \cap SessionsOf(s)) \ {s}])
  /\ UNCHANGED <<keys, blacklist, issued, expired, hidden>>

-----------------------------------------------------------------------------
(* GetByUserID: the ids, then each session; an id without one is dropped.  *)

SMembers(p) ==
  /\ At(p, "smembers")
  /\ \/ req' = [req EXCEPT ![p].todo = (listed \cap SessionsOf(req[p].own)), ![p].pc = "gather"]
     \/ Faults /\ Finish(p)
  /\ UNCHANGED <<keys, blacklist, issued, expired, hidden>>

GatherSession(p) ==
  /\ At(p, "gather")
  /\ \E x \in req[p].todo :
       \/ /\ x \in record
          /\ req' = [req EXCEPT ![p].todo = @ \ {x}, ![p].others = @ \cup ({x} \ {req[p].own})]
          /\ UNCHANGED hidden
       \/ /\ Misses(x)
          /\ req' = [req EXCEPT ![p].todo = @ \ {x}, ![p].sid = x, ![p].pc = "drop"]
          /\ hidden' = hidden \cup (record \cap {x})
  /\ UNCHANGED <<keys, blacklist, issued, expired>>

\* An error of this SRem is ignored.
DropFromList(p) ==
  /\ At(p, "drop")
  /\ \/ SetList(listed \ {req[p].sid})
     \/ Faults /\ UNCHANGED <<listed, ttl>>
  /\ req' = [req EXCEPT ![p].pc = "gather", ![p].sid = None]
  /\ UNCHANGED <<record, byToken, blacklist, issued, expired, hidden>>

\* The list is complete: the answer, or DestroyOtherSessions goes on.
Gathered(p) ==
  /\ At(p, "gather")
  /\ req[p].todo = {}
  /\ IF req[p].op = "list"
     THEN Finish(p)
     ELSE req' = [req EXCEPT ![p].todo = req[p].others, ![p].others = {}, ![p].pc = "destroy"]
  /\ UNCHANGED <<keys, blacklist, issued, expired, hidden>>

\* mutant: a session that cannot be deleted is skipped
SkipMissing(p, x) == req' = [req EXCEPT ![p].todo = @ \ {x}]

GiveUp(p, x) == Finish(p)

DestroyNext(p) ==
  /\ At(p, "destroy")
  /\ \E x \in req[p].todo :
       \/ /\ x \in record
          /\ req' = [req EXCEPT ![p].todo = @ \ {x}, ![p].sid = x, ![p].pc = "delRecord"]
       \/ Misses(x) /\ GiveUp(p, x)
  /\ UNCHANGED <<keys, blacklist, issued, expired, hidden>>

\* "All other sessions revoked successfully"
OthersDone(p) ==
  /\ At(p, "destroy")
  /\ req[p].todo = {}
  /\ Finish(p)
  /\ UNCHANGED <<keys, blacklist, issued, expired, hidden>>

-----------------------------------------------------------------------------
(* The pipeline of SessionRepository.Delete *)

DelRecord(p) ==
  /\ At(p, "delRecord")
  /\ record' = record \ {req[p].sid}
  /\ Goto(p, "srem")
  /\ UNCHANGED <<listed, byToken, ttl, blacklist, issued, expired, hidden>>

SRem(p) ==
  /\ At(p, "srem")
  /\ SetList(listed \ {req[p].sid})
  /\ Goto(p, "delToken")
  /\ UNCHANGED <<record, byToken, blacklist, issued, expired, hidden>>

DelToken(p) ==
  /\ At(p, "delToken")
  /\ byToken' = byToken \ {req[p].sid}
  /\ CASE req[p].op = "logout" -> ToBlacklist(p)
       [] req[p].op = "revoke" -> Finish(p)
       [] req[p].op = "others" -> req' = [req EXCEPT ![p].pc = "destroy", ![p].sid = None]
  /\ UNCHANGED <<record, listed, ttl, blacklist, issued, expired, hidden>>

DeleteBreaks(p) ==
  /\ Faults
  /\ req[p].pc \in {"delRecord", "srem", "delToken"}
  /\ IF req[p].op = "logout" THEN ToBlacklist(p) ELSE Finish(p)
  /\ UNCHANGED <<keys, blacklist, issued, expired, hidden>>

-----------------------------------------------------------------------------
(* Time.  The token and the keys of a session have the same time to live;  *)
(* a request in flight is over before what it stores expires.              *)

Expire(s) ==
  /\ s \in issued \ expired
  /\ expired' = expired \cup {s}
  /\ record' = record \ {s}
  /\ byToken' = byToken \ {s}
  /\ UNCHANGED <<listed, ttl, blacklist, issued, hidden, req>>

ListElapses(u) ==
  LET mine == {s \in listed : UserOf[s] = u} IN
  /\ ttl[u] \subseteq expired
  /\ mine # {}
  /\ SetList(listed \ mine)
  /\ hidden' = hidden \cup {s \in mine : \E p \in Procs : At(p, "expireList") /\ req[p].sid = s}
  /\ UNCHANGED <<record, byToken, blacklist, issued, expired, req>>

-----------------------------------------------------------------------------
Proceed(p) ==
  \/ SetRecord(p) \/ SAdd(p) \/ ExpireList(p) \/ SetToken(p) \/ CreateBreaks(p)
  \/ StoreBlacklist(p)
  \/ SMembers(p) \/ GatherSession(p) \/ DropFromList(p) \/ Gathered(p)
  \/ DestroyNext(p) \/ OthersDone(p)
  \/ DelRecord(p) \/ SRem(p) \/ DelToken(p) \/ DeleteBreaks(p)

SessionsNext ==
  \/ \E p \in Procs, s \in Sids :
       \/ Login(p, s) \/ Logout(p, s) \/ GetActiveSessions(p, s) \/ RevokeAllOtherSessions(p, s)
       \/ \E x \in Sids : RevokeSession(p, s, x)
  \/ \E p \in Procs : Proceed(p)
  \/ \E s \in Sids :
       LoginWithoutSession(s) \/ Expire(s)
  \/ \E u \in Users : ListElapses(u)

SessionsSpec == SessionsInit /\ [][SessionsNext]_sessionsVars

-----------------------------------------------------------------------------
(* Properties *)

Steps == {"idle", "setRecord", "sadd", "expireList", "setToken", "blacklist", "smembers",
          "gather", "drop", "destroy", "delRecord", "srem", "delToken"}

Request ==
  [pc : Steps, op : {"none", "login", "logout", "revoke", "list", "others"},
   own : Sids \cup {None}, sid : Sids \cup {None},
   todo : SUBSET Sids, others : SUBSET Sids, before : SUBSET Sids]

\* The state of Redis, of the blacklist and of the requests in flight.
SessionsTypeOK ==
  /\ \A keySet \in {record, listed, byToken, blacklist, issued, hidden} : keySet \subseteq Sids
  /\ expired \subseteq issued
  /\ ttl \in [Users -> SUBSET Never]
  /\ req \in [Procs -> Request]

\* A session that is alive is on the list of its user, where the user sees it and
\* can end it, whatever logins, listings and revocations overlapped and however
\* often the list expired: only a failed call, or a login caught at the end of
\* the list's time to live, leaves one off.  The order of the commands of Create
\* and the Expire it renews the list with are what this rests on, since
\* GetByUserID takes an id without a session off the list.
LiveListed ==
  /\ SessionsTypeOK
  /\ (record \cap issued) \ hidden \subseteq listed

\* What RevokeAllOtherSessions has yet to end while it works through the list:
\* every session of the user that was alive when the request came, but those
\* off the list for the reasons above.  So when it reports success, none is left.
OthersRevoked ==
  \A p \in Procs : At(p, "destroy") =>
    (req[p].before \cap record) \ hidden \subseteq req[p].todo
=============================================================================
