---------------------------- MODULE AdminProofs ----------------------------
(***************************************************************************)
(* Proofs about AdminLists and AdminForms, for any number of records and   *)
(* pages, of loads, requests and members.  The rows of a list are true     *)
(* because every row that is not has a change under way that will mend it, *)
(* unless a request has overtaken another; the forms, because the parts of *)
(* a submission that are no longer to be sent have been written.           *)
(***************************************************************************)
EXTENDS AdminLists, AdminForms, SequenceTheorems, FiniteSetTheorems, TLAPS

(* The lists *)

Waits(c, r, what) == c.id = r /\ c.what = what
Done(r, what) == \E i \in DOMAIN changes : Waits(changes[i], r, what) /\ changes[i].served

\* A row differs from its record, or from there being one, just while the answer of
\* the change that made it differ is awaited.
RowFits(r) ==
  /\ rows[r] = active[r] <=> ~Done(r, "switch")
  /\ r \in existing \/ Done(r, "delete")

\* So may a row of a load that was read before the change.
GotFits(got) ==
  \A r \in DOMAIN got.rows :
    /\ got.rows[r] = active[r] \/ Done(r, "switch")
    /\ r \in existing \/ Done(r, "delete")

Read(i) == fetches[i].got # Unread

Query == [page : Int, by : SUBSET Narrowings]
Rows == UNION {[shown -> BOOLEAN] : shown \in SUBSET Records}
Answer == [rows : Rows, pages : Int]
Fetch == [query : Query, got : Answer \cup {Unread}, clean : BOOLEAN]
Changing ==
  [id : Records, what : {"delete", "switch"}, to : BOOLEAN, found : BOOLEAN, served : BOOLEAN]

ListsTypeOK ==
  /\ listKind \in ListKinds /\ query \in Query
  /\ existing \in SUBSET Records /\ active \in [Records -> BOOLEAN]
  /\ rows \in Rows /\ pages \in Int
  /\ fetches \in Seq(Fetch) /\ changes \in Seq(Changing)

\* Two switches of one menu do not overlap, and each asks for what its menu is not,
\* until the server does it.
SwitchesApart ==
  \A i \in DOMAIN changes : changes[i].what = "switch" =>
    /\ \A j \in DOMAIN changes : Waits(changes[j], changes[i].id, "switch") => i = j
    /\ changes[i].served <=> active[changes[i].id] = changes[i].to

\* A clean load shows what the records are.
CleanTrue ==
  \A i \in DOMAIN fetches : fetches[i].clean /\ Read(i) =>
    \A r \in DOMAIN fetches[i].got.rows :
      r \in existing /\ fetches[i].got.rows[r] = active[r]

RowsFit ==
  /\ \A r \in DOMAIN rows : RowFits(r)
  /\ \A i \in DOMAIN fetches : Read(i) => GotFits(fetches[i].got)

\* The newest load is of the question the page shows.
NewestAsked ==
  IF fetches = <<>> THEN answers = query ELSE fetches[Len(fetches)].query = query

ListsIInv ==
  /\ ListsTypeOK /\ CleanTrue
  /\ ~crossed => SwitchesApart /\ RowsFit
  /\ ~crossed /\ ~error => NewestAsked

(* The forms *)

\* What the server asks of a record, each where the form has it.
Required == {"permissions", "menus", "role"} \cap Parts(kind)

\* The parts of a submission that are still to be sent, and of them those that will
\* be written.
ToSend(s) == UNION {s[i] : i \in 1..Len(s)}
ToWrite(s) == {p \in ToSend(s.steps) : ~Keeps(s, p)}

\* What is still sent, by the page that is shown and by those that are gone.
UnderWay == {s \in {Submission} \cup Range(left) : s.steps # <<>>}
Pending == UNION {ToWrite(s) : s \in UnderWay}

Submitted == [steps : Seq(SUBSET Parts(kind)), sent : Contents(kind), new : BOOLEAN]
Going == {s \in Submitted : s.steps # <<>>}
Loading == [form : Contents(kind), members : Nat] \cup {Unserved}

FormsTypeOK ==
  /\ kind \in Kinds
  /\ new \in BOOLEAN /\ others \in BOOLEAN /\ exists \in BOOLEAN /\ broken \in BOOLEAN
  /\ rights \subseteq Parts(kind)
  /\ kind # "role" => rights = Parts(kind)
  /\ record \in Contents(kind) /\ form \in Contents(kind)
  /\ sent \in Contents(kind) /\ was \in Contents(kind)
  /\ steps \in Seq(SUBSET Parts(kind)) /\ left \in Seq(Going)
  /\ members \in Nat
  /\ loads \in Seq(Loading)

\* Success is told when everything was sent, and what was sent is written, or left.
PartsWritten ==
  /\ ~exists => new
  /\ told = "saved" => steps = <<>>
  /\ ToSend(steps) \subseteq rights
  /\ "parent" \in ToSend(steps) => sent["parent"] # 0
  /\ steps # <<>> \/ told = "saved" => others \/
       \A p \in Parts(kind) :
         /\ p \notin rights \/ Withheld(p) => record[p] = was[p]
         /\ p \in rights \ ToSend(steps) /\ ~Withheld(p) => record[p] = sent[p]

\* What the server asks for is in the record, or on its way.
RequiredComes ==
  ~broken =>
    /\ \A s \in UnderWay : \A p \in Required : s.sent[p] # 0
    /\ ~exists => \A s \in UnderWay : Required \subseteq ToWrite(s)
    /\ exists => \A p \in Required \ Pending : record[p] # 0

FormsIInv == FormsTypeOK /\ PartsWritten /\ RequiredComes

\* All that the form itself and its loads leave alone.
beside == <<kind, rights, assigns, new, exists, record, steps, sent, was, left, others, broken>>

-----------------------------------------------------------------------------
(* What both need of sequences                                             *)

LEMMA Removed ==
  ASSUME NEW S, NEW s \in Seq(S), NEW i \in 1..Len(s)
  PROVE  /\ RemoveAt(s, i) \in Seq(S)
         /\ Len(RemoveAt(s, i)) = Len(s) - 1
         /\ \A j \in 1..(Len(s) - 1) : RemoveAt(s, i)[j] = s[IF j < i THEN j ELSE j + 1]
<1> DEFINE before == SubSeq(s, 1, i - 1)
           after == SubSeq(s, i + 1, Len(s))
           both == before \o after
<1>1. /\ before \in Seq(S) /\ Len(before) = i - 1
      /\ \A j \in 1..(i - 1) : before[j] = s[j]
  BY SubSeqProperties
<1>2. /\ after \in Seq(S) /\ Len(after) = Len(s) - i
      /\ \A j \in 1..(Len(s) - i) : after[j] = s[i + j]
  BY SubSeqProperties
<1>3. both \in Seq(S) /\ Len(both) = Len(s) - 1
  <2> HIDE DEF before, after
  <2>1. both \in Seq(S) /\ Len(both) = Len(before) + Len(after)
    BY <1>1, <1>2, ConcatProperties
  <2>2. Len(s) \in Nat OBVIOUS
  <2> HIDE DEF both
  <2> QED BY <1>1, <1>2, <2>1, <2>2
<1>4. \A j \in 1..(Len(s) - 1) : both[j] = IF j <= i - 1 THEN before[j] ELSE after[j - (i - 1)]
  <2> HIDE DEF before, after
  <2>1. Len(s) \in Nat OBVIOUS
  <2> QED BY <1>1, <1>2, <2>1, ConcatProperties
<1>5. ASSUME NEW j \in 1..(Len(s) - 1)
      PROVE  both[j] = s[IF j < i THEN j ELSE j + 1]
  <2> HIDE DEF before, after, both
  <2>1. CASE j < i BY <1>1, <1>4, <2>1
  <2>2. CASE ~(j < i)
    <3>1. both[j] = after[j - (i - 1)] BY <1>4, <2>2
    <3>2. j - (i - 1) \in 1..(Len(s) - i) /\ i + (j - (i - 1)) = j + 1 BY <2>2
    <3> QED BY <1>2, <2>2, <3>1, <3>2
  <2> QED BY <2>1, <2>2
<1> QED BY <1>3, <1>5, Zenon DEF RemoveAt

LEMMA ChangedAt ==
  ASSUME NEW S, NEW s \in Seq(S), NEW i \in DOMAIN s, NEW x \in S,
         NEW t, t = [s EXCEPT ![i] = x]
  PROVE  /\ t \in Seq(S) /\ Len(t) = Len(s) /\ DOMAIN t = DOMAIN s
         /\ t[i] = x /\ \A j \in DOMAIN s : j # i => t[j] = s[j]
OBVIOUS

LEMMA NoneLeft == ASSUME NEW S, NEW s \in Seq(S) PROVE s = <<>> <=> Len(s) = 0
OBVIOUS

-----------------------------------------------------------------------------
(* The lists                                                               *)

LEMMA PageTrue ==
  ASSUME ListsAssumption, ListsTypeOK, NEW q
  PROVE  /\ Page(q) \in Answer
         /\ \A r \in DOMAIN Page(q).rows : r \in existing /\ Page(q).rows[r] = active[r]
<1> DEFINE found == Matching(q)
           cut == {s \in found : Cardinality({t \in found : t < s}) \div PageSize = q.page - 1}
           shown == cut \ Concealed
           n == PageCount(Cardinality(found) - Cardinality(cut \cap Concealed))
<1>1. existing \subseteq Records /\ \A r \in existing : active[r] \in BOOLEAN
  BY DEF ListsTypeOK
<1>2. found \subseteq existing BY DEF Matching
<1>3. Cardinality(found) \in Nat /\ Cardinality(cut \cap Concealed) \in Nat
  <2>1. IsFiniteSet(Records) BY FS_Interval DEF ListsAssumption, Records
  <2>2. cut \cap Concealed \subseteq Records BY <1>1, <1>2
  <2> QED BY <1>1, <1>2, <2>1, <2>2, FS_Subset, FS_CardinalityType
<1>4. n \in Int
  <2> HIDE DEF found, cut
  <2>1. Cardinality(found) - Cardinality(cut \cap Concealed) \in Int BY <1>3
  <2> QED BY <2>1 DEF ListsAssumption, PageCount
<1>5. Page(q) = [rows |-> [r \in shown |-> active[r]], pages |-> n]
  BY DEF Page
<1>6. shown \subseteq existing BY <1>2
<1> HIDE DEF found, cut, shown, n
<1>7. [r \in shown |-> active[r]] \in Rows BY <1>1, <1>6 DEF Rows
<1> QED BY <1>4, <1>5, <1>6, <1>7 DEF Answer

LEMMA AskKeeps ==
  ASSUME ListsIInv, NEW q \in Query, NEW changed, Ask(q, changed),
         q = query \/ changed \intersect Deps # {}
  PROVE  ListsIInv'
<1>1. /\ query' = q /\ Effect(changed)
      /\ UNCHANGED <<listKind, existing, active, rows, pages, changes, answers, crossed>>
      /\ ListsTypeOK
  BY DEF Ask, records, ListsIInv
<1>2. CASE changed \intersect Deps = {}
  <2>1. UNCHANGED <<listKind, existing, active, query, rows, pages, changes, answers, crossed, fetches, error>>
    BY <1>1, <1>2 DEF Effect
  <2> QED BY <2>1 DEF ListsIInv, ListsTypeOK, CleanTrue, Read, SwitchesApart, Waits, RowsFit,
                      RowFits, GotFits, Done, NewestAsked
<1>3. CASE changed \intersect Deps # {}
  <2> DEFINE f == [query |-> q, got |-> Unread, clean |-> TRUE]
  <2>1. fetches' = Append(fetches, f) /\ error' = FALSE
    BY <1>1, <1>3 DEF Effect
  <2>2. f \in Fetch /\ f.got = Unread /\ f.query = q BY DEF Fetch
  <2> HIDE DEF f
  <2>3. /\ fetches' \in Seq(Fetch) /\ Len(fetches') = Len(fetches) + 1
        /\ \A i \in 1..Len(fetches) : fetches'[i] = fetches[i]
        /\ fetches'[Len(fetches) + 1] = f
    BY <1>1, <2>1, <2>2, AppendProperties DEF ListsTypeOK
  <2>4. Len(fetches) \in Nat /\ DOMAIN fetches = 1..Len(fetches) /\ DOMAIN fetches' = 1..(Len(fetches) + 1)
    BY <1>1, <2>3 DEF ListsTypeOK
  <2>5. \A i \in DOMAIN fetches' : (i \in DOMAIN fetches /\ fetches'[i] = fetches[i]) \/ ~Read(i)'
    BY <2>2, <2>3, <2>4 DEF Read
  <2>6. ListsTypeOK' BY <1>1, <2>3 DEF ListsTypeOK
  <2>7. CleanTrue' BY <1>1, <2>5 DEF ListsIInv, CleanTrue, Read
  <2>8. (~crossed => SwitchesApart /\ RowsFit)'
    <3>1. SwitchesApart => SwitchesApart' BY <1>1 DEF SwitchesApart, Waits
    <3>2. RowsFit => RowsFit'
      BY <1>1, <2>5 DEF RowsFit, RowFits, GotFits, Read, Done, Waits
    <3> QED BY <1>1, <3>1, <3>2 DEF ListsIInv
  <2>9. NewestAsked' BY <1>1, <2>2, <2>3, <2>4 DEF NewestAsked
  <2> QED BY <2>6, <2>7, <2>8, <2>9 DEF ListsIInv
<1> QED BY <1>2, <1>3

LEMMA QuestionKeeps ==
  ASSUME ListsIInv, TurnPage \/ Search \/ FilterRole \/ SwitchListLanguage
  PROVE  ListsIInv'
<1>1. ListsTypeOK BY DEF ListsIInv
<1>2. {"page", "search"} \subseteq Deps /\ (listKind = "users" => "role" \in Deps)
  BY <1>1 DEF ListsTypeOK, ListKinds, Deps, RoleListDeps, TenantListDeps, UserListDeps, MenuListDeps
<1>3. query \in Query /\ query.by \subseteq Narrowings BY <1>1 DEF ListsTypeOK, Query
<1>4. CASE TurnPage
  <2>1. [query EXCEPT !.page = @ - 1] \in Query /\ [query EXCEPT !.page = @ + 1] \in Query
    BY <1>3 DEF Query
  <2> QED BY <1>2, <1>4, <2>1, AskKeeps DEF TurnPage
<1>5. CASE Search
  <2>1. PICK by \in {query.by \cup {"search"}, query.by \ {"search"}} :
          Ask([page |-> 1, by |-> by], IF [page |-> 1, by |-> by] = query THEN {} ELSE {"search"})
    BY <1>5 DEF Search
  <2>2. [page |-> 1, by |-> by] \in Query BY <1>3 DEF Query, Narrowings
  <2> QED BY <1>2, <2>1, <2>2, AskKeeps
<1>6. CASE FilterRole
  <2>1. PICK by \in {query.by \cup {"role"}, query.by \ {"role"}} :
          listKind = "users" /\ Ask([page |-> 1, by |-> by], {"role"})
    BY <1>6 DEF FilterRole
  <2>2. [page |-> 1, by |-> by] \in Query BY <1>3 DEF Query, Narrowings
  <2> QED BY <1>2, <2>1, <2>2, AskKeeps
<1>7. CASE SwitchListLanguage BY <1>3, <1>7, AskKeeps DEF SwitchListLanguage
<1> QED BY <1>4, <1>5, <1>6, <1>7

LEMMA FetchReadKeeps ==
  ASSUME ListsAssumption, ListsIInv, NEW i \in DOMAIN fetches, FetchRead(i)
  PROVE  ListsIInv'
<1>1. /\ fetches' = [fetches EXCEPT ![i].got = Page(fetches[i].query), ![i].clean = (changes = <<>>)]
      /\ UNCHANGED <<listKind, existing, active, query, rows, pages, error, answers, changes, crossed>>
      /\ ListsTypeOK
  BY DEF FetchRead, list, records, ListsIInv
<1>2. PICK page : page = Page(fetches[i].query) OBVIOUS
<1>3. page \in Answer /\ \A r \in DOMAIN page.rows : r \in existing /\ page.rows[r] = active[r]
  BY <1>1, <1>2, PageTrue
<1>4. /\ fetches \in Seq(Fetch) /\ DOMAIN fetches = 1..Len(fetches) /\ fetches[i] \in Fetch
  BY <1>1 DEF ListsTypeOK
<1>5. PICK f \in Fetch : /\ f.query = fetches[i].query /\ f.got = page
                       /\ fetches' = [fetches EXCEPT ![i] = f]
  <2>1. PICK clean \in BOOLEAN : clean = (changes = <<>>) OBVIOUS
  <2>2. PICK f : f = [fetches[i] EXCEPT !.got = page, !.clean = clean] OBVIOUS
  <2>3. f \in Fetch /\ f.query = fetches[i].query /\ f.got = page BY <1>3, <1>4, <2>2 DEF Fetch
  <2>4. fetches' = [fetches EXCEPT ![i] = f] BY <1>1, <1>2, <2>1, <2>2
  <2> QED BY <2>3, <2>4
<1>7. /\ fetches' \in Seq(Fetch) /\ Len(fetches') = Len(fetches) /\ DOMAIN fetches' = DOMAIN fetches
      /\ fetches'[i] = f /\ \A j \in DOMAIN fetches : j # i => fetches'[j] = fetches[j]
  BY <1>4, <1>5, ChangedAt
<1>8. ListsTypeOK' BY <1>1, <1>7 DEF ListsTypeOK
<1>9. CleanTrue'
  <2> SUFFICES ASSUME NEW j \in DOMAIN fetches, fetches'[j].clean, Read(j)',
                      NEW r \in DOMAIN fetches'[j].got.rows
               PROVE  r \in existing /\ fetches'[j].got.rows[r] = active[r]
    BY <1>1, <1>7 DEF CleanTrue
  <2>1. CASE j = i BY <1>3, <1>5, <1>7, <2>1
  <2>2. CASE j # i
    <3>1. fetches'[j] = fetches[j] BY <1>7, <2>2
    <3> QED BY <3>1 DEF ListsIInv, CleanTrue, Read
  <2> QED BY <2>1, <2>2
<1>10. RowsFit => RowsFit'
  <2> SUFFICES ASSUME RowsFit, NEW j \in DOMAIN fetches, Read(j)'
               PROVE  GotFits(fetches[j].got)'
    BY <1>1, <1>7 DEF RowsFit, RowFits, Done
  <2>1. CASE j = i BY <1>1, <1>3, <1>5, <1>7, <2>1 DEF GotFits, Done
  <2>2. CASE j # i
    <3>1. fetches'[j] = fetches[j] BY <1>7, <2>2
    <3>2. GotFits(fetches[j].got) BY <3>1 DEF RowsFit, Read
    <3>3. \A x, w : Done(x, w)' <=> Done(x, w) BY <1>1 DEF Done, Waits
    <3> QED BY <1>1, <3>1, <3>2, <3>3 DEF GotFits
  <2> QED BY <2>1, <2>2
<1>11. SwitchesApart => SwitchesApart' BY <1>1 DEF SwitchesApart, Waits
<1>12. NewestAsked => NewestAsked'
  <2>1. \A j \in DOMAIN fetches : fetches'[j].query = fetches[j].query BY <1>5, <1>7
  <2>2. Len(fetches) \in Nat /\ (fetches = <<>> <=> Len(fetches) = 0)
        /\ (fetches' = <<>> <=> Len(fetches) = 0)
    BY <1>4, <1>7, NoneLeft
  <2> QED BY <1>1, <1>4, <1>7, <2>1, <2>2 DEF NewestAsked
<1> QED BY <1>1, <1>8, <1>9, <1>10, <1>11, <1>12 DEF ListsIInv

\* An answer that nothing has overtaken.
LEMMA FetchAnsweredKeeps ==
  ASSUME ListsIInv, NEW i \in DOMAIN fetches, FetchAnswered(i)
  PROVE  ListsIInv'
<1> DEFINE f == fetches[i]
<1>1. /\ f.got # Unread
      /\ rows' = f.got.rows /\ pages' = f.got.pages /\ answers' = f.query
      /\ fetches' = RemoveAt(fetches, i)
      /\ crossed' = \/ i > 1 \/ TwiceDone(f.got)
                    \/ crossed /\ ~(f.clean /\ f.query = query /\ fetches = <<f>> /\ changes = <<>>)
      /\ UNCHANGED <<listKind, existing, active, query, error, changes>>
      /\ ListsTypeOK
  BY DEF FetchAnswered, records, ListsIInv
<1>2. /\ fetches \in Seq(Fetch) /\ DOMAIN fetches = 1..Len(fetches) /\ f \in Fetch
      /\ f.got \in Answer /\ Len(fetches) \in Nat
  <2>1. /\ fetches \in Seq(Fetch) /\ DOMAIN fetches = 1..Len(fetches) /\ f \in Fetch
        /\ Len(fetches) \in Nat
    BY <1>1 DEF ListsTypeOK
  <2>2. f.got \in Answer \cup {Unread} BY <2>1 DEF Fetch
  <2> QED BY <1>1, <2>1, <2>2
<1> HIDE DEF f
<1>3. /\ fetches' \in Seq(Fetch) /\ Len(fetches') = Len(fetches) - 1
      /\ DOMAIN fetches' = 1..(Len(fetches) - 1)
      /\ \A j \in DOMAIN fetches' : fetches'[j] = fetches[IF j < i THEN j ELSE j + 1]
  <2>1. i \in 1..Len(fetches) BY <1>2
  <2>2. /\ RemoveAt(fetches, i) \in Seq(Fetch) /\ Len(RemoveAt(fetches, i)) = Len(fetches) - 1
        /\ \A j \in 1..(Len(fetches) - 1) :
             RemoveAt(fetches, i)[j] = fetches[IF j < i THEN j ELSE j + 1]
    BY <1>2, <2>1, Removed
  <2>3. DOMAIN fetches' = 1..Len(fetches') BY <1>1, <2>2
  <2> QED BY <1>1, <2>2, <2>3
<1>4. \A j \in DOMAIN fetches' : \E k \in DOMAIN fetches : fetches'[j] = fetches[k]
  <2> SUFFICES ASSUME NEW j \in DOMAIN fetches' PROVE \E k \in DOMAIN fetches : fetches'[j] = fetches[k]
    OBVIOUS
  <2>1. (IF j < i THEN j ELSE j + 1) \in DOMAIN fetches BY <1>2, <1>3
  <2> QED BY <1>3, <2>1
<1>5. ListsTypeOK' BY <1>1, <1>2, <1>3 DEF ListsTypeOK, Answer
<1>6. CleanTrue'
  BY <1>1, <1>4 DEF ListsIInv, CleanTrue, Read
<1>7. ASSUME ~crossed' PROVE SwitchesApart' /\ RowsFit'
  <2>1. i = 1 /\ ~TwiceDone(f.got)
        /\ (crossed => f.clean /\ f.query = query /\ fetches = <<f>> /\ changes = <<>>)
    BY <1>1, <1>2, <1>7
  <2>2. CASE crossed
    <3>1. changes = <<>> /\ fetches' = <<>> BY <1>2, <1>3, <2>1, <2>2, NoneLeft
    <3>2. SwitchesApart' BY <1>1, <3>1 DEF SwitchesApart
    <3>3. \A r \in DOMAIN rows' : r \in existing /\ rows'[r] = active[r]
      BY <1>1, <2>1, <2>2 DEF ListsIInv, CleanTrue, Read, f
    <3>4. \A r, what : ~Done(r, what)' BY <1>1, <3>1 DEF Done
    <3> QED BY <1>1, <3>1, <3>2, <3>3, <3>4 DEF RowsFit, RowFits
  <2>3. CASE ~crossed
    <3>1. SwitchesApart /\ RowsFit BY <2>3 DEF ListsIInv
    <3>2. SwitchesApart' BY <1>1, <3>1 DEF SwitchesApart, Waits
    <3>3. \A j \in DOMAIN fetches' : Read(j)' => GotFits(fetches[j].got)'
      BY <1>1, <1>4, <3>1 DEF RowsFit, GotFits, Read, Done, Waits
    <3>4. ASSUME NEW r \in DOMAIN rows' PROVE RowFits(r)'
      <4>1. /\ rows'[r] = active[r] \/ Done(r, "switch")
            /\ r \in existing \/ Done(r, "delete")
        BY <1>1, <3>1, <3>4 DEF RowsFit, GotFits, Read, f
      <4>2. ASSUME Done(r, "switch") PROVE rows'[r] # active[r]
        <5>1. PICK j \in DOMAIN changes : Waits(changes[j], r, "switch") /\ changes[j].served
          BY <4>2 DEF Done
        <5>2. active[r] = changes[j].to
          BY <3>1, <4>2, <5>1 DEF SwitchesApart, Waits
        <5>3. changes[j] \in Range(changes) BY DEF Range
        <5>4. rows'[r] # changes[j].to
          BY <1>1, <2>1, <3>4, <5>1, <5>3 DEF TwiceDone, Waits
        <5> QED BY <5>2, <5>4
      <4> QED BY <1>1, <4>1, <4>2 DEF RowFits, Done, Waits
    <3> QED BY <3>2, <3>3, <3>4 DEF RowsFit
  <2> QED BY <2>2, <2>3
<1>8. ASSUME ~crossed', ~error' PROVE NewestAsked'
  <2>1. i = 1 BY <1>1, <1>2, <1>8
  <2>2. f.query = query \/ fetches' # <<>>
    <3>1. CASE crossed BY <1>1, <1>8, <3>1
    <3>2. CASE ~crossed
      <4>1. NewestAsked BY <1>1, <1>8, <3>2 DEF ListsIInv
      <4>2. ASSUME fetches' = <<>> PROVE Len(fetches) = 1 BY <1>2, <1>3, <4>2
      <4>3. fetches # <<>> BY <1>2, NoneLeft
      <4> QED BY <2>1, <4>1, <4>2, <4>3 DEF NewestAsked, f
    <3> QED BY <3>1, <3>2
  <2>3. ASSUME fetches' # <<>> PROVE fetches'[Len(fetches')].query = query
    <3>1. Len(fetches') > 0 BY <1>2, <1>3, <2>3, NoneLeft
    <3>2. ~crossed
      <4>1. fetches # <<f>> BY <1>2, <1>3, <3>1
      <4> QED BY <1>1, <1>8, <4>1
    <3>3. NewestAsked /\ fetches # <<>> BY <1>1, <1>2, <1>8, <3>2, NoneLeft DEF ListsIInv
    <3>4. fetches'[Len(fetches')] = fetches[Len(fetches)] BY <1>2, <1>3, <2>1, <3>1
    <3> QED BY <3>3, <3>4 DEF NewestAsked
  <2> QED BY <1>1, <2>2, <2>3 DEF NewestAsked
<1> QED BY <1>5, <1>6, <1>7, <1>8 DEF ListsIInv

LEMMA FetchFailedKeeps ==
  ASSUME ListsIInv, NEW i \in DOMAIN fetches, FetchFailed(i)
  PROVE  ListsIInv'
<1>1. /\ error' = TRUE /\ fetches' = RemoveAt(fetches, i)
      /\ UNCHANGED <<listKind, existing, active, query, rows, pages, changes, answers, crossed>>
      /\ ListsTypeOK
  BY DEF FetchFailed, records, ListsIInv
<1>2. fetches \in Seq(Fetch) /\ i \in 1..Len(fetches) /\ Len(fetches) \in Nat
  BY <1>1 DEF ListsTypeOK
<1>3. /\ fetches' \in Seq(Fetch) /\ DOMAIN fetches' = 1..(Len(fetches) - 1)
      /\ \A j \in DOMAIN fetches' : fetches'[j] = fetches[IF j < i THEN j ELSE j + 1]
  <2>1. /\ RemoveAt(fetches, i) \in Seq(Fetch) /\ Len(RemoveAt(fetches, i)) = Len(fetches) - 1
        /\ \A j \in 1..(Len(fetches) - 1) :
             RemoveAt(fetches, i)[j] = fetches[IF j < i THEN j ELSE j + 1]
    BY <1>2, Removed
  <2>2. DOMAIN fetches' = 1..Len(fetches') BY <1>1, <2>1
  <2> QED BY <1>1, <2>1, <2>2
<1>4. \A j \in DOMAIN fetches' : \E k \in DOMAIN fetches : fetches'[j] = fetches[k]
  <2> SUFFICES ASSUME NEW j \in DOMAIN fetches' PROVE \E k \in DOMAIN fetches : fetches'[j] = fetches[k]
    OBVIOUS
  <2>1. (IF j < i THEN j ELSE j + 1) \in DOMAIN fetches BY <1>2, <1>3
  <2> QED BY <1>3, <2>1
<1>5. ListsTypeOK' BY <1>1, <1>3 DEF ListsTypeOK
<1>6. CleanTrue' BY <1>1, <1>4 DEF ListsIInv, CleanTrue, Read
<1>7. SwitchesApart => SwitchesApart' BY <1>1 DEF SwitchesApart, Waits
<1>8. RowsFit => RowsFit'
  BY <1>1, <1>4 DEF RowsFit, RowFits, GotFits, Read, Done, Waits
<1> QED BY <1>1, <1>5, <1>6, <1>7, <1>8 DEF ListsIInv

-----------------------------------------------------------------------------
(* Deletions and switches                                                  *)

LEMMA ChangeKeeps ==
  ASSUME ListsIInv, NEW r \in Records, Delete(r) \/ ToggleStatus(r)
  PROVE  ListsIInv'
<1>1. PICK what \in {"delete", "switch"}, to \in BOOLEAN :
        /\ r \in DOMAIN rows
        /\ changes' = Append(changes, [id |-> r, what |-> what, to |-> to, found |-> FALSE, served |-> FALSE])
        /\ UNCHANGED <<listKind, existing, active, query, rows, pages, error, answers, fetches>>
        /\ what = "delete" => UNCHANGED crossed
        /\ what = "switch" =>
             /\ to = ~rows[r]
             /\ crossed' = (crossed \/ \E c \in Range(changes) : c.what = "switch" /\ c.id = r)
  <2>1. CASE Delete(r)
    BY <2>1 DEF Delete, Change, list, records
  <2>2. CASE ToggleStatus(r)
    <3>1. (~rows[r]) \in BOOLEAN OBVIOUS
    <3> QED BY <2>2, <3>1 DEF ToggleStatus, Change, list, records
  <2> QED BY <2>1, <2>2
<1>2. PICK c : c = [id |-> r, what |-> what, to |-> to, found |-> FALSE, served |-> FALSE] OBVIOUS
<1>3. c \in Changing /\ c.id = r /\ c.what = what /\ c.to = to /\ c.served = FALSE
  BY <1>2 DEF Changing
<1>4. /\ ListsTypeOK /\ changes \in Seq(Changing) /\ DOMAIN changes = 1..Len(changes)
      /\ Len(changes) \in Nat
  BY DEF ListsIInv, ListsTypeOK
<1>5. /\ changes' \in Seq(Changing) /\ DOMAIN changes' = 1..(Len(changes) + 1)
      /\ \A i \in DOMAIN changes : changes'[i] = changes[i]
      /\ changes'[Len(changes) + 1] = c
  <2>1. changes' = Append(changes, c) BY <1>1, <1>2
  <2>2. /\ changes' \in Seq(Changing) /\ Len(changes') = Len(changes) + 1
        /\ \A i \in 1..Len(changes) : changes'[i] = changes[i]
        /\ changes'[Len(changes) + 1] = c
    BY <1>3, <1>4, <2>1, AppendProperties
  <2>3. DOMAIN changes' = 1..Len(changes') BY <2>2
  <2> QED BY <1>4, <2>2, <2>3
<1>6. DOMAIN changes' = DOMAIN changes \cup {Len(changes) + 1} /\ Len(changes) + 1 \notin DOMAIN changes
  BY <1>4, <1>5
<1> HIDE <1>2
<1>7. ListsTypeOK' BY <1>1, <1>4, <1>5 DEF ListsTypeOK
<1>8. CleanTrue' BY <1>1 DEF ListsIInv, CleanTrue, Read
<1>9. \A x, w : Done(x, w)' <=> Done(x, w)
  BY <1>3, <1>5, <1>6 DEF Done, Waits
<1>10. RowsFit => RowsFit'
  BY <1>1, <1>9 DEF RowsFit, RowFits, GotFits, Read
<1>11. ASSUME ~crossed', ~crossed PROVE SwitchesApart'
  <2>1. SwitchesApart /\ RowsFit BY <1>11 DEF ListsIInv
  <2>2. what = "switch" => \A i \in DOMAIN changes : ~Waits(changes[i], r, "switch")
    BY <1>1, <1>11 DEF Range, Waits
  <2>3. ASSUME what = "switch" PROVE active[r] # to
    <3>1. ~Done(r, "switch") BY <2>2, <2>3 DEF Done
    <3>2. rows[r] = active[r] BY <1>1, <2>1, <2>3, <3>1 DEF RowsFit, RowFits
    <3>3. to = ~rows[r] /\ rows[r] \in BOOLEAN BY <1>1, <1>4, <2>3 DEF ListsTypeOK, Rows
    <3> QED BY <3>2, <3>3, Zenon
  <2> SUFFICES ASSUME NEW i \in DOMAIN changes', changes'[i].what = "switch"
               PROVE  /\ \A j \in DOMAIN changes' : Waits(changes'[j], changes'[i].id, "switch") => i = j
                      /\ changes'[i].served <=> active[changes'[i].id] = changes'[i].to
    BY <1>1 DEF SwitchesApart, Waits
  <2>4. CASE i \in DOMAIN changes
    <3>1. changes'[i] = changes[i] BY <1>5, <2>4
    <3>2. \A j \in DOMAIN changes : Waits(changes'[j], changes'[i].id, "switch") => i = j
      BY <1>5, <2>1, <2>4, <3>1 DEF SwitchesApart
    <3>3. ~Waits(c, changes'[i].id, "switch")
      BY <1>3, <2>2, <2>4, <3>1 DEF Waits
    <3> QED BY <1>5, <1>6, <2>1, <2>4, <3>1, <3>2, <3>3 DEF SwitchesApart
  <2>5. CASE i = Len(changes) + 1
    <3>1. changes'[i] = c /\ what = "switch" BY <1>3, <1>5, <2>5
    <3>2. \A j \in DOMAIN changes' : Waits(changes'[j], r, "switch") => i = j
      BY <1>5, <1>6, <2>2, <2>5, <3>1
    <3> QED BY <1>3, <2>3, <3>1, <3>2
  <2> QED BY <1>6, <2>4, <2>5
<1>12. ~crossed' => ~crossed BY <1>1
<1>13. NewestAsked => NewestAsked' BY <1>1 DEF NewestAsked
<1> QED BY <1>1, <1>7, <1>8, <1>10, <1>11, <1>12, <1>13 DEF ListsIInv

LEMMA ChangeFoundKeeps ==
  ASSUME ListsIInv, NEW i \in DOMAIN changes, ChangeFound(i)
  PROVE  ListsIInv'
<1>0. PICK c : c = changes[i] OBVIOUS
<1>1. /\ changes' = [changes EXCEPT ![i].found = TRUE]
      /\ UNCHANGED <<listKind, existing, active, query, rows, pages, error, answers, fetches, crossed>>
      /\ ListsTypeOK /\ changes \in Seq(Changing) /\ c \in Changing
  BY <1>0 DEF ChangeFound, list, records, ListsIInv, ListsTypeOK
<1>2. /\ changes' \in Seq(Changing) /\ DOMAIN changes' = DOMAIN changes
      /\ \A j \in DOMAIN changes :
           /\ changes'[j].id = changes[j].id /\ changes'[j].what = changes[j].what
           /\ changes'[j].to = changes[j].to /\ changes'[j].served = changes[j].served
  <2>1. PICK d : d = [c EXCEPT !.found = TRUE] OBVIOUS
  <2>2. /\ d \in Changing /\ d.id = c.id /\ d.what = c.what /\ d.to = c.to
        /\ d.served = c.served
    BY <1>1, <2>1 DEF Changing
  <2>3. changes' = [changes EXCEPT ![i] = d] BY <1>0, <1>1, <2>1
  <2>4. /\ changes' \in Seq(Changing) /\ DOMAIN changes' = DOMAIN changes /\ changes'[i] = d
        /\ \A j \in DOMAIN changes : j # i => changes'[j] = changes[j]
    <3>1. changes \in Seq(Changing) /\ d \in Changing BY <1>1, <2>2
    <3> QED BY <2>3, <3>1, ChangedAt
  <2> QED BY <1>0, <2>2, <2>4
<1>3. ListsTypeOK' BY <1>1, <1>2 DEF ListsTypeOK
<1>4. CleanTrue' BY <1>1 DEF ListsIInv, CleanTrue, Read
<1>5. \A x, w : Done(x, w)' <=> Done(x, w) BY <1>2 DEF Done, Waits
<1>6. SwitchesApart => SwitchesApart' BY <1>1, <1>2 DEF SwitchesApart, Waits
<1>7. RowsFit => RowsFit' BY <1>1, <1>5 DEF RowsFit, RowFits, GotFits, Read
<1>8. NewestAsked => NewestAsked' BY <1>1 DEF NewestAsked
<1> QED BY <1>1, <1>3, <1>4, <1>6, <1>7, <1>8 DEF ListsIInv

\* A write of the records, whoever does it: nothing that was read is clean any more.
LEMMA OvertakenLoads ==
  ASSUME ListsTypeOK, fetches' = Overtaken
  PROVE  /\ fetches' \in Seq(Fetch) /\ DOMAIN fetches' = DOMAIN fetches
         /\ Len(fetches') = Len(fetches)
         /\ \A j \in DOMAIN fetches : /\ fetches'[j].got = fetches[j].got
                                     /\ fetches'[j].query = fetches[j].query
                                     /\ fetches'[j].clean = FALSE
         /\ CleanTrue'
         /\ UNCHANGED <<query, answers>> => (NewestAsked => NewestAsked')
<1>1. fetches \in Seq(Fetch) /\ fetches' = [j \in DOMAIN fetches |-> [fetches[j] EXCEPT !.clean = FALSE]]
  BY DEF ListsTypeOK, Overtaken
<1>2. \A j \in DOMAIN fetches : fetches[j] \in Fetch BY <1>1
<1>3. \A j \in DOMAIN fetches :
        /\ fetches'[j] = [fetches[j] EXCEPT !.clean = FALSE] /\ fetches'[j] \in Fetch
        /\ fetches'[j].got = fetches[j].got /\ fetches'[j].query = fetches[j].query
        /\ fetches'[j].clean = FALSE
  BY <1>1, <1>2 DEF Fetch
<1>4. DOMAIN fetches = 1..Len(fetches) /\ Len(fetches) \in Nat BY <1>1
<1>5. fetches' \in [1..Len(fetches) -> Fetch] BY <1>1, <1>3, <1>4
<1>6. fetches' \in Seq(Fetch) /\ DOMAIN fetches' = DOMAIN fetches /\ Len(fetches') = Len(fetches)
  BY <1>4, <1>5
<1>7. CleanTrue' BY <1>3, <1>6 DEF CleanTrue
<1>8. ASSUME UNCHANGED <<query, answers>>, NewestAsked PROVE NewestAsked'
  <2>1. (fetches = <<>> <=> Len(fetches) = 0) /\ (fetches' = <<>> <=> Len(fetches) = 0)
    BY <1>1, <1>6, NoneLeft
  <2> QED BY <1>3, <1>4, <1>6, <1>8, <2>1 DEF NewestAsked
<1> QED BY <1>3, <1>6, <1>7, <1>8

LEMMA ChangeServedKeeps ==
  ASSUME ListsIInv, NEW i \in DOMAIN changes, ChangeServed(i)
  PROVE  ListsIInv'
<1>0. PICK c : c = changes[i] OBVIOUS
<1>1. /\ ~c.served
      /\ IF c.what = "delete" THEN existing' = existing \ {c.id} /\ active' = active
         ELSE existing' = existing \cup {c.id} /\ active' = [active EXCEPT ![c.id] = c.to]
      /\ changes' = [changes EXCEPT ![i].served = TRUE]
      /\ fetches' = Overtaken
      /\ UNCHANGED <<listKind, query, rows, pages, error, answers, crossed>>
      /\ ListsTypeOK
  BY <1>0 DEF ChangeServed, list, ListsIInv
<1>2. /\ changes \in Seq(Changing) /\ c \in Changing
      /\ c.what \in {"delete", "switch"} /\ c.to \in BOOLEAN /\ c.id \in Records
  <2>1. changes \in Seq(Changing) /\ c \in Changing BY <1>0, <1>1 DEF ListsTypeOK
  <2> QED BY <2>1 DEF Changing
<1>3. /\ changes' \in Seq(Changing) /\ DOMAIN changes' = DOMAIN changes
      /\ \A j \in DOMAIN changes : j # i => changes'[j] = changes[j]
      /\ changes'[i].id = c.id /\ changes'[i].what = c.what /\ changes'[i].to = c.to
      /\ changes'[i].served = TRUE
  <2>1. PICK d : d = [c EXCEPT !.served = TRUE] OBVIOUS
  <2>2. d \in Changing /\ d.id = c.id /\ d.what = c.what /\ d.to = c.to /\ d.served = TRUE
    BY <1>2, <2>1 DEF Changing
  <2>3. changes' = [changes EXCEPT ![i] = d] BY <1>0, <1>1, <2>1
  <2> QED BY <1>2, <2>2, <2>3, ChangedAt
<1>4. /\ fetches' \in Seq(Fetch) /\ DOMAIN fetches' = DOMAIN fetches
      /\ \A j \in DOMAIN fetches : fetches'[j].got = fetches[j].got
      /\ CleanTrue'
      /\ NewestAsked => NewestAsked'
  BY <1>1, OvertakenLoads
<1>5. /\ existing' \subseteq Records /\ active' \in [Records -> BOOLEAN]
      /\ \A r \in Records : r # c.id =>
           (r \in existing' <=> r \in existing) /\ active'[r] = active[r]
  BY <1>1, <1>2 DEF ListsTypeOK
<1>6. /\ c.what = "delete" => active' = active
      /\ c.what = "switch" => c.id \in existing' /\ active'[c.id] = c.to
  BY <1>1, <1>2 DEF ListsTypeOK
<1>7. ListsTypeOK' BY <1>1, <1>3, <1>4, <1>5 DEF ListsTypeOK
<1>9. \A x, w : Done(x, w)' <=> Done(x, w) \/ Waits(c, x, w)
  <2> SUFFICES ASSUME NEW x, NEW w PROVE Done(x, w)' <=> Done(x, w) \/ Waits(c, x, w)
    OBVIOUS
  <2>1. Done(x, w)' => Done(x, w) \/ Waits(c, x, w) BY <1>3 DEF Done, Waits
  <2>2. Done(x, w) => Done(x, w)' BY <1>0, <1>1, <1>3 DEF Done, Waits
  <2>3. Waits(c, x, w) => Done(x, w)' BY <1>3 DEF Done, Waits
  <2> QED BY <2>1, <2>2, <2>3
<1>10. ASSUME SwitchesApart PROVE SwitchesApart'
  <2>1. \A j \in DOMAIN changes : /\ changes'[j].id = changes[j].id /\ changes'[j].what = changes[j].what
                                 /\ changes'[j].to = changes[j].to
    BY <1>0, <1>3
  <2> SUFFICES ASSUME NEW j \in DOMAIN changes, changes[j].what = "switch"
               PROVE  changes'[j].served <=> active'[changes[j].id] = changes[j].to
    BY <1>3, <1>10, <2>1 DEF SwitchesApart, Waits
  <2>2. CASE j = i BY <1>0, <1>3, <1>6, <2>2
  <2>3. CASE j # i
    <3>1. changes'[j] = changes[j] BY <1>3, <2>3
    <3>2. active'[changes[j].id] = active[changes[j].id]
      <4>1. CASE c.what = "delete" BY <1>6, <4>1
      <4>2. CASE c.what = "switch"
        <5>1. changes[j].id # c.id
          BY <1>0, <1>10, <2>3, <4>2 DEF SwitchesApart, Waits
        <5>2. changes[j].id \in Records
          <6>1. changes[j] \in Changing BY <1>2, <1>3
          <6> QED BY <6>1 DEF Changing
        <5> QED BY <1>5, <5>1, <5>2
      <4> QED BY <1>2, <4>1, <4>2
    <3> QED BY <1>10, <3>1, <3>2 DEF SwitchesApart
  <2> QED BY <2>2, <2>3
<1>11. ASSUME SwitchesApart, RowsFit PROVE RowsFit'
  <2>1. ASSUME NEW r \in Records, r # c.id
        PROVE  /\ r \in existing' <=> r \in existing
               /\ active'[r] = active[r]
               /\ \A w : Done(r, w)' <=> Done(r, w)
    BY <1>5, <1>9, <2>1 DEF Waits
  <2>2. Done(c.id, c.what)' BY <1>9 DEF Waits
  <2>3. c.what = "delete" => \A w : w # "delete" => (Done(c.id, w)' <=> Done(c.id, w))
    BY <1>9 DEF Waits
  <2>4. ASSUME NEW r \in DOMAIN rows PROVE RowFits(r)'
    <3>1. RowFits(r) /\ r \in Records BY <1>1, <1>11 DEF RowsFit, ListsTypeOK, Rows
    <3>2. CASE r # c.id BY <1>1, <2>1, <3>1, <3>2 DEF RowFits
    <3>3. CASE r = c.id /\ c.what = "delete" BY <1>1, <1>6, <2>2, <2>3, <3>1, <3>3 DEF RowFits
    <3>4. CASE r = c.id /\ c.what = "switch"
      <4>1. ~Done(r, "switch") BY <1>0, <1>1, <1>11, <3>4 DEF SwitchesApart, Done, Waits
      <4>2. rows[r] = active[r] BY <1>1, <3>1, <3>4, <4>1 DEF RowFits
      <4>3. active[r] # c.to BY <1>0, <1>1, <1>11, <3>4 DEF SwitchesApart
      <4> QED BY <1>1, <1>6, <2>2, <3>4, <4>2, <4>3 DEF RowFits
    <3> QED BY <1>2, <3>2, <3>3, <3>4
  <2>5. ASSUME NEW j \in DOMAIN fetches, Read(j)' PROVE GotFits(fetches[j].got)'
    <3>1. GotFits(fetches[j].got) BY <1>4, <1>11, <2>5 DEF RowsFit, Read
    <3>2. DOMAIN fetches[j].got.rows \subseteq Records
      <4>1. fetches[j] \in Fetch /\ fetches[j].got # Unread BY <1>1, <1>4, <2>5 DEF ListsTypeOK, Read
      <4> QED BY <4>1 DEF Fetch, Answer, Rows
    <3> SUFFICES ASSUME NEW r \in DOMAIN fetches[j].got.rows
                 PROVE  /\ fetches[j].got.rows[r] = active'[r] \/ Done(r, "switch")'
                        /\ r \in existing' \/ Done(r, "delete")'
      BY <1>4 DEF GotFits
    <3>3. CASE r # c.id BY <2>1, <3>1, <3>2, <3>3 DEF GotFits
    <3>4. CASE r = c.id /\ c.what = "delete"
      BY <1>6, <2>2, <2>3, <3>1, <3>4 DEF GotFits
    <3>5. CASE r = c.id /\ c.what = "switch" BY <1>6, <2>2, <3>5
    <3> QED BY <1>2, <3>3, <3>4, <3>5
  <2> QED BY <1>1, <1>4, <2>4, <2>5 DEF RowsFit
<1> QED BY <1>1, <1>4, <1>7, <1>10, <1>11 DEF ListsIInv

\* What somebody else writes ends every claim but that of the types.
LEMMA OtherWritesKeeps ==
  ASSUME ListsIInv, NEW r \in Records, OtherWrites(r)
  PROVE  ListsIInv'
<1>1. /\ fetches' = Overtaken /\ crossed' = TRUE
      /\ UNCHANGED <<listKind, query, rows, pages, changes>>
      /\ ListsTypeOK
  BY DEF OtherWrites, list, ListsIInv
<1>2. existing' \subseteq Records /\ active' \in [Records -> BOOLEAN]
  <2>1. existing \subseteq Records /\ active \in [Records -> BOOLEAN] BY <1>1 DEF ListsTypeOK
  <2>2. \/ existing' = existing \ {r} /\ active' = active
        \/ /\ existing' = existing \cup {r}
           /\ \E to \in IF listKind = "menus" THEN BOOLEAN ELSE {active[r]} :
                active' = [active EXCEPT ![r] = to]
    BY DEF OtherWrites
  <2>3. active[r] \in BOOLEAN BY <2>1
  <2> QED BY <2>1, <2>2, <2>3
<1>3. fetches' \in Seq(Fetch) /\ CleanTrue' BY <1>1, OvertakenLoads
<1>4. ListsTypeOK' BY <1>1, <1>2, <1>3 DEF ListsTypeOK
<1> QED BY <1>1, <1>3, <1>4 DEF ListsIInv

\* A change that is answered, or failed, waits no longer.
LEMMA Unawaited ==
  ASSUME ListsTypeOK, NEW i \in DOMAIN changes, changes' = RemoveAt(changes, i), UNCHANGED active
  PROVE  /\ changes' \in Seq(Changing)
         /\ \A x, w : Done(x, w)' <=>
              \E j \in DOMAIN changes \ {i} : Waits(changes[j], x, w) /\ changes[j].served
         /\ SwitchesApart => SwitchesApart'
<1>1. changes \in Seq(Changing) /\ i \in 1..Len(changes) /\ Len(changes) \in Nat
  BY DEF ListsTypeOK
<1> DEFINE old(j) == IF j < i THEN j ELSE j + 1
<1>2. /\ changes' \in Seq(Changing) /\ DOMAIN changes' = 1..(Len(changes) - 1)
      /\ \A j \in DOMAIN changes' : changes'[j] = changes[old(j)]
  <2>1. /\ RemoveAt(changes, i) \in Seq(Changing) /\ Len(RemoveAt(changes, i)) = Len(changes) - 1
        /\ \A j \in 1..(Len(changes) - 1) : RemoveAt(changes, i)[j] = changes[old(j)]
    BY <1>1, Removed
  <2>2. DOMAIN changes' = 1..Len(changes') BY <2>1
  <2> QED BY <2>1, <2>2
<1>3. /\ \A j \in DOMAIN changes' : old(j) \in DOMAIN changes \ {i}
      /\ \A j, k \in DOMAIN changes' : old(j) = old(k) => j = k
  BY <1>1, <1>2
<1>4. \A k \in DOMAIN changes \ {i} : \E j \in DOMAIN changes' : old(j) = k
  <2> SUFFICES ASSUME NEW k \in DOMAIN changes \ {i} PROVE \E j \in DOMAIN changes' : old(j) = k
    OBVIOUS
  <2>1. CASE k < i
    <3>1. k \in DOMAIN changes' /\ old(k) = k BY <1>1, <1>2, <2>1
    <3> QED BY <3>1
  <2>2. CASE ~(k < i)
    <3>1. k - 1 \in DOMAIN changes' /\ old(k - 1) = k BY <1>1, <1>2, <2>2
    <3> QED BY <3>1
  <2> QED BY <2>1, <2>2
<1> HIDE DEF old
<1>5. ASSUME NEW x, NEW w
      PROVE  Done(x, w)' <=> \E j \in DOMAIN changes \ {i} : Waits(changes[j], x, w) /\ changes[j].served
  <2>1. Done(x, w)' <=> \E j \in DOMAIN changes' : Waits(changes'[j], x, w) /\ changes'[j].served
    BY DEF Done, Waits
  <2> QED BY <1>2, <1>3, <1>4, <2>1
<1>6. SwitchesApart => SwitchesApart'
  BY <1>2, <1>3 DEF SwitchesApart, Waits
<1> QED BY <1>2, <1>5, <1>6

LEMMA ChangeAnsweredKeeps ==
  ASSUME ListsIInv, NEW i \in DOMAIN changes, ChangeAnswered(i)
  PROVE  ListsIInv'
<1>0. PICK c : c = changes[i] OBVIOUS
<1>1. /\ c.served /\ rows' = ChangedRows(c) /\ changes' = RemoveAt(changes, i)
      /\ crossed' = (crossed \/ Outdated(c))
      /\ UNCHANGED <<listKind, existing, active, query, pages, error, fetches, answers>>
      /\ ListsTypeOK
  BY <1>0 DEF ChangeAnswered, records, ListsIInv
<1>2. c.what \in {"delete", "switch"}
  <2>1. c \in Changing BY <1>0, <1>1 DEF ListsTypeOK
  <2> QED BY <2>1 DEF Changing
<1>3. /\ changes' \in Seq(Changing)
      /\ \A x, w : Done(x, w)' <=>
           \E j \in DOMAIN changes \ {i} : Waits(changes[j], x, w) /\ changes[j].served
      /\ SwitchesApart => SwitchesApart'
  BY <1>1, Unawaited
<1>4. /\ DOMAIN rows' = {r \in DOMAIN rows : ~(r = c.id /\ c.what = "delete")}
      /\ \A r \in DOMAIN rows' : rows'[r] = IF r = c.id THEN ~rows[r] ELSE rows[r]
  BY <1>1 DEF ChangedRows
<1>5. DOMAIN rows \subseteq Records /\ \A r \in DOMAIN rows : rows[r] \in BOOLEAN
  BY <1>1 DEF ListsTypeOK, Rows
<1>6. rows' \in Rows
  <2>1. DOMAIN rows' \subseteq Records BY <1>4, <1>5
  <2>2. \A r \in DOMAIN rows' : rows'[r] \in BOOLEAN BY <1>4, <1>5
  <2>3. rows' = [r \in DOMAIN rows' |-> rows'[r]] BY <1>1 DEF ChangedRows
  <2>4. rows' \in [DOMAIN rows' -> BOOLEAN] BY <2>2, <2>3
  <2> QED BY <2>1, <2>4 DEF Rows
<1>7. ListsTypeOK' BY <1>1, <1>3, <1>6 DEF ListsTypeOK
<1>8. CleanTrue' BY <1>1 DEF ListsIInv, CleanTrue, Read
<1>9. ASSUME ~crossed' PROVE RowsFit'
  <2>1. SwitchesApart /\ RowsFit /\ ~Outdated(c) BY <1>1, <1>9 DEF ListsIInv
  <2>2. \A r, w : ~Waits(c, r, w) => (Done(r, w)' <=> Done(r, w))
    BY <1>0, <1>3 DEF Done
  <2>3. c.what = "switch" => ~Done(c.id, "switch")'
    BY <1>0, <1>3, <2>1 DEF SwitchesApart, Waits
  <2>4. Done(c.id, c.what) BY <1>0, <1>1 DEF Done, Waits
  <2>5. ASSUME NEW r \in DOMAIN rows' PROVE RowFits(r)'
    <3>1. RowFits(r) BY <1>4, <2>1 DEF RowsFit
    <3>2. CASE r # c.id
      <4>1. \A w : Done(r, w)' <=> Done(r, w) BY <2>2, <3>2 DEF Waits
      <4>2. rows'[r] = rows[r] BY <1>4, <3>2
      <4> QED BY <1>1, <3>1, <4>1, <4>2 DEF RowFits
    <3>3. CASE r = c.id
      <4>1. c.what = "switch" /\ rows'[r] = ~rows[r] /\ rows[r] \in BOOLEAN
        BY <1>2, <1>4, <1>5, <3>3
      <4>2. rows'[r] = active[r] /\ ~Done(r, "switch")'
        <5>1. rows[r] # active[r] BY <2>4, <3>1, <3>3, <4>1 DEF RowFits
        <5>2. active[r] \in BOOLEAN BY <1>1, <1>4, <1>5 DEF ListsTypeOK
        <5>3. (~rows[r]) = active[r] BY <4>1, <5>1, <5>2
        <5> QED BY <2>3, <3>3, <4>1, <5>3
      <4>3. r \in existing \/ Done(r, "delete")'
        <5>1. r \in existing \/ Done(r, "delete") BY <3>1 DEF RowFits
        <5>2. ~Waits(c, r, "delete") BY <4>1 DEF Waits
        <5> QED BY <2>2, <5>1, <5>2
      <4> QED BY <1>1, <4>2, <4>3 DEF RowFits
    <3> QED BY <3>2, <3>3
  <2>6. ASSUME NEW j \in DOMAIN fetches, Read(j) PROVE GotFits(fetches[j].got)'
    <3>1. GotFits(fetches[j].got) BY <2>1, <2>6 DEF RowsFit
    <3> SUFFICES ASSUME NEW r \in DOMAIN fetches[j].got.rows
                 PROVE  /\ fetches[j].got.rows[r] = active[r] \/ Done(r, "switch")'
                        /\ r \in existing \/ Done(r, "delete")'
      BY <1>1 DEF GotFits
    <3>2. CASE r # c.id
      <4>1. \A w : Done(r, w)' <=> Done(r, w) BY <2>2, <3>2 DEF Waits
      <4> QED BY <3>1, <4>1 DEF GotFits
    <3>3. CASE r = c.id
      <4>1. fetches[j] \in Range(fetches) BY DEF Range
      <4>2. c.what # "delete" /\ fetches[j].got.rows[r] = c.to
        BY <2>1, <2>6, <3>3, <4>1 DEF Outdated, Read
      <4>3. c.what = "switch" BY <1>2, <4>2
      <4>4. active[r] = c.to
        BY <1>0, <1>1, <2>1, <3>3, <4>3 DEF SwitchesApart
      <4>5. ~Waits(c, r, "delete") BY <4>3 DEF Waits
      <4> QED BY <2>2, <3>1, <4>2, <4>4, <4>5 DEF GotFits
    <3> QED BY <3>2, <3>3
  <2> QED BY <1>1, <2>5, <2>6 DEF RowsFit, Read
<1>10. NewestAsked => NewestAsked' BY <1>1 DEF NewestAsked
<1> QED BY <1>1, <1>3, <1>7, <1>8, <1>9, <1>10 DEF ListsIInv

LEMMA ChangeFailedKeeps ==
  ASSUME ListsIInv, NEW i \in DOMAIN changes, ChangeFailed(i)
  PROVE  ListsIInv'
<1>1. /\ changes' = RemoveAt(changes, i) /\ crossed' = (crossed \/ changes[i].served)
      /\ UNCHANGED <<listKind, existing, active, query, rows, pages, error, fetches, answers>>
      /\ ListsTypeOK
  BY DEF ChangeFailed, list, records, ListsIInv
<1>2. /\ changes' \in Seq(Changing)
      /\ \A x, w : Done(x, w)' <=>
           \E j \in DOMAIN changes \ {i} : Waits(changes[j], x, w) /\ changes[j].served
      /\ SwitchesApart => SwitchesApart'
  BY <1>1, Unawaited
<1>3. ListsTypeOK' BY <1>1, <1>2 DEF ListsTypeOK
<1>4. CleanTrue' BY <1>1 DEF ListsIInv, CleanTrue, Read
<1>5. ASSUME ~crossed' PROVE RowsFit'
  <2>1. ~changes[i].served /\ RowsFit BY <1>1, <1>5 DEF ListsIInv
  <2>2. \A x, w : Done(x, w)' <=> Done(x, w) BY <1>2, <2>1 DEF Done
  <2> QED BY <1>1, <2>1, <2>2 DEF RowsFit, RowFits, GotFits, Read
<1>6. NewestAsked => NewestAsked' BY <1>1 DEF NewestAsked
<1> QED BY <1>1, <1>2, <1>3, <1>4, <1>5, <1>6 DEF ListsIInv

LEMMA ListsInitInv == ASSUME ListsAssumption, ListsInit PROVE ListsIInv
<1> DEFINE f == [query |-> query, got |-> Unread, clean |-> TRUE]
<1>1. /\ listKind \in ListKinds /\ query = [page |-> 1, by |-> {}] /\ rows = <<>> /\ pages = 1
      /\ fetches = <<f>> /\ changes = <<>>
      /\ active \in [Records -> BOOLEAN] /\ existing \subseteq Records
  BY DEF ListsInit
<1>2. query \in Query BY <1>1 DEF Query
<1>3. f \in Fetch /\ f.got = Unread /\ f.query = query BY <1>2 DEF Fetch
<1> HIDE DEF f
<1>4. /\ fetches \in Seq(Fetch) /\ DOMAIN fetches = {1} /\ fetches[1] = f /\ Len(fetches) = 1
      /\ fetches # <<>>
  BY <1>1, <1>3
<1>5. /\ changes \in Seq(Changing) /\ DOMAIN changes = {} BY <1>1
<1>7. rows \in Rows /\ DOMAIN rows = {}
  <2>1. rows \in [{} -> BOOLEAN] /\ DOMAIN rows = {} BY <1>1
  <2> QED BY <2>1 DEF Rows
<1>8. ListsTypeOK BY <1>1, <1>2, <1>4, <1>5, <1>7 DEF ListsTypeOK
<1>9. CleanTrue BY <1>3, <1>4 DEF CleanTrue, Read
<1>10. SwitchesApart BY <1>5 DEF SwitchesApart
<1>11. RowsFit BY <1>3, <1>4, <1>7 DEF RowsFit, Read
<1>12. NewestAsked BY <1>3, <1>4 DEF NewestAsked
<1> QED BY <1>8, <1>9, <1>10, <1>11, <1>12 DEF ListsIInv

LEMMA ListsNextInv ==
  ASSUME ListsAssumption, ListsIInv, [ListsNext]_listsVars
  PROVE  ListsIInv'
<1>1. CASE TurnPage \/ Search \/ FilterRole \/ SwitchListLanguage BY <1>1, QuestionKeeps
<1>2. CASE \E i \in DOMAIN fetches : FetchRead(i) \/ FetchAnswered(i) \/ FetchFailed(i)
  BY <1>2, FetchReadKeeps, FetchAnsweredKeeps, FetchFailedKeeps
<1>3. CASE \E r \in Records : Delete(r) \/ ToggleStatus(r) \/ OtherWrites(r)
  BY <1>3, ChangeKeeps, OtherWritesKeeps
<1>4. CASE \E i \in DOMAIN changes :
             ChangeFound(i) \/ ChangeServed(i) \/ ChangeAnswered(i) \/ ChangeFailed(i)
  BY <1>4, ChangeFoundKeeps, ChangeServedKeeps, ChangeAnsweredKeeps, ChangeFailedKeeps
<1>5. CASE UNCHANGED listsVars
  <2>1. UNCHANGED <<listKind, existing, active, query, rows, pages, error, answers, fetches, changes, crossed>>
    BY <1>5 DEF listsVars, list, records
  <2>2. ListsTypeOK' BY <2>1 DEF ListsIInv, ListsTypeOK
  <2>3. CleanTrue' BY <2>1 DEF ListsIInv, CleanTrue, Read
  <2>4. SwitchesApart => SwitchesApart' BY <2>1 DEF SwitchesApart, Waits
  <2>5. RowsFit => RowsFit' BY <2>1 DEF RowsFit, RowFits, GotFits, Read, Done, Waits
  <2>6. NewestAsked => NewestAsked' BY <2>1 DEF NewestAsked
  <2> QED BY <2>1, <2>2, <2>3, <2>4, <2>5, <2>6 DEF ListsIInv
<1> QED BY <1>1, <1>2, <1>3, <1>4, <1>5 DEF ListsNext

\* The page of a list: a row that is not what its record is has a change under way
\* that mends it, and the newest load asks what the page shows, until a request
\* overtakes another, somebody else writes a record, or a load fails.
THEOREM ListsIInvHolds == ListsSpec => []ListsIInv
<1>1. ListsInit => ListsIInv BY ListsAssumption, ListsInitInv
<1>2. ListsIInv /\ [ListsNext]_listsVars => ListsIInv' BY ListsAssumption, ListsNextInv
<1> QED BY <1>1, <1>2, PTL DEF ListsSpec

\* So once nothing is in flight the rows answer the question the page shows, and
\* each says what its record is, from one load that nothing overtakes to the next
\* answer that is overtaken or write of somebody else (the effect, onDelete and
\* onToggleStatus of the lists).
THEOREM RowsAlwaysTrue == ListsSpec => []RowsTrue
<1>1. ListsIInv => RowsTrue
  <2> SUFFICES ASSUME ListsIInv, fetches = <<>>, changes = <<>>, ~crossed, ~error
               PROVE  /\ answers = query
                      /\ \A r \in DOMAIN rows : r \in existing /\ rows[r] = active[r]
    BY DEF RowsTrue
  <2>1. \A r, what : ~Done(r, what) BY DEF Done
  <2> QED BY <2>1 DEF ListsIInv, NewestAsked, RowsFit, RowFits
<1> QED BY <1>1, ListsIInvHolds, PTL

-----------------------------------------------------------------------------
(* The forms                                                               *)

LEMMA NoneToSend == ToSend(<<>>) = {}
BY DEF ToSend

\* An answered request is sent no more.
LEMMA TailToSend ==
  ASSUME NEW S, NEW s \in Seq(SUBSET S), s # <<>>
  PROVE  /\ Tail(s) \in Seq(SUBSET S) /\ Head(s) \subseteq S
         /\ ToSend(s) = Head(s) \cup ToSend(Tail(s))
         /\ Len(s) = 1 <=> Tail(s) = <<>>
<1>1. /\ Head(s) = s[1] /\ Tail(s) \in Seq(SUBSET S) /\ Len(Tail(s)) = Len(s) - 1
      /\ \A i \in 1..(Len(s) - 1) : Tail(s)[i] = s[i + 1]
      /\ Len(s) \in Nat \ {0}
  BY HeadTailProperties, EmptySeq
<1>2. Head(s) \subseteq S
  <2>1. 1 \in 1..Len(s) BY <1>1
  <2>2. s[1] \in SUBSET S BY <2>1
  <2> QED BY <1>1, <2>2
<1>3. Len(s) = 1 <=> Tail(s) = <<>>
  <2> DEFINE t == Tail(s)
  <2>1. t \in Seq(SUBSET S) /\ Len(t) = Len(s) - 1 /\ Len(s) \in Nat BY <1>1
  <2> HIDE DEF t
  <2>2. t = <<>> <=> Len(t) = 0 BY <2>1, NoneLeft
  <2>3. Len(s) = 1 <=> t = <<>> BY <2>1, <2>2
  <2> QED BY <2>3 DEF t
<1> DEFINE rest == Tail(s)
<1>4. ASSUME NEW p \in ToSend(s) PROVE p \in Head(s) \cup ToSend(rest)
  <2>1. PICK i \in 1..Len(s) : p \in s[i] BY <1>4 DEF ToSend
  <2>2. CASE i = 1 BY <1>1, <2>1, <2>2
  <2>3. CASE i # 1
    <3>1. i - 1 \in 1..Len(rest) /\ rest[i - 1] = s[i] BY <1>1, <2>1, <2>3
    <3> QED BY <2>1, <3>1 DEF ToSend
  <2> QED BY <2>2, <2>3
<1>5. Head(s) \subseteq ToSend(s)
  <2>1. 1 \in 1..Len(s) BY <1>1
  <2> QED BY <1>1, <2>1 DEF ToSend
<1>6. ASSUME NEW p \in ToSend(rest) PROVE p \in ToSend(s)
  <2>1. PICK i \in 1..Len(rest) : p \in rest[i] BY <1>6 DEF ToSend
  <2>2. i + 1 \in 1..Len(s) /\ s[i + 1] = rest[i] BY <1>1, <2>1
  <2> QED BY <2>1, <2>2 DEF ToSend
<1> QED BY <1>1, <1>2, <1>3, <1>4, <1>5, <1>6

\* What is submitted: everything the user may write, but for a parent that was
\* taken away; and a new record gets all that the server asks for.
LEMMA RequestsCover ==
  ASSUME FormsTypeOK, MaySend
  PROVE  /\ Requests \in Seq(SUBSET Parts(kind))
         /\ ToSend(Requests) \subseteq rights
         /\ \A p \in rights \ ToSend(Requests) : p = "parent" /\ form[p] = 0
         /\ "parent" \in ToSend(Requests) => form["parent"] # 0
         /\ new => Required \subseteq ToSend(Requests)
         /\ \A p \in Required : form[p] # 0
<1>1. CASE kind = "role"
  <2>1. /\ Requests = RoleRequests /\ Parts(kind) = {"text", "permissions", "menus"}
        /\ Required = {"permissions", "menus"} /\ rights \subseteq {"text", "permissions", "menus"}
    BY <1>1 DEF Requests, Parts, Required, FormsTypeOK
  <2>2. /\ form["permissions"] # 0 /\ form["menus"] # 0
        /\ new => rights = {"text", "permissions", "menus"}
    BY <1>1 DEF MaySend, MaySendRole, Parts
  <2> DEFINE if(p) == IF p \in rights THEN <<{p}>> ELSE <<>>
             P == {"text", "permissions", "menus"}
  <2>3. ASSUME NEW p \in P PROVE if(p) \in Seq(SUBSET P) /\ ToSend(if(p)) = rights \cap {p}
    <3>1. CASE p \in rights
      <4>1. if(p) = <<{p}>> BY <3>1
      <4>2. <<{p}>> \in Seq(SUBSET P) /\ Len(<<{p}>>) = 1 /\ <<{p}>>[1] = {p} OBVIOUS
      <4>3. ToSend(<<{p}>>) = {p} BY <4>2 DEF ToSend
      <4> QED BY <3>1, <4>1, <4>2, <4>3
    <3>2. CASE p \notin rights
      <4>1. if(p) = <<>> BY <3>2
      <4> QED BY <3>2, <4>1, NoneToSend
    <3> QED BY <3>1, <3>2
  <2>4. RoleRequests = if("text") \o if("permissions") \o if("menus") BY DEF RoleRequests
  <2> HIDE DEF if
  <2>5. ASSUME NEW s \in Seq(SUBSET P), NEW t \in Seq(SUBSET P)
        PROVE  s \o t \in Seq(SUBSET P) /\ ToSend(s \o t) = ToSend(s) \cup ToSend(t)
    <3>1. /\ s \o t \in Seq(SUBSET P) /\ Len(s \o t) = Len(s) + Len(t)
          /\ \A i \in 1..(Len(s) + Len(t)) : (s \o t)[i] = IF i <= Len(s) THEN s[i] ELSE t[i - Len(s)]
          /\ Len(s) \in Nat /\ Len(t) \in Nat
      BY ConcatProperties
    <3>2. ASSUME NEW p \in ToSend(s \o t) PROVE p \in ToSend(s) \cup ToSend(t)
      <4>1. PICK i \in 1..(Len(s) + Len(t)) : p \in (s \o t)[i] BY <3>1, <3>2 DEF ToSend
      <4>2. CASE i <= Len(s)
        <5>1. i \in 1..Len(s) /\ p \in s[i] BY <3>1, <4>1, <4>2
        <5> QED BY <5>1 DEF ToSend
      <4>3. CASE ~(i <= Len(s))
        <5>1. i - Len(s) \in 1..Len(t) /\ p \in t[i - Len(s)] BY <3>1, <4>1, <4>3
        <5> QED BY <5>1 DEF ToSend
      <4> QED BY <4>2, <4>3
    <3>3. ASSUME NEW p \in ToSend(s) PROVE p \in ToSend(s \o t)
      <4>1. PICK i \in 1..Len(s) : p \in s[i] BY <3>3 DEF ToSend
      <4>2. i \in 1..Len(s \o t) /\ p \in (s \o t)[i] BY <3>1, <4>1
      <4> QED BY <4>2 DEF ToSend
    <3>4. ASSUME NEW p \in ToSend(t) PROVE p \in ToSend(s \o t)
      <4>1. PICK i \in 1..Len(t) : p \in t[i] BY <3>4 DEF ToSend
      <4>2. Len(s) + i \in 1..Len(s \o t) /\ p \in (s \o t)[Len(s) + i]
        <5>1. Len(s) + i \in 1..(Len(s) + Len(t)) /\ ~(Len(s) + i <= Len(s)) /\ (Len(s) + i) - Len(s) = i
          BY <3>1
        <5> QED BY <3>1, <4>1, <5>1
      <4> QED BY <4>2 DEF ToSend
    <3> QED BY <3>1, <3>2, <3>3, <3>4
  <2>6. /\ RoleRequests \in Seq(SUBSET P)
        /\ ToSend(RoleRequests) = (rights \cap {"text"}) \cup (rights \cap {"permissions"})
                                    \cup (rights \cap {"menus"})
    <3>1. /\ if("text") \o if("permissions") \in Seq(SUBSET P)
          /\ ToSend(if("text") \o if("permissions")) = (rights \cap {"text"}) \cup (rights \cap {"permissions"})
      BY <2>3, <2>5
    <3> QED BY <2>3, <2>4, <2>5, <3>1
  <2> QED BY <2>1, <2>2, <2>6
<1>2. ASSUME NEW parts \in SUBSET Parts(kind), Requests = <<parts>>
      PROVE  Requests \in Seq(SUBSET Parts(kind)) /\ ToSend(Requests) = parts
  <2>1. Len(<<parts>>) = 1 /\ <<parts>>[1] = parts /\ <<parts>> \in Seq(SUBSET Parts(kind)) OBVIOUS
  <2>2. ToSend(<<parts>>) = parts BY <2>1 DEF ToSend
  <2> QED BY <1>2, <2>1, <2>2
<1>3. CASE kind = "menu"
  <2>1. MenuRequest \subseteq Parts(kind) /\ Parts(kind) = {"icon", "parent"} /\ Required = {}
    BY <1>3 DEF MenuRequest, Parts, Required
  <2>2. Requests = <<MenuRequest>> BY <1>3 DEF Requests
  <2>3. Requests \in Seq(SUBSET Parts(kind)) /\ ToSend(Requests) = MenuRequest BY <1>2, <2>1, <2>2
  <2>4. rights = {"icon", "parent"} BY <1>3, <2>1 DEF FormsTypeOK
  <2> QED BY <2>1, <2>3, <2>4 DEF MenuRequest
<1>4. CASE kind \in {"tenant", "user"}
  <2>1. Requests = <<Parts(kind)>> BY <1>4 DEF Requests
  <2>2. Requests \in Seq(SUBSET Parts(kind)) /\ ToSend(Requests) = Parts(kind) BY <1>2, <2>1
  <2>3. /\ rights = Parts(kind) /\ Required \subseteq Parts(kind)
        /\ "parent" \notin Parts(kind)
    BY <1>4 DEF FormsTypeOK, Required, Parts
  <2>4. \A p \in Required : form[p] # 0
    BY <1>4 DEF Required, Parts, MaySend, MaySendUser
  <2> QED BY <2>2, <2>3, <2>4
<1> QED BY <1>1, <1>3, <1>4 DEF FormsTypeOK, Kinds

\* What is sent beside and what is there decide alone whether what is asked for comes.
LEMMA SameUnderWay ==
  ASSUME RequiredComes, UnderWay' = UnderWay,
         UNCHANGED <<kind, assigns, exists, record>>, ~broken' => ~broken
  PROVE  RequiredComes'
<1>1. \A s \in UnderWay : ToWrite(s)' = ToWrite(s) BY DEF ToWrite, ToSend, Keeps
<1>2. Pending' = Pending BY <1>1 DEF Pending
<1> QED BY <1>1, <1>2 DEF RequiredComes, Required

\* What the user does to the form, and what a load does, leaves a submission alone.
LEMMA FormOnly ==
  ASSUME FormsIInv, form' \in Contents(kind), loads' \in Seq(Loading),
         UNCHANGED beside, told' = told \/ told' # "saved", members' \in Nat
  PROVE  FormsIInv'
<1>1. /\ FormsTypeOK /\ PartsWritten /\ RequiredComes
      /\ UNCHANGED <<kind, rights, assigns, new, exists, record, steps, sent, was, left, others, broken>>
  BY DEF FormsIInv, beside
<1>2. FormsTypeOK'
  <2>1. Contents(kind)' = Contents(kind) BY <1>1 DEF Contents
  <2>2. Going' = Going /\ Loading' = Loading BY <1>1, <2>1 DEF Going, Submitted, Loading
  <2> QED BY <1>1, <2>1, <2>2 DEF FormsTypeOK
<1>3. PartsWritten' BY <1>1 DEF PartsWritten, ToSend, Withheld, Keeps, Submission
<1>4. RequiredComes'
  <2>1. UnderWay' = UnderWay BY <1>1 DEF UnderWay, Submission
  <2> QED BY <1>1, <2>1, SameUnderWay
<1> QED BY <1>2, <1>3, <1>4 DEF FormsIInv

LEMMA PartChanged ==
  ASSUME NEW k, NEW c \in Contents(k), NEW p \in Parts(k), NEW v \in Values(p),
         NEW d, d = [c EXCEPT ![p] = v]
  PROVE  d \in Contents(k)
<1>1. v \in 0..2 BY DEF Values
<1>2. /\ c \in [Parts(k) -> 0..2]
      /\ \A q \in Parts(k) : c[q] \in Values(q)
  BY DEF Contents
<1>3. d \in [Parts(k) -> 0..2] BY <1>1, <1>2
<1>4. \A q \in Parts(k) : d[q] \in Values(q) BY <1>2
<1> QED BY <1>3, <1>4 DEF Contents

LEMMA BlankHeld == ASSUME NEW k PROVE Blank(k) \in Contents(k)
<1>1. \A p \in Parts(k) : 0 \in Values(p) BY DEF Values
<1>2. /\ Blank(k) \in [Parts(k) -> 0..2]
      /\ \A p \in Parts(k) : Blank(k)[p] = 0
  BY DEF Blank
<1> QED BY <1>1, <1>2 DEF Contents

LEMMA LoadKeeps ==
  ASSUME FormsIInv, NEW i \in DOMAIN loads, LoadRead(i) \/ LoadAnswered(i) \/ LoadFailed(i)
  PROVE  FormsIInv'
<1> DEFINE x == [form |-> record, members |-> members]
<1>1. /\ loads \in Seq(Loading) /\ record \in Contents(kind) /\ members \in Nat
      /\ form \in Contents(kind)
  BY DEF FormsIInv, FormsTypeOK
<1>2. i \in 1..Len(loads) /\ loads[i] \in Loading BY <1>1
<1>3. /\ form' \in Contents(kind) /\ loads' \in Seq(Loading)
      /\ UNCHANGED <<beside, told, members>>
  <2>1. CASE LoadRead(i)
    <3>1. loads' = [loads EXCEPT ![i] = x] /\ UNCHANGED <<beside, told, members, form>>
      BY <2>1 DEF LoadRead, fixed, tenant, submission, beyond, beside
    <3>2. x \in Loading BY <1>1 DEF Loading
    <3> HIDE DEF x
    <3>3. loads' \in Seq(Loading) BY <1>1, <3>1, <3>2, ChangedAt
    <3> QED BY <1>1, <3>1, <3>3
  <2>2. CASE LoadAnswered(i)
    <3>1. /\ loads[i] # Unserved /\ form' = loads[i].form /\ loads' = RemoveAt(loads, i)
          /\ UNCHANGED <<beside, told, members>>
      BY <2>2 DEF LoadAnswered, fixed, submission, beyond, beside
    <3>2. form' \in Contents(kind) BY <1>2, <3>1 DEF Loading
    <3>3. loads' \in Seq(Loading) BY <1>1, <1>2, <3>1, Removed
    <3> QED BY <3>1, <3>2, <3>3
  <2>3. CASE LoadFailed(i)
    <3>1. loads' = RemoveAt(loads, i) /\ UNCHANGED <<beside, told, members, form>>
      BY <2>3 DEF LoadFailed, fixed, tenant, submission, beyond, beside
    <3>2. loads' \in Seq(Loading) BY <1>1, <1>2, <3>1, Removed
    <3> QED BY <1>1, <3>1, <3>2
  <2> QED BY <2>1, <2>2, <2>3
<1> QED BY <1>1, <1>3, FormOnly

LEMMA FormKeeps ==
  ASSUME FormsIInv, LeaveForm \/ SwitchLanguage \/ RolesAnswered \/ Edit
  PROVE  FormsIInv'
<1>1. loads \in Seq(Loading) /\ form \in Contents(kind) /\ members \in Nat
  BY DEF FormsIInv, FormsTypeOK
<1>2. /\ form' \in Contents(kind) /\ loads' \in Seq(Loading)
      /\ UNCHANGED <<beside, told, members>>
  <2>1. CASE SwitchLanguage
    <3>1. loads' = Append(loads, Unserved) /\ UNCHANGED <<beside, told, members, form>>
      BY <2>1 DEF SwitchLanguage, fixed, tenant, submission, beyond, beside
    <3>2. Unserved \in Loading BY DEF Loading
    <3>3. loads' \in Seq(Loading) BY <1>1, <3>1, <3>2, AppendProperties
    <3> QED BY <1>1, <3>1, <3>3
  <2>2. CASE RolesAnswered
    <3>1. /\ form' = [form EXCEPT !["role"] = IF @ = 0 THEN 1 ELSE @] \/ form' = form
          /\ UNCHANGED <<beside, told, members, loads>>
      BY <2>2 DEF RolesAnswered, fixed, tenant, submission, beyond, beside
    <3>2. CASE form' = form BY <1>1, <3>1, <3>2
    <3>3. CASE "role" \in Parts(kind) /\ form' = [form EXCEPT !["role"] = IF @ = 0 THEN 1 ELSE @]
      <4> DEFINE v == IF form["role"] = 0 THEN 1 ELSE form["role"]
      <4>1. v \in Values("role") BY <1>1, <3>3 DEF Contents, Values
      <4>2. form' = [form EXCEPT !["role"] = v] BY <3>3
      <4> HIDE DEF v
      <4>3. form' \in Contents(kind) BY <1>1, <3>3, <4>1, <4>2, PartChanged
      <4> QED BY <1>1, <3>1, <4>3
    <3>4. CASE "role" \notin Parts(kind) /\ form' = [form EXCEPT !["role"] = IF @ = 0 THEN 1 ELSE @]
      <4>1. form' = form BY <1>1, <3>4 DEF Contents
      <4> QED BY <1>1, <3>1, <4>1
    <3> QED BY <3>1, <3>2, <3>3, <3>4
  <2>3. CASE Edit
    <3>1. /\ \E p \in Parts(kind) : \E v \in Values(p) \ {form[p]} : form' = [form EXCEPT ![p] = v]
          /\ UNCHANGED <<beside, told, members, loads>>
      BY <2>3 DEF Edit, fixed, tenant, submission, beyond, beside
    <3>2. form' \in Contents(kind) BY <1>1, <3>1, PartChanged
    <3> QED BY <1>1, <3>1, <3>2
  <2>4. CASE LeaveForm
    <3>1. form' = Blank(kind) /\ loads' = <<>> /\ UNCHANGED <<beside, told, members>>
      BY <2>4 DEF LeaveForm, fixed, tenant, submission, beyond, beside
    <3> QED BY <3>1, BlankHeld
  <2> QED BY <2>1, <2>2, <2>3, <2>4
<1> QED BY <1>1, <1>2, FormOnly

LEMMA MembersKeep ==
  ASSUME FormsIInv, AddMember \/ MemberAdded \/ AddAnswered
  PROVE  FormsIInv'
<1>1. loads \in Seq(Loading) /\ form \in Contents(kind) /\ members \in Nat
  BY DEF FormsIInv, FormsTypeOK
<1>2. /\ UNCHANGED <<beside, form, loads>>
      /\ told' = told \/ told' # "saved"
      /\ members' \in Nat
  <2>1. CASE AddMember BY <1>1, <2>1 DEF AddMember, fixed, formPage, submission, beyond, beside
  <2>2. CASE MemberAdded BY <1>1, <2>2 DEF MemberAdded, fixed, formPage, submission, beyond, beside
  <2>3. CASE AddAnswered BY <1>1, <2>3 DEF AddAnswered, fixed, formPage, submission, beyond, beside
  <2> QED BY <2>1, <2>2, <2>3
<1> QED BY <1>1, <1>2, FormOnly

\* Nothing is awaited on a page that was opened: what was under way goes on without
\* it, or is cut off and counts as broken.
LEMMA OpenFormKeeps ==
  ASSUME FormsIInv, OpenForm
  PROVE  FormsIInv'
<1>1. FormsTypeOK /\ PartsWritten /\ RequiredComes BY DEF FormsIInv
<1>0. PICK going : going = IF steps = <<>> THEN left ELSE Append(left, Submission) OBVIOUS
<1>2. PICK reloaded \in BOOLEAN :
        /\ going = IF steps = <<>> THEN left ELSE Append(left, Submission)
        /\ left' = [i \in DOMAIN going |->
                      [going[i] EXCEPT !.steps = IF reloaded THEN <<Head(@)>> ELSE @]]
        /\ broken' = (broken \/ left' # going)
        /\ new' = ~exists /\ form' = Blank(kind)
        /\ loads' = IF exists THEN <<Unserved>> ELSE <<>>
        /\ steps' = <<>> /\ sent' = Blank(kind) /\ was' = Blank(kind) /\ told' = "nothing"
        /\ UNCHANGED <<kind, rights, assigns, exists, record, members, others>>
  BY <1>0 DEF OpenForm, fixed
<1>3. /\ Contents(kind)' = Contents(kind) /\ Going' = Going /\ Loading' = Loading
  BY <1>2 DEF Contents, Going, Submitted, Loading
<1>4. going \in Seq(Going)
  <2>1. CASE steps = <<>> BY <1>1, <1>2, <2>1 DEF FormsTypeOK
  <2>2. CASE steps # <<>>
    <3>1. PICK s : s = Submission OBVIOUS
    <3>2. s \in Going
      BY <1>1, <2>2, <3>1 DEF FormsTypeOK, Going, Submitted, Submission
    <3>3. left \in Seq(Going) BY <1>1 DEF FormsTypeOK
    <3> QED BY <1>2, <2>2, <3>1, <3>2, <3>3, AppendProperties
  <2> QED BY <2>1, <2>2
<1>5. left' \in Seq(Going)
  <2>1. ASSUME NEW i \in DOMAIN going PROVE left'[i] \in Going
    <3>1. PICK s \in Going : s = going[i] BY <1>4
    <3>2. s.steps \in Seq(SUBSET Parts(kind)) /\ s.steps # <<>> BY DEF Going, Submitted
    <3>3. PICK now : now = Head(s.steps) OBVIOUS
    <3>4. now \in SUBSET Parts(kind) BY <3>2, <3>3, TailToSend
    <3>5. <<now>> \in Seq(SUBSET Parts(kind)) /\ <<now>> # <<>> BY <3>4
    <3>6. PICK x : x = IF reloaded THEN <<now>> ELSE s.steps OBVIOUS
    <3>7. x \in Seq(SUBSET Parts(kind)) /\ x # <<>> BY <3>2, <3>5, <3>6
    <3>8. [s EXCEPT !.steps = x] \in Going BY <3>7 DEF Going, Submitted
    <3>9. left'[i] = [s EXCEPT !.steps = x] BY <1>2, <3>1, <3>3, <3>6
    <3> QED BY <3>8, <3>9
  <2>2. DOMAIN going = 1..Len(going) /\ Len(going) \in Nat BY <1>4
  <2>3. left' \in [1..Len(going) -> Going] BY <1>2, <2>1, <2>2
  <2> QED BY <2>2, <2>3
<1>6. FormsTypeOK'
  <2>1. new' \in BOOLEAN /\ broken' \in BOOLEAN BY <1>1, <1>2 DEF FormsTypeOK
  <2>2. form' \in Contents(kind) /\ sent' \in Contents(kind) /\ was' \in Contents(kind)
    BY <1>2, BlankHeld
  <2>3. loads' \in Seq(Loading)
    <3>1. Unserved \in Loading BY DEF Loading
    <3>2. CASE exists BY <1>2, <3>1, <3>2
    <3>3. CASE ~exists BY <1>2, <3>3
    <3> QED BY <3>2, <3>3
  <2>4. steps' \in Seq(SUBSET Parts(kind)) BY <1>2
  <2> QED BY <1>1, <1>2, <1>3, <1>5, <2>1, <2>2, <2>3, <2>4 DEF FormsTypeOK
<1>7. PartsWritten'
  <2>1. ToSend(steps)' = {} BY <1>2, NoneToSend DEF ToSend
  <2> QED BY <1>1, <1>2, <2>1 DEF PartsWritten
<1>8. RequiredComes'
  <2>1. CASE left' = going
    <3>1. Submission'.steps = <<>> BY <1>2 DEF Submission
    <3>2. Range(left)' = IF steps = <<>> THEN Range(left) ELSE Range(left) \cup {Submission}
      <4>1. CASE steps = <<>> BY <1>2, <2>1, <4>1 DEF Range
      <4>2. CASE steps # <<>>
        <5>1. PICK s : s = Submission OBVIOUS
        <5>2. left \in Seq(Going) /\ left' = Append(left, s)
          BY <1>1, <1>2, <2>1, <4>2, <5>1 DEF FormsTypeOK
        <5>3. /\ DOMAIN left = 1..Len(left) /\ DOMAIN left' = 1..(Len(left) + 1)
              /\ \A i \in 1..Len(left) : left'[i] = left[i]
              /\ left'[Len(left) + 1] = s /\ Len(left) \in Nat
          BY <5>2, AppendProperties
        <5>4. DOMAIN left' = DOMAIN left \cup {Len(left) + 1} BY <5>3
        <5>5. Range(left)' = Range(left) \cup {s} BY <5>3, <5>4 DEF Range
        <5> QED BY <4>2, <5>1, <5>5
      <4> QED BY <4>1, <4>2
    <3>3. Submission.steps = steps BY DEF Submission
    <3>4. UnderWay' = UnderWay BY <3>1, <3>2, <3>3 DEF UnderWay
    <3> QED BY <1>1, <1>2, <3>4, SameUnderWay
  <2>2. CASE left' # going BY <1>2, <2>2 DEF RequiredComes
  <2> QED BY <2>1, <2>2
<1> QED BY <1>6, <1>7, <1>8 DEF FormsIInv

LEMMA SubmitKeeps ==
  ASSUME FormsIInv, Submit
  PROVE  FormsIInv'
<1>1. FormsTypeOK /\ PartsWritten /\ RequiredComes BY DEF FormsIInv
<1>2. /\ MaySend /\ steps = <<>> /\ steps' = Requests /\ sent' = form /\ was' = record
      /\ told' = "nothing" /\ others' = FALSE
      /\ UNCHANGED <<kind, rights, assigns, new, exists, record, form, loads, members, left, broken>>
  BY DEF Submit, MaySend, fixed, formPage, tenant
<1>3. PICK s \in Seq(SUBSET Parts(kind)) :
        /\ s = Requests /\ ToSend(s) \subseteq rights
        /\ \A p \in rights \ ToSend(s) : p = "parent" /\ form[p] = 0
        /\ "parent" \in ToSend(s) => form["parent"] # 0
        /\ new => Required \subseteq ToSend(s)
        /\ \A p \in Required : form[p] # 0
  BY <1>1, <1>2, RequestsCover
<1>4. steps' = s /\ ToSend(steps)' = ToSend(s) BY <1>2, <1>3 DEF ToSend
<1>5. FormsTypeOK'
  <2>1. Contents(kind)' = Contents(kind) BY <1>2 DEF Contents
  <2>2. Going' = Going /\ Loading' = Loading BY <1>2, <2>1 DEF Going, Submitted, Loading
  <2> QED BY <1>1, <1>2, <1>4, <2>1, <2>2 DEF FormsTypeOK
<1>6. PartsWritten'
  <2>1. \A p \in rights \ ToSend(s) : Withheld(p)' BY <1>2, <1>3 DEF Withheld
  <2> QED BY <1>1, <1>2, <1>3, <1>4, <2>1 DEF PartsWritten
<1>7. RequiredComes'
  <2>1. PICK x : x = Submission' OBVIOUS
  <2>2. x.steps = s /\ x.sent = form /\ x.new = new BY <1>2, <1>4, <2>1 DEF Submission
  <2>3. UnderWay \subseteq UnderWay' /\ UnderWay' \subseteq UnderWay \cup {x}
    BY <1>2, <2>1 DEF UnderWay, Submission
  <2>4. \A y : ToWrite(y)' = ToWrite(y) BY <1>2 DEF ToWrite, ToSend, Keeps
  <2>5. Required' = Required BY <1>2 DEF Required
  <2>6. ~exists => Required \subseteq ToWrite(x)
    <3>1. ~exists => new BY <1>1 DEF PartsWritten
    <3>2. new => ToWrite(x) = ToSend(s) BY <2>2 DEF ToWrite, Keeps
    <3> QED BY <1>3, <3>1, <3>2
  <2>7. Pending \subseteq Pending' BY <2>3, <2>4 DEF Pending
  <2> SUFFICES ASSUME ~broken
               PROVE  /\ \A y \in UnderWay' : \A p \in Required : y.sent[p] # 0
                      /\ ~exists => \A y \in UnderWay' : Required \subseteq ToWrite(y)
                      /\ exists => \A p \in Required \ Pending' : record[p] # 0
    BY <1>2, <2>4, <2>5 DEF RequiredComes
  <2>8. /\ \A y \in UnderWay : \A p \in Required : y.sent[p] # 0
        /\ ~exists => \A y \in UnderWay : Required \subseteq ToWrite(y)
        /\ exists => \A p \in Required \ Pending : record[p] # 0
    BY <1>1 DEF RequiredComes
  <2> QED BY <1>3, <2>2, <2>3, <2>6, <2>7, <2>8
<1> QED BY <1>5, <1>6, <1>7 DEF FormsIInv

LEMMA WrittenHeld ==
  ASSUME FormsTypeOK, NEW s \in Going, NEW c, c = Written(s)
  PROVE  /\ c \in Contents(kind)
         /\ \A p \in Parts(kind) :
              c[p] = IF p \in Head(s.steps) /\ ~Keeps(s, p) THEN s.sent[p] ELSE record[p]
<1>1. /\ s.sent \in [Parts(kind) -> 0..2] /\ record \in [Parts(kind) -> 0..2]
      /\ \A p \in Parts(kind) : s.sent[p] \in Values(p) /\ record[p] \in Values(p)
  BY DEF FormsTypeOK, Contents, Going, Submitted
<1>2. PICK now, kept : now = Head(s.steps) /\ kept = {p \in Parts(kind) : Keeps(s, p)} OBVIOUS
<1>3. c = [p \in Parts(kind) |-> IF p \in now /\ p \notin kept THEN s.sent[p] ELSE record[p]]
  BY <1>2 DEF Written
<1>4. /\ c \in [Parts(kind) -> 0..2]
      /\ \A p \in Parts(kind) : c[p] = IF p \in now /\ p \notin kept THEN s.sent[p] ELSE record[p]
  BY <1>1, <1>3
<1>5. \A p \in Parts(kind) : c[p] \in Values(p) BY <1>1, <1>4
<1> QED BY <1>2, <1>4, <1>5 DEF Contents

\* What is asked for comes all the same when a request was served, of whichever page:
\* what it wrote is there, and nothing else has changed.
LEMMA ServedComes ==
  ASSUME FormsIInv, NEW s \in UnderWay, s \in Going, Served(s), NEW next,
         next = [s EXCEPT !.steps = Tail(@)],
         UnderWay \ {s} \subseteq UnderWay', UnderWay' \subseteq UnderWay \cup {next},
         next.steps # <<>> => next \in UnderWay',
         UNCHANGED <<kind, assigns, broken>>
  PROVE  RequiredComes'
<1>1. FormsTypeOK /\ RequiredComes BY DEF FormsIInv
<1>2. /\ record' = Written(s) /\ exists' = TRUE
      /\ s.steps \in Seq(SUBSET Parts(kind)) /\ s.steps # <<>>
      /\ next.steps = Tail(s.steps) /\ next.sent = s.sent /\ next.new = s.new
  BY DEF Served, Going, Submitted
<1>3. PICK now, rest : now = Head(s.steps) /\ rest = Tail(s.steps) OBVIOUS
<1>4. ToSend(s.steps) = now \cup ToSend(rest) BY <1>2, <1>3, TailToSend
<1>5. /\ \A y : ToWrite(y)' = ToWrite(y) /\ Required' = Required
      /\ \A p : Keeps(next, p) <=> Keeps(s, p)
  BY <1>2 DEF ToWrite, ToSend, Keeps, Required
<1>6. ToWrite(next) \subseteq Pending'
  <2>1. CASE next.steps = <<>> BY <2>1, NoneToSend DEF ToWrite
  <2>2. CASE next.steps # <<>> BY <1>5, <2>2 DEF Pending
  <2> QED BY <2>1, <2>2
<1>7. \A p \in Parts(kind) :
        record'[p] = IF p \in now /\ ~Keeps(s, p) THEN s.sent[p] ELSE record[p]
  BY <1>1, <1>2, <1>3, WrittenHeld
<1> SUFFICES ASSUME ~broken
             PROVE  /\ \A y \in UnderWay' : \A p \in Required : y.sent[p] # 0
                    /\ \A p \in Required \ Pending' : record'[p] # 0
  BY <1>2, <1>5 DEF RequiredComes
<1>8. /\ \A y \in UnderWay : \A p \in Required : y.sent[p] # 0
      /\ ~exists => Required \subseteq ToWrite(s)
      /\ exists => \A p \in Required \ Pending : record[p] # 0
  BY <1>1 DEF RequiredComes
<1>9. \A y \in UnderWay' : \A p \in Required : y.sent[p] # 0 BY <1>2, <1>8
<1>10. ASSUME NEW p \in Required \ Pending' PROVE record'[p] # 0
  <2>1. p \in Parts(kind) BY DEF Required
  <2>2. CASE p \in now /\ ~Keeps(s, p) BY <1>7, <1>8, <2>1, <2>2
  <2>3. CASE ~(p \in now /\ ~Keeps(s, p))
    <3>1. p \notin ToWrite(s)
      BY <1>2, <1>3, <1>4, <1>5, <1>6, <1>10, <2>3 DEF ToWrite
    <3>2. p \notin Pending
      <4>1. ASSUME NEW y \in UnderWay PROVE p \notin ToWrite(y)
        <5>1. CASE y = s BY <3>1, <5>1
        <5>2. CASE y # s BY <1>5, <1>10, <5>2 DEF Pending
        <5> QED BY <5>1, <5>2
      <4> QED BY <4>1 DEF Pending
    <3>3. exists /\ record[p] # 0 BY <1>1, <1>8, <1>10, <3>1, <3>2 DEF FormsTypeOK
    <3> QED BY <1>7, <2>1, <2>3, <3>3
  <2> QED BY <2>2, <2>3
<1> QED BY <1>9, <1>10

\* The parts that were in the answered request are written, the others as before.
LEMMA RequestAnsweredKeeps ==
  ASSUME FormsIInv, RequestAnswered
  PROVE  FormsIInv'
<1>1. FormsTypeOK /\ PartsWritten /\ RequiredComes BY DEF FormsIInv
<1>2. /\ steps # <<>> /\ Served(Submission) /\ record' = Written(Submission) /\ exists' = TRUE
      /\ steps' = Tail(steps)
      /\ told' = IF Len(steps) = 1 THEN "saved" ELSE told
      /\ UNCHANGED <<kind, rights, assigns, new, form, loads, sent, was, members, left, others, broken>>
  BY DEF RequestAnswered, Served, fixed, beyond
<1>3. PICK now, rest, s :
        now = Head(steps) /\ rest = Tail(steps) /\ s = Submission
  OBVIOUS
<1>4. steps \in Seq(SUBSET Parts(kind)) BY <1>1 DEF FormsTypeOK
<1>5. /\ rest \in Seq(SUBSET Parts(kind)) /\ now \subseteq Parts(kind)
      /\ ToSend(steps) = now \cup ToSend(rest)
      /\ Len(steps) = 1 <=> rest = <<>>
  BY <1>2, <1>3, <1>4, TailToSend
<1>6. /\ s \in Going /\ s.steps = steps /\ s.sent = sent /\ s.new = new
      /\ Submission' = [s EXCEPT !.steps = Tail(@)]
  <2>1. s \in Going /\ s.steps = steps /\ s.sent = sent /\ s.new = new
    BY <1>1, <1>2, <1>3 DEF FormsTypeOK, Submission, Going, Submitted
  <2>2. s = [steps |-> steps, sent |-> sent, new |-> new] BY <1>3 DEF Submission
  <2>3. Submission' = [steps |-> rest, sent |-> sent, new |-> new]
    BY <1>2, <1>3 DEF Submission
  <2>4. [s EXCEPT !.steps = rest] = Submission' BY <2>2, <2>3
  <2>5. [s EXCEPT !.steps = Tail(@)] = [s EXCEPT !.steps = rest] BY <1>3, <2>1, Zenon
  <2> QED BY <2>1, <2>4, <2>5
<1>7. /\ record' \in Contents(kind)
      /\ \A p \in Parts(kind) :
           record'[p] = IF p \in now /\ ~Keeps(s, p) THEN sent[p] ELSE record[p]
  BY <1>1, <1>2, <1>3, <1>6, WrittenHeld
<1>8. steps' = rest /\ ToSend(steps)' = ToSend(rest) BY <1>2, <1>3 DEF ToSend
<1>9. FormsTypeOK'
  <2>1. Contents(kind)' = Contents(kind) BY <1>2 DEF Contents
  <2>2. Going' = Going /\ Loading' = Loading BY <1>2, <2>1 DEF Going, Submitted, Loading
  <2> QED BY <1>1, <1>2, <1>5, <1>7, <1>8, <2>1, <2>2 DEF FormsTypeOK
<1>10. PartsWritten'
  <2>1. told' = "saved" => steps' = <<>> BY <1>1, <1>2, <1>5, <1>8 DEF PartsWritten
  <2>2. \A p : Withheld(p)' <=> Withheld(p) BY <1>2 DEF Withheld, Keeps, Submission
  <2>3. ASSUME ~others, NEW p \in Parts(kind)
        PROVE  /\ p \notin rights \/ Withheld(p) => record'[p] = was[p]
               /\ p \in rights \ ToSend(rest) /\ ~Withheld(p) => record'[p] = sent[p]
    <3>1. /\ p \notin rights \/ Withheld(p) => record[p] = was[p]
          /\ p \in rights \ ToSend(steps) /\ ~Withheld(p) => record[p] = sent[p]
      BY <1>1, <1>2, <2>3 DEF PartsWritten
    <3>2. Keeps(s, p) => Withheld(p) BY <1>3 DEF Withheld
    <3>3. p \in now /\ ~Keeps(s, p) => p \in rights /\ ~Withheld(p)
      BY <1>1, <1>3, <1>5 DEF PartsWritten, Withheld
    <3> QED BY <1>5, <1>7, <3>1, <3>2, <3>3
  <2> QED BY <1>1, <1>2, <1>5, <1>8, <2>1, <2>2, <2>3 DEF PartsWritten
<1>11. RequiredComes'
  <2>1. PICK next : next = Submission' OBVIOUS
  <2>2. /\ s \in UnderWay /\ UnderWay \ {s} \subseteq UnderWay'
        /\ UnderWay' \subseteq UnderWay \cup {next}
        /\ next.steps # <<>> => next \in UnderWay'
    BY <1>2, <1>3, <1>6, <2>1 DEF UnderWay
  <2>3. /\ s \in Going /\ Served(s) /\ next = [s EXCEPT !.steps = Tail(@)]
        /\ UNCHANGED <<kind, assigns, broken>>
    BY <1>2, <1>3, <1>6, <2>1, Zenon
  <2> QED BY <2>2, <2>3, ServedComes
<1> QED BY <1>9, <1>10, <1>11 DEF FormsIInv

LEMMA RequestFailedKeeps ==
  ASSUME FormsIInv, RequestFailed
  PROVE  FormsIInv'
<1>1. FormsTypeOK /\ PartsWritten /\ RequiredComes BY DEF FormsIInv
<1>2. /\ steps # <<>>
      /\ \/ record' = Written(Submission) /\ exists' = TRUE /\ left' = left
         \/ /\ record' = record /\ exists' = exists
            /\ left' = left \/ left' = Append(left, [Submission EXCEPT !.steps = <<Head(@)>>])
      /\ steps' = <<>> /\ sent' = Blank(kind) /\ was' = Blank(kind)
      /\ told' = "failed" /\ broken' = TRUE
      /\ UNCHANGED <<kind, rights, assigns, new, form, loads, members, others>>
  BY DEF RequestFailed, Served, fixed, formPage, tenant
<1>3. PICK s : s = Submission OBVIOUS
<1>4. s \in Going /\ s.steps = steps BY <1>1, <1>2, <1>3 DEF FormsTypeOK, Submission, Going, Submitted
<1>5. record' \in Contents(kind)
  <2>1. PICK w : w = Written(s) OBVIOUS
  <2>2. w \in Contents(kind) BY <1>1, <1>4, <2>1, WrittenHeld
  <2>3. w = Written(Submission) BY <1>3, <2>1, Zenon
  <2>4. record' = w \/ record' = record BY <1>2, <2>3
  <2>5. record \in Contents(kind) BY <1>1 DEF FormsTypeOK
  <2> QED BY <2>2, <2>4, <2>5
<1>6. exists' \in BOOLEAN /\ (~exists' => ~exists)
  <2>1. exists' = TRUE \/ exists' = exists BY <1>2, Zenon
  <2>2. exists \in BOOLEAN BY <1>1 DEF FormsTypeOK
  <2>3. CASE exists' = TRUE BY <2>3
  <2>4. CASE exists' = exists BY <2>2, <2>4
  <2> QED BY <2>1, <2>3, <2>4
<1>7. left' \in Seq(Going)
  <2>1. CASE left' = left BY <1>1, <2>1 DEF FormsTypeOK
  <2>2. CASE left' = Append(left, [Submission EXCEPT !.steps = <<Head(@)>>])
    <3>1. PICK now : now = Head(steps) OBVIOUS
    <3>2. now \in SUBSET Parts(kind) BY <1>1, <1>2, <3>1, TailToSend DEF FormsTypeOK
    <3>3. <<now>> \in Seq(SUBSET Parts(kind)) /\ <<now>> # <<>> BY <3>2
    <3>4. PICK x : x = [s EXCEPT !.steps = <<now>>] OBVIOUS
    <3>5. x \in Going BY <1>4, <3>3, <3>4 DEF Going, Submitted
    <3>6. left' = Append(left, x) BY <1>3, <1>4, <2>2, <3>1, <3>4
    <3>7. left \in Seq(Going) BY <1>1 DEF FormsTypeOK
    <3> QED BY <3>5, <3>6, <3>7, AppendProperties
  <2> QED BY <1>2, <2>1, <2>2
<1>8. FormsTypeOK'
  <2>1. Contents(kind)' = Contents(kind) BY <1>2 DEF Contents
  <2>2. Going' = Going /\ Loading' = Loading BY <1>2, <2>1 DEF Going, Submitted, Loading
  <2>3. steps' \in Seq(SUBSET Parts(kind)) BY <1>2
  <2>4. sent' \in Contents(kind) /\ was' \in Contents(kind) BY <1>2, BlankHeld
  <2> QED BY <1>1, <1>2, <1>5, <1>6, <1>7, <2>1, <2>2, <2>3, <2>4 DEF FormsTypeOK
<1>9. PartsWritten'
  <2>1. ToSend(steps)' = {} BY <1>2, NoneToSend DEF ToSend
  <2> QED BY <1>1, <1>2, <1>6, <2>1 DEF PartsWritten
<1>10. RequiredComes' BY <1>2 DEF RequiredComes
<1> QED BY <1>8, <1>9, <1>10 DEF FormsIInv

\* Whatever else is written ends the claim of the submission that is under way.
LEMMA WrittenBeside ==
  ASSUME FormsIInv, others' = TRUE, exists' \in BOOLEAN, exists => exists',
         record' \in Contents(kind), left' \in Seq(Going),
         UNCHANGED <<kind, rights, assigns, new, form, loads, steps, sent, was, told, members, broken>>
  PROVE  FormsTypeOK' /\ PartsWritten'
<1>1. FormsTypeOK /\ PartsWritten BY DEF FormsIInv
<1>2. FormsTypeOK'
  <2>1. Contents(kind)' = Contents(kind) BY DEF Contents
  <2>2. Going' = Going /\ Loading' = Loading BY <2>1 DEF Going, Submitted, Loading
  <2> QED BY <1>1, <2>1, <2>2 DEF FormsTypeOK
<1>3. PartsWritten' BY <1>1 DEF PartsWritten, ToSend
<1> QED BY <1>2, <1>3

LEMMA LeftServedKeeps ==
  ASSUME FormsIInv, NEW i \in DOMAIN left, LeftServed(i)
  PROVE  FormsIInv'
<1>1. FormsTypeOK /\ RequiredComes /\ left \in Seq(Going) BY DEF FormsIInv, FormsTypeOK
<1>2. PICK s : s = left[i] OBVIOUS
<1>3. s \in Going /\ i \in 1..Len(left) /\ DOMAIN left = 1..Len(left) /\ Len(left) \in Nat
  BY <1>1, <1>2
<1>4. /\ Served(s) /\ record' = Written(s) /\ exists' = TRUE /\ others' = TRUE
      /\ left' = IF Len(s.steps) = 1 THEN RemoveAt(left, i)
                 ELSE [left EXCEPT ![i].steps = Tail(@)]
      /\ UNCHANGED <<kind, rights, assigns, new, form, loads, steps, sent, was, told, members, broken>>
  BY <1>2 DEF LeftServed, Served, fixed, formPage, submission, tenant
<1>5. record' \in Contents(kind) BY <1>1, <1>3, <1>4, WrittenHeld
<1>6. PICK next : next = [s EXCEPT !.steps = Tail(@)] OBVIOUS
<1>7. /\ s.steps \in Seq(SUBSET Parts(kind)) /\ s.steps # <<>>
      /\ next.steps = Tail(s.steps) /\ next.steps \in Seq(SUBSET Parts(kind))
      /\ Len(s.steps) = 1 <=> next.steps = <<>>
      /\ next \in Submitted
  <2>1. s.steps \in Seq(SUBSET Parts(kind)) /\ s.steps # <<>> /\ s \in Submitted
    BY <1>3 DEF Going, Submitted
  <2>2. PICK rest : rest = Tail(s.steps) OBVIOUS
  <2>3. rest \in Seq(SUBSET Parts(kind)) /\ (Len(s.steps) = 1 <=> rest = <<>>)
    BY <2>1, <2>2, TailToSend
  <2>4. next = [s EXCEPT !.steps = rest] BY <1>6, <2>2
  <2> QED BY <2>1, <2>2, <2>3, <2>4 DEF Submitted
<1>8. /\ left' \in Seq(Going)
      /\ Range(left)' \subseteq Range(left) \cup {next}
      /\ Range(left) \ {s} \subseteq Range(left)'
      /\ next.steps # <<>> => next \in Range(left)'
  <2>1. CASE Len(s.steps) = 1
    <3>1. /\ left' \in Seq(Going) /\ DOMAIN left' = 1..(Len(left) - 1)
          /\ \A j \in 1..(Len(left) - 1) : left'[j] = left[IF j < i THEN j ELSE j + 1]
      <4>1. /\ RemoveAt(left, i) \in Seq(Going) /\ Len(RemoveAt(left, i)) = Len(left) - 1
            /\ \A j \in 1..(Len(left) - 1) : RemoveAt(left, i)[j] = left[IF j < i THEN j ELSE j + 1]
        BY <1>1, <1>3, Removed
      <4>2. left' = RemoveAt(left, i) BY <1>4, <2>1
      <4> QED BY <4>1, <4>2
    <3>2. \A j \in DOMAIN left' : \E k \in DOMAIN left : left'[j] = left[k]
      <4> SUFFICES ASSUME NEW j \in DOMAIN left' PROVE \E k \in DOMAIN left : left'[j] = left[k]
        OBVIOUS
      <4>1. (IF j < i THEN j ELSE j + 1) \in DOMAIN left BY <1>3, <3>1
      <4> QED BY <3>1, <4>1
    <3>3. \A k \in DOMAIN left : k # i => \E j \in DOMAIN left' : left'[j] = left[k]
      <4> SUFFICES ASSUME NEW k \in DOMAIN left, k # i
                   PROVE  \E j \in DOMAIN left' : left'[j] = left[k]
        OBVIOUS
      <4>1. CASE k < i
        <5>1. k \in DOMAIN left' BY <1>3, <3>1, <4>1
        <5> QED BY <3>1, <4>1, <5>1
      <4>2. CASE ~(k < i)
        <5>1. k - 1 \in DOMAIN left' /\ ~(k - 1 < i) /\ (k - 1) + 1 = k BY <1>3, <3>1, <4>2
        <5>2. left'[k - 1] = left[k] BY <3>1, <5>1
        <5> QED BY <5>1, <5>2
      <4> QED BY <4>1, <4>2
    <3>4. Range(left)' \subseteq Range(left) /\ Range(left) \ {s} \subseteq Range(left)'
      BY <1>2, <3>2, <3>3 DEF Range
    <3> QED BY <1>7, <2>1, <3>1, <3>4
  <2>2. CASE Len(s.steps) # 1
    <3>1. next \in Going BY <1>7, <2>2 DEF Going
    <3>2. left' = [left EXCEPT ![i] = next] BY <1>2, <1>4, <1>6, <2>2
    <3>3. /\ left' \in Seq(Going) /\ DOMAIN left' = DOMAIN left
          /\ left'[i] = next /\ \A j \in DOMAIN left : j # i => left'[j] = left[j]
      BY <1>1, <3>1, <3>2, ChangedAt
    <3> QED BY <1>2, <3>3 DEF Range
  <2> QED BY <2>1, <2>2
<1>9. FormsTypeOK' /\ PartsWritten' BY <1>4, <1>5, <1>8, WrittenBeside
<1>10. RequiredComes'
  <2>1. Submission' = Submission BY <1>4 DEF Submission
  <2>2. s \in Range(left) BY <1>2 DEF Range
  <2>3. /\ s \in UnderWay /\ UnderWay \ {s} \subseteq UnderWay'
        /\ UnderWay' \subseteq UnderWay \cup {next}
        /\ next.steps # <<>> => next \in UnderWay'
    BY <1>7, <1>8, <2>1, <2>2 DEF UnderWay
  <2> QED BY <1>3, <1>4, <1>6, <2>3, ServedComes
<1> QED BY <1>9, <1>10 DEF FormsIInv

LEMMA LeftFailedKeeps ==
  ASSUME FormsIInv, NEW i \in DOMAIN left, LeftFailed(i)
  PROVE  FormsIInv'
<1>1. FormsTypeOK /\ PartsWritten /\ left \in Seq(Going) BY DEF FormsIInv, FormsTypeOK
<1>2. /\ left' = RemoveAt(left, i) /\ broken' = TRUE
      /\ UNCHANGED <<kind, rights, assigns, new, exists, record, form, loads, steps, sent, was, told,
                     members, others>>
  BY DEF LeftFailed, fixed, formPage, submission, tenant
<1>3. left' \in Seq(Going)
  <2>1. i \in 1..Len(left) BY <1>1
  <2> QED BY <1>1, <1>2, <2>1, Removed
<1>4. FormsTypeOK'
  <2>1. Contents(kind)' = Contents(kind) BY <1>2 DEF Contents
  <2>2. Going' = Going /\ Loading' = Loading BY <1>2, <2>1 DEF Going, Submitted, Loading
  <2> QED BY <1>1, <1>2, <1>3, <2>1, <2>2 DEF FormsTypeOK
<1>5. PartsWritten' BY <1>1, <1>2 DEF PartsWritten, ToSend, Withheld, Keeps, Submission
<1>6. RequiredComes' BY <1>2 DEF RequiredComes
<1> QED BY <1>4, <1>5, <1>6 DEF FormsIInv

LEMMA OtherAdminKeeps ==
  ASSUME FormsIInv, OtherAdmin
  PROVE  FormsIInv'
<1>1. FormsTypeOK /\ RequiredComes BY DEF FormsIInv
<1>2. /\ exists /\ record' \in Stored(kind) /\ others' = TRUE
      /\ UNCHANGED <<kind, rights, assigns, new, exists, form, loads, steps, sent, was, told,
                     members, left, broken>>
  BY DEF OtherAdmin, fixed, formPage, submission, tenant
<1>3. record' \in Contents(kind) /\ \A p \in Required : record'[p] # 0
  BY <1>2 DEF Stored, Required
<1>4. FormsTypeOK' /\ PartsWritten' BY <1>1, <1>2, <1>3, WrittenBeside DEF FormsTypeOK
<1>5. RequiredComes'
  <2>1. UnderWay' = UnderWay BY <1>2 DEF UnderWay, Submission
  <2>2. Required' = Required BY <1>2 DEF Required
  <2> QED BY <1>1, <1>2, <1>3, <2>1, <2>2 DEF RequiredComes
<1> QED BY <1>4, <1>5 DEF FormsIInv

LEMMA FormsInitInv == ASSUME FormsInit PROVE FormsIInv
<1>1. /\ kind \in Kinds /\ new \in BOOLEAN /\ exists = ~new
      /\ record \in IF new THEN {Blank(kind)} ELSE Stored(kind)
      /\ form = Blank(kind) /\ sent = form /\ was = form /\ steps = <<>> /\ told = "nothing"
      /\ members = 0 /\ left = <<>>
      /\ others = FALSE /\ broken = FALSE
      /\ loads = IF new THEN <<>> ELSE <<Unserved>>
  BY DEF FormsInit
<1>2. /\ rights \subseteq Parts(kind)
      /\ kind # "role" => rights = Parts(kind)
  BY DEF FormsInit
<1>3. loads \in Seq(Loading)
  <2>1. Unserved \in Loading BY DEF Loading
  <2>2. CASE new BY <1>1, <2>2
  <2>3. CASE ~new BY <1>1, <2>1, <2>3
  <2> QED BY <2>2, <2>3
<1>4. record \in Contents(kind) /\ (exists => record \in Stored(kind))
  BY <1>1, BlankHeld DEF Stored
<1>5. form \in Contents(kind) BY <1>1, BlankHeld
<1>6. steps \in Seq(SUBSET Parts(kind)) /\ left \in Seq(Going) BY <1>1
<1>7. FormsTypeOK BY <1>1, <1>2, <1>3, <1>4, <1>5, <1>6 DEF FormsTypeOK
<1>8. PartsWritten BY <1>1, NoneToSend DEF PartsWritten
<1>9. UnderWay = {} BY <1>1 DEF UnderWay, Submission, Range
<1>10. RequiredComes BY <1>1, <1>4, <1>9 DEF RequiredComes, Required, Stored
<1> QED BY <1>7, <1>8, <1>10 DEF FormsIInv

LEMMA FormsNextInv ==
  ASSUME FormsIInv, [FormsNext]_formsVars
  PROVE  FormsIInv'
<1>1. CASE OpenForm BY <1>1, OpenFormKeeps
<1>2. CASE LeaveForm \/ SwitchLanguage \/ RolesAnswered \/ Edit BY <1>2, FormKeeps
<1>3. CASE \E i \in DOMAIN loads : LoadRead(i) \/ LoadAnswered(i) \/ LoadFailed(i) BY <1>3, LoadKeeps
<1>4. CASE Submit BY <1>4, SubmitKeeps
<1>5. CASE RequestAnswered BY <1>5, RequestAnsweredKeeps
<1>6. CASE RequestFailed BY <1>6, RequestFailedKeeps
<1>7. CASE OtherAdmin BY <1>7, OtherAdminKeeps
<1>8. CASE \E i \in DOMAIN left : LeftServed(i) \/ LeftFailed(i)
  BY <1>8, LeftServedKeeps, LeftFailedKeeps
<1>9. CASE AddMember \/ MemberAdded \/ AddAnswered BY <1>9, MembersKeep
<1>10. CASE UNCHANGED formsVars
  <2>1. UNCHANGED <<beside, form, loads, told, members>>
    BY <1>10 DEF formsVars, fixed, formPage, submission, tenant, beyond, beside
  <2>2. form \in Contents(kind) /\ loads \in Seq(Loading) /\ members \in Nat
    BY DEF FormsIInv, FormsTypeOK
  <2> QED BY <2>1, <2>2, FormOnly
<1> QED BY <1>1, <1>2, <1>3, <1>4, <1>5, <1>6, <1>7, <1>8, <1>9, <1>10 DEF FormsNext

\* A submission, request after request: each part that was sent is written, or left as
\* the server leaves it, and no other part has changed, unless somebody else or a page
\* that is gone wrote meanwhile; and what the server asks for is in the record or still
\* to be sent, unless a request failed or the tab was reloaded.
THEOREM FormsIInvHolds == FormsSpec => []FormsIInv
<1>1. FormsInit => FormsIInv BY FormsInitInv
<1>2. FormsIInv /\ [FormsNext]_formsVars => FormsIInv' BY FormsNextInv
<1> QED BY <1>1, <1>2, PTL DEF FormsSpec

\* So success is told when the record is what it was, changed by what was submitted and
\* the server does not leave alone; and a role lacks permissions or menus only where a
\* failure was told or the tab was reloaded, once nothing is being sent (onSubmit of
\* the pages, Update of the services).
THEOREM SaidAlwaysDone == FormsSpec => []SaidAndDone
<1>1. FormsIInv => SaidAndDone
  <2> SUFFICES ASSUME FormsIInv PROVE SaidAndDone OBVIOUS
  <2>1. /\ PartsWritten /\ RequiredComes
        /\ record \in Contents(kind)
    BY DEF FormsIInv, FormsTypeOK
  <2>2. ASSUME told = "saved", ~others
        PROVE  record = [p \in Parts(kind) |->
                           IF p \in rights /\ ~Withheld(p) THEN sent[p] ELSE was[p]]
    <3>1. steps = <<>> /\ ToSend(steps) = {} BY <2>1, <2>2, NoneToSend DEF PartsWritten
    <3>2. \A p \in Parts(kind) :
            record[p] = IF p \in rights /\ ~Withheld(p) THEN sent[p] ELSE was[p]
      BY <2>1, <2>2, <3>1 DEF PartsWritten
    <3>3. record \in [Parts(kind) -> 0..2] BY <2>1 DEF Contents
    <3> QED BY <3>2, <3>3
  <2>3. ASSUME exists, steps = <<>>, left = <<>>, ~broken PROVE record \in Stored(kind)
    <3>1. UnderWay = {} BY <2>3 DEF UnderWay, Submission, Range
    <3>2. \A p \in Required : record[p] # 0 BY <2>1, <2>3, <3>1 DEF RequiredComes, Pending
    <3> QED BY <2>1, <3>2 DEF Required, Stored
  <2> QED BY <2>2, <2>3 DEF SaidAndDone
<1> QED BY <1>1, FormsIInvHolds, PTL
=============================================================================
