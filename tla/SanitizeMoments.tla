-------------------------- MODULE SanitizeMoments --------------------------
(***************************************************************************)
(* The moments of one stored configuration under the setup API, in detail: *)
(* the part of sanitizeConfig (store_json.go) that fills in the years,     *)
(* titles and notes a client left blank and sorts by year, applied on      *)
(* every Load and every Save.  What it fills in depends on the position of *)
(* a moment before the sort.  One client at a time (AnniversaryStore has   *)
(* the races); dates depend on the year only and are left out.             *)
(***************************************************************************)
EXTENDS Integers, Sequences, FiniteSets

CONSTANTS
  Own,         \* a title or note that a client wrote
  Blank,       \* an empty one
  Defaults,    \* defaultConfig().Moments
  ClientYears, \* the years that clients send; 0 when they send none
  MaxMoments   \* bound: moments in a configuration, few enough for a stable sort

Input == [year : ClientYears, title : {Own, Blank}, note : {Own, Blank}]
Inputs == UNION {[1 .. n -> Input] : n \in 0 .. 2}

ASSUME SanitizeAssumption ==
  /\ ClientYears \subseteq Nat /\ MaxMoments \in 2 .. 12 /\ Len(Defaults) \in 1 .. 12
  /\ Own # Blank /\ Blank \notin {"ke"} \X Nat
  /\ Defaults = [i \in 1 .. Len(Defaults) |->
                   [year |-> i, title |-> Defaults[i].title, note |-> Defaults[i].note]]
  /\ \A i \in DOMAIN Defaults : Defaults[i].title # Blank /\ Defaults[i].note # Blank

VARIABLE moments

Or(text, fallback) == IF text = Blank THEN fallback ELSE text

\* mutant: a moment without a year stays without
FilledKeepingYear(m, i) ==
  [year  |-> m.year,
   title |-> Or(m.title, IF i =< Len(Defaults) THEN Defaults[i].title ELSE <<"ke", m.year>>),
   note  |-> Or(m.note, IF i =< Len(Defaults) THEN Defaults[i].note ELSE Blank)]

\* The i-th moment: past the built-in ones a blank title gets its number, and a
\* blank note stays blank.
Filled(m, i) ==
  LET year == IF m.year = 0 THEN i ELSE m.year IN
  [year  |-> year,
   title |-> Or(m.title, IF i =< Len(Defaults) THEN Defaults[i].title ELSE <<"ke", year>>),
   note  |-> Or(m.note, IF i =< Len(Defaults) THEN Defaults[i].note ELSE Blank)]

\* mutant: moments of a year trade places
FlippedTies(s, i, j) ==
  s[i].year < s[j].year \/ (s[i].year = s[j].year /\ i > j)

\* sort.Slice sorts up to twelve elements by insertion, which is stable.
Before(s, i, j) ==
  s[i].year < s[j].year \/ (s[i].year = s[j].year /\ i < j)

\* The elements of s, each at the place that what comes before it leaves it.
Arranged(s, before) ==
  [k \in 1 .. Cardinality(DOMAIN before) |->
     s[CHOOSE i \in DOMAIN before : Cardinality(before[i]) = k - 1]]

SortedByYear(s) == Arranged(s, [i \in DOMAIN s |-> {j \in DOMAIN s : Before(s, j, i)}])

Sanitized(s) ==
  LET base == IF s = << >> THEN Defaults ELSE s
  IN SortedByYear([i \in DOMAIN base |-> Filled(base[i], i)])

-----------------------------------------------------------------------------
MomentsInit == moments = Sanitized(Defaults)

\* Each edit is a Load, whose result is stored, and a Save.
Load == moments' = Sanitized(moments)

\* UpdateConfig and ReplaceMoments: the client sends the whole list.
ReplaceMoments == \E s \in Inputs : moments' = Sanitized(s)

AddMoment ==
  /\ Len(moments) < MaxMoments
  /\ \E m \in Input : moments' = Sanitized(Append(Sanitized(moments), m))

Without(s, year) ==
  LET kept == {i \in DOMAIN s : s[i].year # year} IN
  Arranged(s, [i \in kept |-> {j \in kept : j < i}])

DeleteMoment ==
  \E year \in {moments[i].year : i \in DOMAIN moments} :
    moments' = Sanitized(Without(Sanitized(moments), year))

MomentsNext == Load \/ ReplaceMoments \/ AddMoment \/ DeleteMoment

MomentsSpec == MomentsInit /\ [][MomentsNext]_moments

-----------------------------------------------------------------------------
\* What is stored is there to be shown: some moments, in the order of their
\* years, each with a year and a title.
Presentable ==
  /\ moments # << >>
  /\ \A i \in DOMAIN moments :
       /\ moments[i].year > 0 /\ moments[i].title # Blank
       /\ \A j \in 1 .. i : moments[j].year =< moments[i].year

\* A stored configuration settles with the next Load: later Loads write back
\* what they read.
Settles == Sanitized(Sanitized(moments)) = Sanitized(moments)

\* A Load changes nothing of what a client wrote: same years in the same order,
\* and a text changes only where it was blank.
LoadsKeepTexts ==
  [][Load => /\ Len(moments') = Len(moments)
             /\ \A i \in DOMAIN moments :
                  /\ moments'[i].year = moments[i].year
                  /\ moments'[i].title = moments[i].title
                  /\ moments[i].note # Blank => moments'[i].note = moments[i].note]_moments
=============================================================================
