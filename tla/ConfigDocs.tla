----------------------------- MODULE ConfigDocs -----------------------------
(***************************************************************************)
(* The configuration document of a site (dto.AnniversarySiteConfig) and    *)
(* the edits of the setup API.  A document is its list of moments and      *)
(* everything else, its body.  The list is kept sorted by year, so it is a *)
(* set here; two moments may share a year.                                 *)
(***************************************************************************)
CONSTANTS
  Bodies,   \* contents of the fields other than the moments
  Years,    \* anniversary numbers
  Texts,    \* contents of a moment
  BuiltIn,  \* defaultConfig()
  Edits     \* what clients submit

Moment == [year : Years, text : Texts]
Doc == [body : Bodies, moments : SUBSET Moment]

\* PUT config replaces the document, PUT moments the list; POST adds a moment
\* and DELETE removes those of a year.
Edit == [op : {"update"}, doc : Doc]
          \cup [op : {"replace"}, moments : SUBSET Moment]
          \cup [op : {"add"}, moment : Moment]
          \cup [op : {"delete"}, year : Years]

ASSUME ConfigAssumption ==
  /\ BuiltIn \in Doc /\ BuiltIn.moments # {}
  /\ Edits \subseteq Edit

\* mutant: an empty list stays empty
SanitizeNothing(d) == d

\* sanitizeConfig: a document without moments gets the built-in ones.  What it
\* trims and fills in inside a text is left out: texts are equal here up to what
\* it fills in (SanitizeMoments has the detail).  A malformed date is an error
\* of the request.
Sanitize(d) == IF d.moments = {} THEN [d EXCEPT !.moments = BuiltIn.moments] ELSE d

Applied(e, d) ==
  CASE e.op = "update"  -> e.doc
    [] e.op = "replace" -> [d EXCEPT !.moments = e.moments]
    [] e.op = "add"     -> [d EXCEPT !.moments = @ \cup {e.moment}]
    [] e.op = "delete"  -> [d EXCEPT !.moments = {m \in @ : m.year # e.year}]

\* DeleteMoment refuses a year the document does not have.
Applies(e, d) == e.op = "delete" => \E m \in d.moments : m.year = e.year

Normal(d) == d.moments # {}
=============================================================================
