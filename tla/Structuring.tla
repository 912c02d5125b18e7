----------------------------- MODULE Structuring -----------------------------
(***************************************************************************)
(* From a model's reading of a resume to the structured resume             *)
(* (pipeline/structure.py): near misses of the closed vocabularies are     *)
(* coerced, unusable entries dropped, and the schema validated             *)
(* (schemas.py).                                                           *)
(*                                                                         *)
(* A value of a vocabulary is written in lower case with underscores: the  *)
(* code looks it up so that case, blanks and hyphens do not count.  A      *)
(* number that is text is that number; "junk" is text that is no number.   *)
(***************************************************************************)
EXTENDS Naturals, SequencesExt

None == "None"

\* _ENUMS: what each vocabulary allows, and what becomes of the rest.
Allowed == [
    category        |-> {"technical", "domain", "language", "tool", "soft", "other"},
    proficiency     |-> {"beginner", "intermediate", "advanced", "expert"},
    seniority       |-> {"intern", "graduate", "junior", "mid", "senior", "lead", "principal", "manager",
                         "head", "director", "executive"},
    employment_type |-> {"permanent", "contract", "casual", "internship", "freelance", "volunteer", "other"},
    status          |-> {"citizen", "permanent_resident", "visa_unrestricted", "visa_restricted",
                         "requires_sponsorship", "unknown"}]
Fallback == [category |-> "other", proficiency |-> None, seniority |-> None, employment_type |-> None,
             status |-> "unknown"]

\* _SYNONYMS, by what they stand for.
SYNONYMS == [
    proficiency     |-> [advanced |-> {"fluent", "proficient", "professional", "strong"},
                         expert |-> {"native", "senior"}, beginner |-> {"basic", "novice"},
                         intermediate |-> {"working"}],
    seniority       |-> [senior |-> {"sr"}, principal |-> {"staff", "architect"},
                         junior |-> {"jr", "associate", "entry", "entry_level"},
                         executive |-> {"vp", "chief", "c_level"}, intern |-> {"trainee", "apprentice"}],
    employment_type |-> [permanent |-> {"full_time", "part_time"}, contract |-> {"fixed_term", "contractor"},
                         freelance |-> {"consultant"}, internship |-> {"intern"},
                         casual |-> {"temp", "temporary"}],
    category        |-> [technical |-> {"programming", "software"}, soft |-> {"interpersonal", "communication"},
                         tool |-> {"framework", "platform", "cloud", "database"},
                         language |-> {"spoken", "languages"}],
    status          |-> [unknown |-> {}]]

Synonyms(key, value) == {word \in DOMAIN SYNONYMS[key] : value \in SYNONYMS[key][word]}

\* _coerce: nothing stays nothing, except for the work rights.
Coerce(key, value) ==
    IF value = None THEN (IF Fallback[key] = "unknown" THEN "unknown" ELSE None)
    ELSE IF value \in Allowed[key] THEN value
    ELSE IF Synonyms(key, value) # {} THEN CHOOSE word \in Synonyms(key, value) : TRUE
    ELSE Fallback[key]

\* float(...), and int(float(...)): an infinite number has no integer, and that
\* error is not caught.
Numeric(value) == IF value = "junk" THEN None ELSE value
Overflows(data) == \E i \in DOMAIN data.roles : data.roles[i].team_size = "infinite"

\* normalise_model_output: skills without a name are dropped.
Normalised(data) ==
    LET named == SelectSeq(data.skills, LAMBDA s : s.name # None)
    IN [skills |-> [i \in DOMAIN named |->
            [named[i] EXCEPT !.category = Coerce("category", @), !.proficiency = Coerce("proficiency", @),
                             !.years = Numeric(@)]],
        roles  |-> [i \in DOMAIN data.roles |->
            [data.roles[i] EXCEPT !.seniority = Coerce("seniority", @),
                                  !.employment_type = Coerce("employment_type", @),
                                  !.months = Numeric(@), !.team_size = Numeric(@)]],
        status |-> Coerce("status", data.status)]

\* The schema: a skill has a category and the work rights a status.
Fits(key, value) ==
    value \in Allowed[key] \/ (value = None /\ key \notin {"category", "status"})
Valid(facts) ==
    /\ \A i \in DOMAIN facts.skills :
           Fits("category", facts.skills[i].category) /\ Fits("proficiency", facts.skills[i].proficiency)
    /\ \A i \in DOMAIN facts.roles :
           Fits("seniority", facts.roles[i].seniority) /\ Fits("employment_type", facts.roles[i].employment_type)
    /\ Fits("status", facts.status)
=============================================================================
