------------------------------ MODULE DslFields ------------------------------
(***************************************************************************)
(* The vocabulary of the rule language (dsl/fields.py): the fields a rule  *)
(* may test, the records it may quantify over, the names it may not use,   *)
(* and how each field reads an anonymized profile (schemas.py).            *)
(*                                                                         *)
(* A fact is a set: {} when the resume does not state it, {v} when it      *)
(* does.  Names are their lower-case form, a text is its set of words, and *)
(* numbers are counted in hundredths.                                      *)
(***************************************************************************)
EXTENDS Integers, SequencesExt

NumberFields == {
    "years_experience", "role_count", "current_role_count", "total_role_months",
    "longest_role_months", "shortest_role_months", "average_role_months", "current_role_months",
    "latest_role_months", "leadership_role_count", "contract_role_count", "permanent_role_count",
    "management_years", "people_managed_max", "seniority_level", "industry_count", "aqf",
    "qualification_count", "degree_count", "publications_count", "skill_count",
    "technical_skill_count", "max_skill_years", "certification_count", "licence_count",
    "language_count", "project_count", "technology_count", "availability_weeks"}
ListFields == {
    "skills", "technical_skills", "tool_skills", "domain_skills", "soft_skills", "language_skills",
    "expert_skills", "skills_with_years", "technologies", "languages", "certifications", "licences",
    "role_titles", "current_role_titles", "employers", "industries", "employment_types",
    "seniorities", "qualification_titles", "fields_of_study", "aqf_labels", "project_names",
    "project_technologies"}
TextFields == {"current_role_title", "latest_role_title", "highest_qualification", "security_clearance"}
EnumFields == {"work_rights", "highest_seniority", "latest_seniority", "latest_employment_type"}
BoolFields == {
    "has_current_role", "has_degree", "has_postgraduate", "has_masters", "has_doctorate",
    "has_certifications", "has_licence", "has_clearance", "has_management_experience",
    "has_projects", "has_publications", "multilingual", "work_rights_unrestricted",
    "requires_sponsorship"}
FIELDS == NumberFields \cup ListFields \cup TextFields \cup EnumFields \cup BoolFields

\* The first of a record's names in the code; its attributes, by kind.
RECORDS == [
    skill |-> [number |-> {"years"}, text |-> {"name", "evidence"},
               enum |-> {"category", "proficiency"}, bool |-> {}, list |-> {}],
    role |-> [number |-> {"months", "team_size"}, text |-> {"title", "employer", "industry", "summary"},
              enum |-> {"seniority", "employment_type"}, bool |-> {"is_current"}, list |-> {"technologies"}],
    qualification |-> [number |-> {"aqf"}, text |-> {"title", "field_of_study", "aqf_label"},
                       enum |-> {}, bool |-> {}, list |-> {}],
    project |-> [number |-> {"months"}, text |-> {"name", "summary"},
                 enum |-> {}, bool |-> {}, list |-> {"technologies"}]]
Kinds == {"number", "text", "enum", "bool", "list"}

\* "none" is the profile itself, "unknown" the kind of a name that is not there.
KindOf(record, name) ==
    LET kinds == IF record # "none" THEN RECORDS[record]
                 ELSE [number |-> NumberFields, text |-> TextFields, enum |-> EnumFields,
                       bool |-> BoolFields, list |-> ListFields]
    IN IF \E k \in Kinds : name \in kinds[k] THEN CHOOSE k \in Kinds : name \in kinds[k] ELSE "unknown"

Ladder == <<"intern", "graduate", "junior", "mid", "senior", "lead", "principal",
            "manager", "head", "director", "executive">>
LeadershipLevels == {"lead", "principal", "manager", "head", "director", "executive"}
EmploymentTypes == {"permanent", "contract", "casual", "internship", "freelance", "volunteer", "other"}
WorkRights == {"citizen", "permanent_resident", "visa_unrestricted", "visa_restricted",
               "requires_sponsorship"}

EnumValues(name) ==
    CASE name = "work_rights" -> WorkRights \cup {"unrestricted"}
      [] name \in {"highest_seniority", "latest_seniority", "seniority"} -> Range(Ladder)
      [] name \in {"latest_employment_type", "employment_type"} -> EmploymentTypes
      [] name = "category" -> {"technical", "domain", "language", "tool", "soft", "other"}
      [] name = "proficiency" -> {"beginner", "intermediate", "advanced", "expert"}
      [] OTHER -> {}

ALIASES ==
    [n \in {"total_years_experience", "years", "experience", "experience_years",
            "years_of_experience"} |-> "years_experience"] @@
    [n \in {"highest_aqf", "aqf_level", "qualification_level"} |-> "aqf"] @@
    [n \in {"licenses", "licence", "license"} |-> "licences"] @@
    [n \in {"titles", "roles", "positions"} |-> "role_titles"] @@
    [n \in {"companies", "company"} |-> "employers"] @@
    [n \in {"degrees", "qualifications"} |-> "qualification_titles"] @@
    [n \in {"tech", "tech_stack", "stack"} |-> "technologies"] @@
    [n \in {"certs", "certification"} |-> "certifications"] @@
    [work_rights_status |-> "work_rights", skill |-> "skills", language |-> "languages",
     tools |-> "tool_skills", seniority |-> "highest_seniority", team_size |-> "people_managed_max",
     clearance |-> "security_clearance", notice_period_weeks |-> "availability_weeks",
     projects |-> "project_names"]

RECORD_ALIASES ==
    [n \in {"roles", "experience", "job", "jobs", "position", "positions", "employment"} |-> "role"] @@
    [n \in {"qualifications", "degree", "degrees", "education", "award"} |-> "qualification"] @@
    [skills |-> "skill", projects |-> "project"]

FORBIDDEN == {
    "region", "suburb", "postcode", "location", "city", "state", "institution", "institution_tiers",
    "institution_tier", "university", "universities", "completion_year", "graduation_year", "start",
    "end", "start_year", "age", "date_of_birth", "name", "full_name", "email", "phone", "gender",
    "sex", "nationality", "citizenship", "country", "visa", "visa_subclass", "religion",
    "disability", "marital_status", "children", "summary", "affiliations",
    "job_relevant_affiliations", "career_gap", "gap", "photo", "accent", "native_language"}

\* Aliases first, then the table.  A record's fields have no aliases.
Canonical(table, name) == IF name \in DOMAIN table THEN table[name] ELSE name
resolve_field(name)  == LET n == Canonical(ALIASES, name) IN IF n \in FIELDS THEN {n} ELSE {}
resolve_record(name) == LET n == Canonical(RECORD_ALIASES, name) IN IF n \in DOMAIN RECORDS THEN {n} ELSE {}

-----------------------------------------------------------------------------
(* Readers.  A profile has the records' lists, skills, experience,         *)
(* qualifications and projects, each item a function from its attributes   *)
(* to facts, the lists of texts certifications, licences and languages,    *)
(* and the facts "stated".  An empty text is not stated.                   *)

Fact(P) == IF P THEN {TRUE} ELSE {FALSE}
Number(n) == 100 * n
none_if_empty(values) == IF values = {} THEN {} ELSE {values}
CountOf(values) == IF values = {} THEN {} ELSE {Number(Cardinality(values))}
CountAll(items) == CountOf(DOMAIN items)

\* What the items that state the attribute state.
Stated(items, attribute) == UNION {item[attribute] : item \in Range(items)}
StatedSeq(items, attribute) ==
    LET some == SelectSeq(items, LAMBDA item : item[attribute] # {})
    IN [i \in DOMAIN some |-> CHOOSE v \in some[i][attribute] : TRUE]
\* How many items are in S: none if there are no items.
CountIn(items, attribute, S) ==
    IF items = <<>> THEN {}
    ELSE {Number(Len(SelectSeq(items, LAMBDA item : item[attribute] \cap S # {})))}

\* The largest and the smallest value of a fact, if there is any.
Largest(values)  == IF values = {} THEN {} ELSE {Max(values)}
Smallest(values) == IF values = {} THEN {} ELSE {Min(values)}
TotalOf(numbers) == FoldLeft(LAMBDA a, b : a + b, 0, numbers)
\* Rounded to the given number of hundredths, a half upwards.
Rounded(sum, n, unit) == unit * ((2 * sum + n * unit) \div (2 * n * unit))

Current(p) == SelectSeq(p.experience, LAMBDA r : r["is_current"] = {TRUE})
\* The first item that states the attribute, and what it states.
FirstStated(items, attribute) ==
    LET some == SelectSeq(items, LAMBDA item : item[attribute] # {})
    IN IF some = <<>> THEN {} ELSE Head(some)[attribute]
\* _latest_role: the first current role, or else the first one.
Latest(p, attribute) ==
    LET roles == Current(p) \o p.experience IN IF roles = <<>> THEN {} ELSE Head(roles)[attribute]

SkillsIn(p, categories) == SelectSeq(p.skills, LAMBDA s : s["category"] \subseteq categories)
Technologies(p) ==
    UNION (Stated(p.experience, "technologies") \cup Stated(p.projects, "technologies"))
      \cup Stated(SkillsIn(p, {"tool", "technical"}), "name")

Level(seniority) == (CHOOSE i \in DOMAIN Ladder : Ladder[i] = seniority) - 1
HighestSeniority(p) ==
    {Ladder[l + 1] : l \in Largest({Level(s) : s \in Stated(p.experience, "seniority")})}
HighestAqf(p) == Largest(Stated(p.qualifications, "aqf"))
HighestQualification(p) ==
    LET best == SelectSeq(p.qualifications, LAMBDA q : q["aqf"] # {} /\ q["aqf"] = HighestAqf(p))
        all  == best \o p.qualifications
    IN IF all = <<>> THEN {} ELSE Head(all)["title"]

NumberOf(p, field) ==
    LET months == StatedSeq(p.experience, "months")
        plain  == {"years_experience", "management_years", "people_managed_max",
                   "publications_count", "availability_weeks"}
    IN CASE field \in plain -> p.stated[field]
         [] field = "role_count" -> CountAll(p.experience)
         [] field = "current_role_count" -> CountIn(p.experience, "is_current", {TRUE})
         [] field = "total_role_months" -> IF months = <<>> THEN {} ELSE {TotalOf(months)}
         [] field = "longest_role_months" -> Largest(Range(months))
         [] field = "shortest_role_months" -> Smallest(Range(months))
         [] field = "average_role_months" ->
                IF months = <<>> THEN {} ELSE {Rounded(TotalOf(months), Len(months), 10)}
         [] field = "current_role_months" -> FirstStated(Current(p), "months")
         [] field = "latest_role_months" -> Latest(p, "months")
         [] field = "leadership_role_count" -> CountIn(p.experience, "seniority", LeadershipLevels)
         [] field = "contract_role_count" -> CountIn(p.experience, "employment_type", {"contract", "freelance"})
         [] field = "permanent_role_count" -> CountIn(p.experience, "employment_type", {"permanent"})
         [] field = "seniority_level" -> {Number(Level(s)) : s \in HighestSeniority(p)}
         [] field = "industry_count" -> CountOf(Stated(p.experience, "industry"))
         [] field = "aqf" -> HighestAqf(p)
         [] field = "qualification_count" -> CountAll(p.qualifications)
         [] field = "degree_count" -> CountIn(p.qualifications, "aqf", {Number(n) : n \in 7..10})
         [] field = "skill_count" -> CountAll(p.skills)
         [] field = "technical_skill_count" -> CountAll(SkillsIn(p, {"technical", "tool"}))
         [] field = "max_skill_years" -> Largest(Stated(p.skills, "years"))
         [] field = "certification_count" -> CountAll(p.certifications)
         [] field = "licence_count" -> CountAll(p.licences)
         [] field = "language_count" -> CountAll(p.languages)
         [] field = "project_count" -> CountAll(p.projects)
         [] field = "technology_count" -> CountOf(Technologies(p))

\* The texts of a list field; enum values count as texts of one word.
Words(values) == {{v} : v \in values}
TextsOf(p, field) ==
    CASE field = "skills" -> Stated(p.skills, "name")
      [] field = "technical_skills" -> Stated(SkillsIn(p, {"technical"}), "name")
      [] field = "tool_skills" -> Stated(SkillsIn(p, {"tool"}), "name")
      [] field = "domain_skills" -> Stated(SkillsIn(p, {"domain"}), "name")
      [] field = "soft_skills" -> Stated(SkillsIn(p, {"soft"}), "name")
      [] field = "language_skills" -> Stated(SkillsIn(p, {"language"}), "name")
      [] field = "expert_skills" ->
             Stated(SelectSeq(p.skills, LAMBDA s : s["proficiency"] \cap {"advanced", "expert"} # {}), "name")
      [] field = "skills_with_years" -> Stated(SelectSeq(p.skills, LAMBDA s : s["years"] # {}), "name")
      [] field = "technologies" -> Technologies(p)
      [] field = "languages" -> Range(p.languages)
      [] field = "certifications" -> Range(p.certifications)
      [] field = "licences" -> Range(p.licences)
      [] field = "role_titles" -> Stated(p.experience, "title")
      [] field = "current_role_titles" -> Stated(Current(p), "title")
      [] field = "employers" -> Stated(p.experience, "employer")
      [] field = "industries" -> Stated(p.experience, "industry")
      [] field = "employment_types" -> Words(Stated(p.experience, "employment_type"))
      [] field = "seniorities" -> Words(Stated(p.experience, "seniority"))
      [] field = "qualification_titles" -> Stated(p.qualifications, "title")
      [] field = "fields_of_study" -> Stated(p.qualifications, "field_of_study")
      [] field = "aqf_labels" -> Stated(p.qualifications, "aqf_label")
      [] field = "project_names" -> Stated(p.projects, "name")
      [] field = "project_technologies" -> UNION Stated(p.projects, "technologies")

TextOf(p, field) ==
    CASE field = "current_role_title" -> FirstStated(Current(p), "title")
      [] field = "latest_role_title" -> Latest(p, "title")
      [] field = "highest_qualification" -> HighestQualification(p)
      [] field = "security_clearance" -> p.stated[field]

EnumOf(p, field) ==
    CASE field = "work_rights" -> p.stated["status"]
      [] field = "highest_seniority" -> HighestSeniority(p)
      [] field = "latest_seniority" -> Latest(p, "seniority")
      [] field = "latest_employment_type" -> Latest(p, "employment_type")

\* TRUE when something is listed, otherwise not stated.
IfListed(values) == {TRUE : v \in values}
AqfAtLeast(p, level) == {level <= aqf : aqf \in HighestAqf(p)}
\* _has_management: a zero is no evidence of management.
Manages(p) ==
    \/ \E v \in p.stated["management_years"] \cup p.stated["people_managed_max"] : v # 0
    \/ \E r \in Range(p.experience) :
           r["seniority"] \cap LeadershipLevels # {} \/ \E v \in r["team_size"] : v # 0

BoolOf(p, field) ==
    CASE field = "has_current_role" -> IF p.experience = <<>> THEN {} ELSE Fact(Current(p) # <<>>)
      [] field = "has_degree" -> AqfAtLeast(p, Number(7))
      [] field = "has_postgraduate" -> AqfAtLeast(p, Number(8))
      [] field = "has_masters" -> AqfAtLeast(p, Number(9))
      [] field = "has_doctorate" -> AqfAtLeast(p, Number(10))
      [] field = "has_certifications" -> IfListed(Range(p.certifications))
      [] field = "has_licence" -> IfListed(Range(p.licences))
      [] field = "has_clearance" -> IfListed(p.stated["security_clearance"])
      [] field = "has_management_experience" ->
             IF Manages(p) THEN {TRUE} ELSE IF p.experience = <<>> THEN {} ELSE {FALSE}
      [] field = "has_projects" -> IfListed(Range(p.projects))
      [] field = "has_publications" -> {n > 0 : n \in p.stated["publications_count"]}
      [] field = "multilingual" -> IF p.languages = <<>> THEN {} ELSE Fact(Len(p.languages) >= 2)
      [] field = "work_rights_unrestricted" -> p.stated["unrestricted"]
      [] field = "requires_sponsorship" -> {s = "requires_sponsorship" : s \in p.stated["status"]}

\* The items of a record in a profile.
ItemsOf(p, record) ==
    CASE record = "skill" -> p.skills [] record = "role" -> p.experience
      [] record = "qualification" -> p.qualifications [] record = "project" -> p.projects

\* spec.reader(subject): the subject is a profile, or an item of the record.
ReadField(record, field, subject) ==
    IF record # "none"
    THEN IF KindOf(record, field) = "list"
         THEN none_if_empty(UNION subject[field]) ELSE subject[field]
    ELSE CASE field \in NumberFields -> NumberOf(subject, field)
           [] field \in ListFields -> none_if_empty(TextsOf(subject, field))
           [] field \in TextFields -> TextOf(subject, field)
           [] field \in EnumFields -> EnumOf(subject, field)
           [] field \in BoolFields -> BoolOf(subject, field)
=============================================================================
