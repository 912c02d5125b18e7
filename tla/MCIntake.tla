------------------------------ MODULE MCIntake -------------------------------
(* An instance of Intake for TLC: a folder of two archives, a document that *)
(* is also in one of them, and a manifest.                                  *)
EXTENDS Intake

CONSTANTS q1, q2

File(suffix, content, size, tika, python, ocr) ==
    [suffix |-> suffix, hidden |-> FALSE, content |-> content, size |-> size, members |-> <<>>,
     chars |-> [tika |-> tika, python |-> python, ocr |-> ocr]]
Archive(content, members) == [File(".zip", content, 1, 0, 0, 0) EXCEPT !.members = members]

\* A text, a document only Tika can read, and a scan, the last beyond the limit
\* unless the first archive is unreadable.
Letter == File(".pdf", "letter", 1, 300, 60, 0)
Legacy == File(".doc", "legacy", 2, 100, 0, 0)
Scan   == File(".png", "scan", 2, 0, 0, 250)
Folder == <<Archive("a", <<Letter, [Letter EXCEPT !.hidden = TRUE], Legacy>>), Archive("b", <<Scan>>),
            Letter, File(".json", "manifest", 1, 0, 0, 0)>>

Skill(category) == [name |-> "Python", category |-> category, proficiency |-> "fluent", years |-> "junk"]
Role(size) == [seniority |-> "sr", employment_type |-> "odd", months |-> "12", team_size |-> size]
Reading(skill, role, name, certificate) ==
    [facts        |-> [skills |-> <<skill>>, roles |-> <<role>>, status |-> None],
     identity     |-> [full_name |-> {"Kim " \o name}, name_parts |-> {"Li", name}, contacts |-> {"kim@x.org"},
                       suburb |-> {"Taringa"}],
     universities |-> {"UQ"},
     qualifications |-> <<[institution |-> "UQ", completion_year |-> "2001", country |-> "none"]>>,
     copied       |-> [certifications |-> {certificate}, skills |-> {"Python"}],
     quoted       |-> <<{name, "led a team"}>>,
     employers    |-> <<{"Acme"}, {"UQ", "Press"}>>]
SomeReadings ==
    {Reading(Skill("cloud"), Role("3"), "Nguyen", "CPA"),
     Reading(Skill("cloud"), Role("3"), "Nguyen", "UQ"),
     Reading(Skill("cloud"), Role("3"), "null", "CPA"),
     Reading(Skill(None), Role("3"), "Nguyen", "CPA"),
     Reading(Skill("cloud"), Role("infinite"), "Nguyen", "CPA")}

Answer(tiers, region, fit) ==
    [summary |-> {"Nguyen", "Li", "engineer"}, institution_tiers |-> tiers, region |-> region,
     job_relevant_affiliations |-> {}, employers_to_remove |-> {{"Acme"}}, redactions |-> {},
     redactions_fit |-> fit]
SomeAnswers ==
    {Answer({{"Group of Eight"}}, {{"Brisbane"}}, TRUE),
     Answer({{"UQ", "Group of Eight"}}, {{"Taringa"}}, TRUE),
     Answer({}, {}, FALSE)}
ShortWords == {"Li"}
=============================================================================
