--------------------------- MODULE MCRuleScreening ---------------------------
(* Instances of RuleScreening for TLC. *)
EXTENDS RuleScreening, MCRules

\* What a resume may state of the facts that the rules test.
Facts(values) == {{}} \cup {{v} : v \in values}
Months == {Number(15), Number(30)}
Levels == {"mid", "lead"}
Years  == {Number(2), Number(5)}
Status == {"citizen", "visa_restricted"}
Awards == {Number(5), Number(10)}
Grades == {"beginner", "expert"}

\* What a role states beside its months and its level: one of two stories or nothing.
Clerk == [title |-> {{"clerk"}}, employer |-> {{"shop"}}, industry |-> {{"retail"}},
          employment_type |-> {"permanent"}, team_size |-> {Number(0)},
          technologies |-> {{{"excel"}}}, summary |-> {{"sales"}}]
Engineer == [title |-> {{"engineer"}}, employer |-> {{"bank"}}, industry |-> {{"banking"}},
             employment_type |-> {"contract"}, team_size |-> {Number(3)},
             technologies |-> {{{"kafka"}}}, summary |-> {{"systems"}}]
Untold == [a \in DOMAIN Clerk |-> {}]
Job(story, current, months, seniority) ==
    story @@ [is_current |-> {current}, months |-> months, seniority |-> seniority]
Award(title, aqf, field) ==
    [title |-> {title}, aqf |-> aqf, field_of_study |-> field,
     aqf_label |-> {IF level = Number(10) THEN {"doctoral"} ELSE {"diploma"} : level \in aqf}]
Skill(name, years, proficiency) ==
    [name |-> {name}, category |-> {"domain"}, years |-> years, proficiency |-> proficiency,
     evidence |-> {{"stated"}}]
Work(name, technologies) ==
    [name |-> {name}, technologies |-> technologies, months |-> {Number(15)}, summary |-> {{"work"}}]

\* A resume that leaves nothing open, and families that differ from it in one part.
Whole ==
    [experience |-> <<Job(Clerk, FALSE, {Number(30)}, {"lead"})>>,
     skills |-> <<Skill({"sql"}, {Number(2)}, {"beginner"})>>,
     qualifications |-> <<Award({"arts"}, {Number(5)}, {{"history"}})>>,
     projects |-> <<Work({"site"}, {{{"excel"}}})>>,
     languages |-> <<{"english"}>>, certifications |-> <<{"aws"}>>, licences |-> <<{"forklift"}>>,
     stated |-> [years_experience |-> {Number(5)}, status |-> {"citizen"}, unrestricted |-> {TRUE},
                 management_years |-> {Number(0)}, people_managed_max |-> {Number(0)},
                 publications_count |-> {Number(0)}, availability_weeks |-> {Number(2)},
                 security_clearance |-> {{"baseline"}}]]
Stating(years, status, unrestricted) ==
    [Whole.stated EXCEPT !.years_experience = years, !.status = status, !.unrestricted = unrestricted]
UpToTwo(first, second) ==
    {<<>>} \cup {<<a>> : a \in first} \cup {<<a, b>> : a \in first, b \in second}

Roles == {Job(Clerk, FALSE, m, s) : m \in Facts(Months), s \in Facts(Levels)}
Jobs  == {Job(Untold, current, {}, {}) : current \in BOOLEAN}
           \cup {Job(Clerk, current, {Number(30)}, {"mid"}) : current \in BOOLEAN}
           \cup {Job(Engineer, TRUE, {Number(15)}, {"lead"})}
Qualified(title) == {Award(title, a, f) : a \in Facts(Awards), f \in Facts({{"history"}})}
Skilled(name) == {Skill(name, y, g) : y \in Facts(Years), g \in Facts(Grades)}
Working(name) == {Work(name, t) : t \in Facts({{{"excel"}}, {{"kafka"}}})}

SomeProfiles ==
    {[Whole EXCEPT !.experience = roles, !.stated = Stating({}, {}, {})] : roles \in UpToTwo(Roles, Roles)}
      \cup {[Whole EXCEPT !.experience = <<r>>, !.stated = Stating(years, status, u)] :
                r \in {Job(Clerk, FALSE, {}, {}), Job(Clerk, FALSE, {Number(30)}, {"lead"})},
                years \in Facts(Years), status \in Facts(Status), u \in Facts(BOOLEAN)}
      \cup {[Whole EXCEPT !.experience = roles] : roles \in UpToTwo(Jobs, Jobs)}
      \cup {[Whole EXCEPT !.qualifications = list] :
                list \in UpToTwo(Qualified({"arts"}), {Award({"science"}, {}, {}), Award({"science"}, {Number(5)}, {})})}
      \cup {[Whole EXCEPT !.skills = list] :
                list \in UpToTwo(Skilled({"sql"}), {Skill({"python"}, {}, {})})}
      \cup {[Whole EXCEPT !.projects = list] : list \in UpToTwo(Working({"site"}), Working({"thesis"}))}

\* The ways to state what is left out; a list with items is all there is.
Filled(fact, values) == IF fact = {} THEN {{v} : v \in values} ELSE {fact}
FilledJob(job) ==
    {Job(story, current, m, s) :
        story \in IF job.title = {} THEN {Clerk, Engineer} ELSE {[a \in DOMAIN Clerk |-> job[a]]},
        current \in job.is_current, m \in Filled(job.months, Months), s \in Filled(job.seniority, Levels)}
FilledAward(q) ==
    {Award(t, a, f) : t \in q.title, a \in Filled(q.aqf, Awards), f \in Filled(q.field_of_study, {{"maths"}})}
FilledSkill(s) ==
    {Skill(n, y, g) : n \in s.name, y \in Filled(s.years, Years), g \in Filled(s.proficiency, Grades)}
FilledWork(w) == {Work(n, t) : n \in w.name, t \in Filled(w.technologies, {{{"kafka"}}})}
FilledList(list, blank, FilledItem(_)) ==
    CASE Len(list) = 0 -> {<<a>> : a \in FilledItem(blank)}
      [] Len(list) = 1 -> {<<a>> : a \in FilledItem(list[1])}
      [] OTHER -> {<<a, b>> : a \in FilledItem(list[1]), b \in FilledItem(list[2])}
Completions(p) ==
    {[p EXCEPT !.experience = roles, !.qualifications = awards, !.skills = skills, !.projects = works,
               !.stated = [@ EXCEPT !.years_experience = years, !.status = status, !.unrestricted = u]] :
        roles \in FilledList(p.experience, Job(Untold, FALSE, {}, {}), FilledJob),
        awards \in FilledList(p.qualifications, Award({"science"}, {}, {}), FilledAward),
        skills \in FilledList(p.skills, Skill({"python"}, {}, {}), FilledSkill),
        works \in FilledList(p.projects, Work({"thesis"}, {}), FilledWork),
        years \in Filled(p.stated.years_experience, Years),
        status \in Filled(p.stated.status, Status), u \in Filled(p.stated.unrestricted, BOOLEAN)}

-----------------------------------------------------------------------------
Aggr(func, where, cmp, n) ==
    Aggregate_(func, IF func = "count" THEN "none" ELSE "months", where, cmp, Number(n))

Lead  == In("seniority", <<"lead", "head">>)
Long  == Compare("months", ">=", Number(24))
Rights == IsValue("work_rights", "unrestricted")

\* Tests that no missing fact can turn.
FirmLeaves ==
    {Compare("years_experience", cmp, Number(5)) : cmp \in {">=", "<", "="}}
      \cup {Compare("latest_role_months", "<=", Number(24)), Rights,
            In("work_rights", <<"citizen", "permanent_resident">>),
            Compare("work_rights", "!=", "unrestricted"),
            Compare("role_count", ">=", Number(2)), Compare("latest_role_title", "=", {"engineer"}),
            IsValue("latest_employment_type", "contract"), Has("ALL", "skills", <<{"python"}>>),
            AnyRole(Lead), AnyRole(And(Lead, Long)), AnyRole(Or(Lead, Not(Long))),
            AnyRole(Compare("team_size", ">", Number(2))),
            AnyRole(Has("ANY", "technologies", <<{"kafka"}>>))}
      \cup {Aggr("count", {Lead}, cmp, 1) : cmp \in {">=", "<", ">", "<="}}
      \cup {Aggr(func, where, cmp, 30) :
                func \in {"sum", "max", "min", "avg"}, where \in {{}, {Lead}}, cmp \in {">=", "<", "="}}

Targets(field) ==
    CASE field \in {"total_role_months", "longest_role_months", "shortest_role_months",
                    "current_role_months"} -> Months
      [] field = "average_role_months" -> {2250, Number(30)}
      [] field = "seniority_level" -> {Number(3), Number(5)}
      [] field = "aqf" -> Awards
      [] field = "max_skill_years" -> Years
      [] field \in {"industry_count", "technology_count"} -> {Number(1), Number(2)}
      [] OTHER -> {Number(1)}
Listed ==
    [role_titles |-> {"engineer"}, current_role_titles |-> {"engineer"}, employers |-> {"bank"},
     industries |-> {"banking"}, employment_types |-> {"contract"}, seniorities |-> {"lead"},
     fields_of_study |-> {"maths"}, aqf_labels |-> {"doctoral"}, technologies |-> {"kafka"},
     project_technologies |-> {"kafka"}, expert_skills |-> {"python"}, skills_with_years |-> {"python"}]

\* Tests that a missing fact may turn.
SilentFields == Rising \cup Falling \cup Shifting
SilentLeaves ==
    UNION {{Compare(field, cmp, n) : cmp \in {">=", "<", "="}, n \in Targets(field)} :
               field \in SilentFields \cap NumberFields}
      \cup {Has("ANY", field, <<Listed[field]>>) : field \in SilentFields \cap ListFields}
      \cup {IsValue(field, value) : field \in SilentFields \cap BoolFields, value \in BOOLEAN}
      \cup {Compare("current_role_title", "=", {"engineer"}),
            Compare("highest_qualification", "!=", {"science"})}
      \cup {IsValue("highest_seniority", level) : level \in Levels}
      \cup {In("work_rights", <<"permanent_resident", "unrestricted">>)}
      \cup {Aggr("count", {Lead}, cmp, 1) : cmp \in {"=", "!="}}

\* Backed leaves out no answer without need: each that it leaves out is given to some
\* resume, by that test or one like it, and is another one for a completion of it.
Answer(node, p) == Evaluate(node, p, "none", NoJudge).value
Turned(node, answer) ==
    \E p \in SomeProfiles :
        Answer(node, p) = answer /\ \E whole \in Completions(p) : Answer(node, whole) # answer
Alike(a, b) == a.op = b.op /\ a.field = b.field /\ Backed(a) = Backed(b)
ASSUME BackedIsTight ==
    \A node \in SilentLeaves : \A answer \in {"true", "false"} \ Backed(node) :
        \E other \in SilentLeaves : Alike(node, other) /\ Turned(other, answer)

Pairs == {AnyRole(Lead), Rights, Compare("years_experience", ">=", Number(5)), Ask("q1"),
          Not(Aggr("sum", {}, ">=", 24)), Compare("leadership_role_count", ">=", Number(1))}
Compound ==
    {And(a, b) : a \in Pairs, b \in Pairs} \cup {Or(a, b) : a \in Pairs, b \in Pairs}
      \cup {And(Or(a, Ask("q1")), b) : a \in Pairs, b \in Pairs}
      \cup {Or(Not(a), And(b, Ask("q2"))) : a \in Pairs, b \in Pairs}

Rule(expr) == [applied |-> TRUE, kind |-> "require", expr |-> expr]
Preference(expr) == [Rule(expr) EXCEPT !.kind = "prefer"]
Flagged(expr) == [Rule(expr) EXCEPT !.applied = FALSE]

ScreeningRules ==
    {<<Rule(e)>> : e \in FirmLeaves \cup SilentLeaves \cup Compound}
      \cup {<<Rule(AnyRole(Lead)), Preference(Rights), Rule(e), Flagged(Not(Rights))>> : e \in Pairs}

TwoJudges  == {NoJudge, [q \in {"q1", "q2"} |-> "true"]}
=============================================================================
