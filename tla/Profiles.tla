------------------------------ MODULE Profiles -------------------------------
(***************************************************************************)
(* From a structured resume to the anonymized profile that runs see        *)
(* (pipeline/anonymize.py): capability is copied, the text around it       *)
(* scrubbed, what the model writes checked, and the whole searched for     *)
(* what is left of the candidate's identity.                               *)
(*                                                                         *)
(* A text is the set of the words, names and phrases that a search on word *)
(* boundaries finds in it.                                                 *)
(***************************************************************************)
EXTENDS Naturals, SequencesExt

CONSTANT Short     \* the words of fewer than MIN_SCRUB_TOKEN letters

Redacted == "[redacted]"

\* Every text of these fields is copied as it stands.
CopiedTexts(resume) == UNION {resume.copied[field] : field \in DOMAIN resume.copied}

\* identity_tokens: short parts of the name are left alone.
identity_tokens(resume) ==
    LET id == resume.identity
        institutions == {q.institution : q \in ToSet(resume.qualifications)} \ {"none"}
    IN id.full_name \cup (id.name_parts \ Short) \cup id.contacts \cup id.suburb
       \cup resume.universities \cup institutions

scrub_text(text, tokens) ==
    IF text \cap tokens = {} THEN text ELSE (text \ tokens) \cup {Redacted}
Scrubbed(texts, tokens) == [i \in DOMAIN texts |-> scrub_text(texts[i], tokens)]

\* _anonymized_qualifications: title, field and level are among the copied texts.
AnonymizedQualifications(resume) ==
    [i \in DOMAIN resume.qualifications |-> [institution |-> "none", completion_year |-> "none", country |-> "none"]]
QualificationRedactions(resume) ==
    {field \in {"institution", "country", "completion_year"} :
        \E i \in DOMAIN resume.qualifications : resume.qualifications[i][field] # "none"}

\* _safe_entries: an entry that still identifies the candidate is removed.
SafeEntries(texts, tokens) == {text \in texts : scrub_text(text, tokens) = text}

\* charged_employers: those that the model names, if they are there.
Employers(resume, answer, tokens) ==
    [i \in DOMAIN resume.employers |->
        IF resume.employers[i] \in answer.employers_to_remove THEN {}
        ELSE scrub_text(resume.employers[i], tokens)]

\* The profile that anonymize_resume builds.
Profile(resume, answer, ref) ==
    LET tokens == identity_tokens(resume)
        entries(field) == SafeEntries(answer[field], tokens)
    IN [candidate_ref |-> ref,
        summary |-> scrub_text(answer.summary, tokens),
        facts |-> resume.facts, copied |-> resume.copied,
        quoted |-> Scrubbed(resume.quoted, tokens),
        employers |-> Employers(resume, answer, tokens),
        qualifications |-> AnonymizedQualifications(resume),
        institution_tiers |-> entries("institution_tiers"),
        region |-> entries("region"),
        job_relevant_affiliations |-> entries("job_relevant_affiliations"),
        redactions |-> answer.redactions \cup QualificationRedactions(resume)]

\* The words of the serialised profile itself: the names of its fields, and null.
SchemaWords == {"name", "title", "summary", "region", "null", "true", "false"}
FactWords(facts) ==
    {facts.status}
    \cup (UNION {{facts.skills[i].category, facts.skills[i].proficiency} : i \in DOMAIN facts.skills})
    \cup (UNION {{facts.roles[i].seniority, facts.roles[i].employment_type} : i \in DOMAIN facts.roles})

\* What the candidate's profile says whatever the model answers.
Unscrubbed(resume) == CopiedTexts(resume) \cup FactWords(resume.facts) \cup SchemaWords
\* The serialised profile, its redactions left out.
WordsOf(profile) ==
    LET written == {profile.summary} \cup ToSet(profile.quoted) \cup ToSet(profile.employers)
                   \cup profile.institution_tiers \cup profile.region \cup profile.job_relevant_affiliations
        institutions == {q.institution : q \in ToSet(profile.qualifications)} \ {"none"}
    IN (UNION written) \cup institutions \cup Unscrubbed(profile)

\* A mistaken check: it looks at what the model has written only.
LeaksOfTheModel(resume, profile) ==
    (identity_tokens(resume) \ Short)
        \cap (profile.summary \cup UNION (profile.institution_tiers \cup profile.region))
leak_check(resume, profile) == (identity_tokens(resume) \ Short) \cap WordsOf(profile)
=============================================================================
