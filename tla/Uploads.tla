------------------------------ MODULE Uploads --------------------------------
(***************************************************************************)
(* From the objects of a batch in the bucket to its documents              *)
(* (ingest/bucket.py, ingest/uploads.py).                                  *)
(*                                                                         *)
(* A file has a name, of which only the suffix and whether it is hidden    *)
(* matter, a size and a content; an archive has members, in order, unless  *)
(* it is broken.                                                           *)
(***************************************************************************)
EXTENDS Naturals, SequencesExt

ALLOWED_SUFFIXES == {".pdf", ".doc", ".docx", ".txt", ".rtf", ".odt", ".md", ".html", ".htm",
                     ".png", ".jpg", ".jpeg", ".tif", ".tiff"}

is_usable(file) == ~file.hidden /\ file.suffix \in ALLOWED_SUFFIXES

\* The first member beyond the limit ends its archive.
AddMember(state, member, max_bytes) ==
    IF state.full \/ ~is_usable(member) THEN state
    ELSE IF state.unpacked + member.size > max_bytes THEN [state EXCEPT !.full = TRUE]
    ELSE [state EXCEPT !.unpacked = @ + member.size, !.documents = Append(@, member)]

\* An archive that cannot be opened has no members.
Unpack(state, members, max_bytes) ==
    FoldLeft(LAMBDA s, member : AddMember(s, member, max_bytes), state, members)
Expand(state, file, max_bytes) ==
    IF file.suffix # ".zip" THEN [state EXCEPT !.documents = Append(@, file)]
    ELSE Unpack([state EXCEPT !.full = FALSE], file.members, max_bytes)

NothingExpanded == [documents |-> <<>>, unpacked |-> 0, full |-> FALSE]
ExpandAll(files, max_bytes) ==
    FoldLeft(LAMBDA s, file : Expand(s, file, max_bytes), NothingExpanded, files)
expand_uploads(files, max_bytes) == ExpandAll(files, max_bytes).documents

\* pull_batch_documents: objects of another type, beyond the size limit or that
\* cannot be read are skipped.
Pull(state, object, unreadable, max_bytes) ==
    IF \/ ~(is_usable(object) \/ object.suffix = ".zip")
       \/ state.size + object.size > max_bytes
       \/ object \in unreadable
    THEN [state EXCEPT !.skipped = @ \cup {object}]
    ELSE [state EXCEPT !.size = @ + object.size, !.raw = Append(@, object)]

NothingPulled == [raw |-> <<>>, size |-> 0, skipped |-> {}]
PullAll(objects, unreadable, max_bytes) ==
    FoldLeft(LAMBDA s, object : Pull(s, object, unreadable, max_bytes), NothingPulled, objects)
pull_batch_documents(objects, unreadable, max_bytes) ==
    LET pull == PullAll(objects, unreadable, max_bytes)
    IN [documents |-> expand_uploads(pull.raw, max_bytes), skipped |-> pull.skipped]
=============================================================================
