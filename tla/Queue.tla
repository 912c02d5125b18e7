------------------------------- MODULE Queue -------------------------------
(***************************************************************************)
(* The Redis stream "rescan:documents" with its consumer group             *)
(* (common/Queue.java).  A stream entry carries a document id; two entries *)
(* of one document differ in their entry id.  The dead-letter stream is    *)
(* left out: the service writes to it and never reads it.                  *)
(*                                                                         *)
(* receive() first takes over an entry that has been idle for two minutes  *)
(* (XAUTOCLAIM) and otherwise reads the next undelivered one (XREADGROUP). *)
(* A document may be processed for fifteen minutes, so an entry in some    *)
(* worker's hands is regularly handed to a second worker: here every entry *)
(* of the stream can be received, whoever holds it already.                *)
(***************************************************************************)
EXTENDS Schema, FiniteSets

CONSTANTS
    EntryIds,  \* ids that tell two stream entries of a document apart
    MaxLen     \* the MAXLEN of XADD (100000 in the code)

ASSUME QueueAssumption == EntryIds \subseteq Nat

VARIABLE entries   \* the stream: delivered entries stay in it until acknowledged

Entry == [doc: Docs, id: EntryIds]

QueueInit == entries = {}

(***************************************************************************)
(* Redis never reuses an entry id.  An id is fresh here when neither the   *)
(* stream nor a worker still refers to it; taking the least one keeps the  *)
(* number of ids finite.                                                   *)
(***************************************************************************)
FreshId(d, i, held) ==
    /\ [doc |-> d, id |-> i] \notin entries \cup held
    /\ \A k \in EntryIds : k < i => [doc |-> d, id |-> k] \in entries \cup held

(***************************************************************************)
(* publishMany(documents): one XADD per document.  MAXLEN trims the stream *)
(* to its bound; which entries go is left open, the trimming being         *)
(* approximate.                                                            *)
(***************************************************************************)
PublishMany(D, held) ==
    LET new  == {e \in Entry : e.doc \in D /\ FreshId(e.doc, e.id, held)}
        full == entries \cup new
    IN  /\ \A d \in D : \E e \in new : e.doc = d   \* EntryIds is large enough
        /\ \E kept \in SUBSET full :
              /\ IF Cardinality(full) <= MaxLen THEN kept = full
                                                ELSE Cardinality(kept) = MaxLen
              /\ entries' = kept

\* acknowledge(id): XACK and XDEL.  Acknowledging an entry that is gone is a no-op.
Acknowledge(e) == entries' = entries \ {e}

\* Redis loses part of the stream (restart without persistence, eviction).
LoseEntries(lost) ==
    /\ lost # {}
    /\ entries' = entries \ lost
   
=============================================================================
