----------------------------- MODULE BlobStore -----------------------------
(***************************************************************************)
(* The S3 bucket as the batch service uses it (common/BlobStore.java).     *)
(* Only result objects are kept; the originals are read-only once a job    *)
(* has been accepted.                                                      *)
(***************************************************************************)
EXTENDS Schema

VARIABLE objects  \* the keys of the result objects in the bucket

BlobInit == objects = {}

\* putJson(key, source).
PutJson(k) == objects' = objects \cup {k}

\* deletePrefix(prefix): every version of every object under the prefix.
DeletePrefix(K) == objects' = objects \ K
=============================================================================
