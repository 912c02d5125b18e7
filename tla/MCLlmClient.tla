----------------------------- MODULE MCLlmClient -----------------------------
(* Instances of LlmClient for TLC. *)
EXTENDS LlmClient, TLC

\* A server that takes no full schema and no extra field; the compile passes'
\* server takes no style at all.
Uniform ==
    [k \in Tasks |-> IF k \in CompileTasks THEN {}
                     ELSE {[mode |-> "json_object_schema", extras |-> FALSE],
                           [mode |-> "json_object", extras |-> FALSE]}]
=============================================================================
