------------------------------ MODULE MCSettings ------------------------------
(***************************************************************************)
(* An instance of Settings for TLC: the migrations of the repository, two  *)
(* fields of which one has null as a value, and three directories of which *)
(* one cannot be used.                                                     *)
(***************************************************************************)
EXTENDS Settings, TLC

File1 == <<Create("schema_version"), Create("jobs"),
           Create("ix_jobs_created_at"), Create("settings")>>
File2 == <<Alter("jobs.source_sha256")>>
File3 == <<Alter("jobs.duration_s")>>
File4 == <<Alter("jobs.language")>>
File5 == <<Alter("jobs.summary_kinds_json")>>
File6 == <<Alter("jobs.updated_at")>>
File7 == <<Alter("jobs.stage_timestamps_json")>>
File8 == <<Create("idempotency_keys"), Create("idx_idempotency_keys_created_at")>>
File9 == <<Alter("jobs.original_filename")>>

RepoFiles == <<File1, File2, File3, File4, File5, File6, File7, File8, File9>>

FieldDefaults == "quality_preset" :> "v1" @@ "hf_token" :> "null"

Keep == [f \in Fields |-> Unset]

\* Every single change, every move, and a move that also changes the preset.
UserPatches ==
  {[data_dir |-> Unset, hot |-> [Keep EXCEPT ![f] = v]] :
       f \in Fields, v \in {"v2", "null"}}
    \cup {[data_dir |-> d, hot |-> Keep] : d \in Dirs}
    \cup {[data_dir |-> "new", hot |-> [Keep EXCEPT !["quality_preset"] = "v2"]]}

=============================================================================
