------------------------------- MODULE MCModels -------------------------------
(***************************************************************************)
(* An instance of Models for TLC: four ids of the registry, in three       *)
(* categories.  Of the sizes, those of balanced.stt and balanced.llm fit a *)
(* budget of three megabytes together in one order of loading and not in   *)
(* the other.                                                              *)
(***************************************************************************)
EXTENDS Models

RegistryIds == {"balanced.stt", "small.stt", "balanced.diarize", "balanced.llm"}

RegistryCategories ==
  [id \in RegistryIds |->
     CASE id = "balanced.diarize" -> "diarize"
       [] id = "balanced.llm"     -> "llm"
       [] OTHER                   -> "stt"]

RegistrySizes ==
  [id \in RegistryIds |->
     CASE id = "balanced.stt"     -> 7
       [] id = "small.stt"        -> 2
       [] id = "balanced.diarize" -> 3
       [] id = "balanced.llm"     -> 8]

=============================================================================
