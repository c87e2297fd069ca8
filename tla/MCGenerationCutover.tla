-------------------------- MODULE MCGenerationCutover --------------------------
EXTENDS GenerationCutover, TLC

MCChunks == 1 :> 2 @@ 2 :> 1
================================================================================
