------------------------ MODULE MCEmbeddingAdmission ------------------------
\* The small instance of EmbeddingAdmission: two states are enough for a registry
\* of one, as a dropped state is held by nobody.  No symmetry, as the run checks
\* liveness.
EXTENDS EmbeddingAdmission
=============================================================================
