----------------------- MODULE MCGenerationLifecycle -----------------------
\* The small instance of GenerationLifecycle, without symmetry as the run checks
\* liveness.
EXTENDS GenerationLifecycle
=============================================================================
