----------------------- MODULE MCKnowledgeBasePurge ------------------------
\* The small instance of KnowledgeBasePurge, without symmetry as the run checks
\* liveness.
EXTENDS KnowledgeBasePurge
=============================================================================
