--------------------------- MODULE MCRunArtifacts ---------------------------
EXTENDS RunArtifacts

MCScores == {0, 2}

=============================================================================
