--------------------------- MODULE MCStreamedRun ---------------------------
EXTENDS StreamedRun

=============================================================================
