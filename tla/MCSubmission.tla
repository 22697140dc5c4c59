---------------------------- MODULE MCSubmission ----------------------------
EXTENDS Submission

=============================================================================
