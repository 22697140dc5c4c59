------------------------------ MODULE MCIntake ------------------------------
EXTENDS Intake

=============================================================================
