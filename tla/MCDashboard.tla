---------------------------- MODULE MCDashboard ----------------------------
EXTENDS Dashboard

=============================================================================
