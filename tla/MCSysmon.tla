------------------------------ MODULE MCSysmon ------------------------------
\* The instance of Sysmon the model checker runs.
EXTENDS Sysmon
CONSTANTS web, db
BothServices == {web, db}
OneService == {web}
NoneHung == {}
OneHung == {db}
=============================================================================
