---------------------------- MODULE MCAdmission ----------------------------
EXTENDS Admission

CONSTANTS l1, l2

TwoLaunchers == {l1, l2}
=============================================================================
