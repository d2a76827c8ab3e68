---------------------------- MODULE MCAuditTrail ----------------------------
EXTENDS AuditTrail

MCRecords == {<<>>, <<"plan", "preview">>}
MCReports == {<<>>, <<"plan">>}

=============================================================================
