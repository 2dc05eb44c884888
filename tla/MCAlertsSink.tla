--------------------------- MODULE MCAlertsSink ---------------------------
EXTENDS AlertsSink

CONSTANTS a1

MCPartitions == 1..2
MCMaxLog     == <<2, 1>>
MCAlerts     == {a1}
MCRecords    == {a1, Junk}

=============================================================================
