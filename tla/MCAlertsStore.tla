--------------------------- MODULE MCAlertsStore ---------------------------
EXTENDS AlertsStore

CONSTANTS a1, a2

MCPartitions == 1..2
MCMaxLog     == <<2, 1>>
MCAlerts     == {a1, a2}
MCRecords    == {a1, a2, Junk}

MCOnePartition == {1}
MCTwoRecords   == <<2>>
MCOnlyAlerts   == {a1, a2}

=============================================================================
