--------------------------- MODULE MCChartDownload ---------------------------
EXTENDS ChartDownload

\* Every index of up to three entries.
MCIndexes == UNION {[1..n -> Entry] : n \in 0..3}

MCRules == SUBSET (1..MaxVersion) \ {{}}
=============================================================================
