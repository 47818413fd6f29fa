--------------------------- MODULE MCInvestigation ---------------------------
\* Investigation with the incidents of the lab.
EXTENDS Investigation, LabIncidents
==============================================================================
