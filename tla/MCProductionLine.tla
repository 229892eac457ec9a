-------------------------- MODULE MCProductionLine --------------------------
EXTENDS ProductionLine
=============================================================================
