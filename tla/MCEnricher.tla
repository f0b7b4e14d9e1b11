----------------------------- MODULE MCEnricher -----------------------------
EXTENDS Enricher
=============================================================================
