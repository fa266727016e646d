----------------------------- MODULE MCProjections -----------------------------
EXTENDS Projections
===============================================================================
