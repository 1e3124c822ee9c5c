---- MODULE MCCardLedger ----
EXTENDS CardLedger
====
