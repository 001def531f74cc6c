---- MODULE MCComsWriter ----
EXTENDS ComsWriter
====
