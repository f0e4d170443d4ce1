------------------------------ MODULE MCSeqLoop ------------------------------
EXTENDS SeqLoop

\* Two units, the second built on the first.
MCDeps == <<{}, {1}>>
====
