------------------------------ MODULE MCParLoop ------------------------------
EXTENDS ParLoop

\* Unit 2 is built on unit 1; 1 and 3 touch the same file, 2 shares none. Unit
\* 4 depends on an id that names no unit: it can only have been seeded as done.
MCDeps == <<{}, {1}, {}, {5}>>
MCScope == <<{"f"}, {"g"}, {"f"}, {}>>

\* Two units built on the first, all of them declaring one file.
ForkDeps == <<{}, {1}, {1}>>
SharedScope == <<{"f"}, {"f"}, {"f"}>>

\* Two units that share a file and nothing else.
ApartDeps == <<{}, {}>>
ApartScope == <<{"f"}, {"f"}>>

\* Two units that share nothing.
OwnScope == <<{"f"}, {"g"}>>
==============================================================================
