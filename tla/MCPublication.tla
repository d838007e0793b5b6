--------------------------- MODULE MCPublication ----------------------------
(* Two tasks with the same name for TLC, in worlds apart.                  *)
EXTENDS Publication
CONSTANTS a, b, payload, folder

MCTasks == {a, b}
World(ofA, ofB, contentOfB, streaming) == [t \in MCTasks |->
    [layout  |-> IF t = a THEN ofA ELSE ofB,
     content |-> IF t = a THEN payload ELSE contentOfB,
     streaming |-> streaming]]

\* A folder never has the content of a file; two files may be the same file.
Linked == World("file", "tree", folder, TRUE)
OnAndroid == World("renamed", "renamed", payload, TRUE)
Legacy == World("renamed", "legacy", folder, FALSE)
InDocumentTree == World("direct", "copied", payload, TRUE)

OnDesktop == {Linked}
Everywhere == {Linked, OnAndroid, Legacy, InDocumentTree}
=============================================================================
