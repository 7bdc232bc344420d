--------------------------- MODULE MCFileTransfer ---------------------------
(* Small instances of FileTransfer for TLC: a directory with one file in it *)
(* between two files of outgoing/new.                                       *)
EXTENDS FileTransfer

MCFiles == {"a", "d/b", "e"}
MCDirs == {"d"}
MCParent == [p \in MCFiles \cup MCDirs |-> IF p = "d/b" THEN "d" ELSE "."]
MCRank == [p \in MCFiles \cup MCDirs |->
              CASE p = "a" -> 1 [] p = "d" -> 2 [] p = "d/b" -> 3 [] OTHER -> 4]

\* Installed before with a proxy; with a proxy and without the setting (an
\* older database, or the setting was deleted); new.
Configured == {[modulus |-> 20, proxy |-> TRUE]}
Older == {[modulus |-> None, proxy |-> TRUE]}
Fresh == {[modulus |-> None, proxy |-> FALSE]}
All == Configured \cup Older \cup Fresh
=============================================================================
