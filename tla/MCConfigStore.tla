---------------------------- MODULE MCConfigStore -----------------------------
(* TLC instances of ConfigStore: two keys, of which the boots draw their seeds. *)
EXTENDS ConfigStore

CONSTANTS k1, k2, generated1, generated2, given, long, node

MCKeys == {k1, k2}
MCNames == {generated1, generated2, given}
MCGenerated == [key \in MCKeys |-> IF key = k1 THEN generated1 ELSE generated2]
MCTexts == {long}
MCAclKeys == {node}

\* None, reset, written by hand with a default and a name spelled out, broken.
MCInitialFiles ==
  {NoFile, [s \in {} |-> s],
   [key |-> k1, name |-> generated1, power |-> "image"],
   [key |-> k2, power |-> "outside"]}
\* A device that was never used.
MCFirstFiles == {NoFile}

MCPowers == {"image", "other", "outside"}
MCPorts == {"image", "0"}
MCPortsAboveZero == {"image"}
\* Of `region put ##` the line reads as '#', whose own no boot reads.
MCTables == {"image", "silent", "other", "astray", "##", "#"}
MCSilent == {"image", "silent"}
MCReadAs == [table \in MCTables |-> CASE table \in MCSilent -> "image"
                                      [] table = "astray" -> "other"
                                      [] table = "##" -> "#"
                                      [] OTHER -> table]
MCUnread == {"#"}
\* A device whose regions are never changed.
MCTablesKept == {"image"}
MCReadAsKept == [table \in MCTablesKept |-> table]
==============================================================================
