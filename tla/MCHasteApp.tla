----------------------------- MODULE MCHasteApp ----------------------------
(* Instances of HasteApp for TLC: a server that was given one paste, a text   *)
(* that may be torn, and pages opened at "/", at this paste in three ways, and *)
(* at one that is missing.                                                    *)
EXTENDS HasteApp

CONSTANTS k1, k2

MCTorn == [text \in Texts |-> IF text = "ab" THEN {"a"} ELSE {}]
MCPastes == [k \in Keys |-> IF k = k1 THEN {"ab"} ELSE {}]
At(key, ext) == [key |-> key, ext |-> ext]
MCNames == UNION {{ExtensionMap[i][1], ExtensionMap[i][2]} : i \in 1..Len(ExtensionMap)}
               \cup {"ans", "nosuch"}
MCPaths == {Root, At(k1, None), At(k1, "html"), At(k1, "nosuch"), At(k2, "txt")}
MCKnownPaths == {Root, At(k1, None)}
=============================================================================
