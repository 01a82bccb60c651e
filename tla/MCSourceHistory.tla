--------------------------- MODULE MCSourceHistory ---------------------------
EXTENDS SourceHistory, TLC
CONSTANTS a, b, c, d
MCNodes == [t \in Text |-> CASE t = "ab" -> {a, b} [] t = "b" -> {b}
                              [] t = "bcd" -> {b, c, d} [] t = "cd" -> {c, d}
                              [] OTHER -> {}]
MCKind == [t \in Text |-> CASE t = "error" -> "broken" [] t = "" -> "blank"
                            [] t = "loop" -> "unlayable" [] OTHER -> "ok"]
==============================================================================
