------------------------- MODULE MCResultNormalizer -------------------------
EXTENDS ResultNormalizer

\* structure names of benchmark.py's RENAME_MAP
MCNames == {"lcrq", "dcbo-lcrq", "ms", "dcbl-ms"}

MCStructLists == {<<"dcbo-lcrq", "lcrq">>, <<"lcrq", "ms">>, <<"ms", "dcbl-ms">>}

MCLcrqNames == {"lcrq", "dcbo-lcrq"}
MCDcbNames == {"dcbo-lcrq", "dcbl-ms"}
MCNameLen == [n \in MCNames |-> CASE n = "lcrq" -> 4
                                  [] n = "dcbo-lcrq" -> 9
                                  [] n = "ms" -> 2
                                  [] n = "dcbl-ms" -> 7]
=============================================================================
