------------------------------ MODULE MCWriter ------------------------------
EXTENDS Writer

MCItems == {"a", "b", "c", Bye}
MCDataLen == [m \in MCItems |-> IF m = "b" THEN 2 ELSE 1]
=============================================================================
