------------------------------ MODULE MCScanHost ------------------------------
EXTENDS ScanHost

\* A sum of these tells which inputs it has, and how often (up to twice).
Powers == [i \in 1..MaxLen |-> 3^(i - 1)]
===============================================================================
