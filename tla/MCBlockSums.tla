----------------------------- MODULE MCBlockSums -----------------------------
EXTENDS BlockSums

\* A sum of these tells which inputs it has, and how often (up to twice).
Powers == [g \in 0..(MaxLen - 1) |-> 3^g]
Sums == [k \in 0..MaxLen |-> (3^k - 1) \div 2]
===============================================================================
