---------------------------- MODULE MCHashTable -----------------------------
(* Model-checking instance of HashTable: five items, two of them with the  *)
(* same key, and three keys that collide in one bucket.                    *)
EXTENDS HashTable

CONSTANTS x1, x2, x3, x4, x5, ka, kb, kc, kd, b1, b2

MCItems == {x1, x2, x3, x4, x5}
MCKeys == {ka, kb, kc, kd}
MCKeyOf == [x \in MCItems |-> CASE x = x1 -> ka [] x = x2 -> kb [] x = x5 -> kd [] OTHER -> kc]
MCBuckets == {b1, b2}
MCBucketOf == [k \in MCKeys |-> IF k = ka THEN b1 ELSE b2]
=============================================================================
