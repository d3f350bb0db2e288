----------------------------- MODULE MCCacheRing -----------------------------
(***************************************************************************)
(* Instances of CacheRing for TLC: a cache of 128 bytes, two hash buckets, *)
(* entries of 30 to 61 bytes, one that fits into no cache of that size.     *)
(***************************************************************************)
EXTENDS CacheRing, Bitwise

MCKeyLen(k)  == IF k = "c" THEN 2 ELSE 1
MCDataLen(d) == CASE d = "small" -> 9 [] d = "big" -> 39 [] d = "huge" -> 100
                  [] d = "refused" -> 200
MCHash(k)    == IF k = "c" THEN 4 ELSE 0
MCXor(a, b)  == a ^^ b

=============================================================================
