------------------------------ MODULE IndexMap ------------------------------
(***************************************************************************)
(* The hash map of the device from a table and a key to the page that      *)
(* holds the row: buckets of a fixed length in one array.  Pages are       *)
(* numbered by block of the host (slb / 4).                                *)
(***************************************************************************)
EXTENDS Integers, FiniteSetsExt

CONSTANTS BUCKET_COUNT, BUCKET_LENGTH,
          TABLE_SHIFT,   \* 2^32: the table is the high word of what is hashed
          KEY_RANGE,     \* 2^22: the key of an entry has 22 bits
          INVALID_HASHMAP_LPN

ASSUME BucketAssumption == BUCKET_COUNT \in Nat \ {0} /\ BUCKET_LENGTH \in Nat \ {0}
\* both are powers of two: 2^18 buckets, as hashmap.h computes them
ASSUME HashAssumption ==
    /\ TABLE_SHIFT \in Nat /\ TABLE_SHIFT % BUCKET_COUNT = 0
    /\ KEY_RANGE \in Nat \ {0} /\ KEY_RANGE % BUCKET_COUNT = 0

VARIABLE indexMap   \* the entries: table, key and slb

Slots == 0 .. BUCKET_COUNT * BUCKET_LENGTH - 1

InitIndexMap == indexMap = [i \in Slots |-> [table |-> 0, key |-> 0, slb |-> INVALID_HASHMAP_LPN]]

Hash(table, key) == table * TABLE_SHIFT + key

Bucket(table, key) ==
    LET bucketId == Hash(table, key) % BUCKET_COUNT
    IN  {bucketId * BUCKET_LENGTH + i : i \in 0 .. BUCKET_LENGTH - 1}

Used(i) == indexMap[i].slb # INVALID_HASHMAP_LPN

\* Mutant of Stops: the bucket is not searched for the key.
StopsAtFree(table, key) == {i \in Bucket(table, key) : ~ Used(i)}

\* where the search of insertHashMap ends, if anywhere
Stops(table, key) == {i \in Bucket(table, key) : indexMap[i].key = key \/ ~ Used(i)}

BucketFull(table, key) == Stops(table, key) = {}

\* insertHashMap when the bucket has an end for the search
NewMap(table, key, slb) ==
    LET i == Min(Stops(table, key))
    IN  IF indexMap[i].key = key THEN indexMap
        ELSE [indexMap EXCEPT ![i] = [table |-> table, key |-> key % KEY_RANGE, slb |-> slb]]

getHashMap(table, key) ==
    LET hits == {i \in Bucket(table, key) : indexMap[i].key = key}
    IN  IF hits = {} THEN INVALID_HASHMAP_LPN ELSE indexMap[Min(hits)].slb

=============================================================================
