----------------------------- MODULE StringsHash -----------------------------
(***************************************************************************)
(* The extendible strings hash: StringsHashBucket                          *)
(* (src/storage/index/hash/strings_hash/strings_hash_bucket.cc) and the    *)
(* directory around it.  The bucket operations get_id, create_str_id and  *)
(* redistribute are translated from the code.  The directory, the insert  *)
(* loop and the split live in strings_hash.cc, which is not in the        *)
(* repository: they are modelled from spec 4.6, read so that the split    *)
(* arguments agree with redistribute: a local depth is absolute (at least *)
(* MIN_GLOBAL_DEPTH), a directory index is the low global_depth bits of   *)
(* the hash, and splitting a bucket of depth d whose entries end in the   *)
(* bits x passes mask = 2^(d+1)-1 and other_suffix = x + 2^d.             *)
(*                                                                         *)
(* Widths are scaled: the 64-bit hash has MinDepth + SuffixBits bits (8 + *)
(* 52 used in the code), a string id IdHiBits + IdLoBits (12 + 32).  A    *)
(* bucket page is abstracted to its number; pin, unpin and make_dirty of  *)
(* the unversioned pool are modelled by UnversionedBufferPool.            *)
(***************************************************************************)
EXTENDS Integers, Sequences, FiniteSetsExt, Bitwise

CONSTANTS
    Strings,     \* the strings clients intern
    Hash,        \* string -> its hash
    MinDepth,    \* StringsHash::MIN_GLOBAL_DEPTH
    SuffixBits,  \* bits of hash_mask (52)
    IdHiBits,    \* id bits kept in the top of arr1 (12)
    IdLoBits,    \* id bits kept in arr2 (32)
    MaxKeys,     \* StringsHashBucket::MAX_KEYS
    MaxDepth,    \* bound on global_depth
    NotFound     \* ObjectId::MASK_NOT_FOUND

HashMask   == 2^SuffixBits - 1                      \* hash_mask
IdHiMask   == (2^IdHiBits - 1) * 2^IdLoBits          \* 0x0000'0FFF'0000'0000
IdLoMask   == 2^IdLoBits - 1                         \* 0xFFFF'FFFF
MaxId      == 2^(IdHiBits + IdLoBits) - 1
Ids        == 0..MaxId
Keys       == 0..MaxKeys-1
DirIdx     == 0..2^MaxDepth-1
BucketNums == 0..2^MaxDepth-1
NoBucket   == -1
NoStr      == "none"

ASSUME SuffixBits >= IdLoBits /\ MinDepth <= MaxDepth /\ MaxDepth <= MinDepth + SuffixBits
ASSUME Hash \in [Strings -> 0..2^(MinDepth + SuffixBits) - 1]
ASSUME NotFound \notin Ids /\ NoStr \notin Strings

BucketRec == [key_count: 0..MaxKeys, local_depth: MinDepth..MaxDepth,
              arr1: [Keys -> Nat], arr2: [Keys -> Nat]]
EmptyBucket(d) == [key_count |-> 0, local_depth |-> d,
                   arr1 |-> [i \in Keys |-> 0], arr2 |-> [i \in Keys |-> 0]]

VARIABLES
    global_depth,
    dir,         \* directory index -> bucket page, NoBucket past 2^global_depth
    bucket,      \* bucket page -> its key_count, local_depth, arr1, arr2
    buckets,     \* bucket pages allocated
    sm,          \* string manager: id -> the string stored there
    next_id,     \* the id create_new hands out next
    pc,          \* NoStr, or the string create_or_get_id is inserting
    ret          \* the last id returned: [str, id], NotFound before any

vars == <<global_depth, dir, bucket, buckets, sm, next_id, pc, ret>>

-----------------------------------------------------------------------------
(* Mutated forms of mapped definitions, used by PROJECT.json "mutants". *)
PackHi_mut(id) == (id % 2^IdLoBits) * 2^(SuffixBits - IdLoBits)
Moves_mut(b, i, mask, other_suffix) ==
    (mask & bucket[b].arr1[i]) = other_suffix \div 2^MinDepth
OtherSuffix_mut(x, d) == x + 2^(d - 1)
HasRoom_mut(bk) == bk.key_count <= MaxKeys
-----------------------------------------------------------------------------

(* hash_ = (hash >> MIN_GLOBAL_DEPTH) & hash_mask *)
HashSuffix(h) == (h \div 2^MinDepth) & HashMask

(* the id an entry stores: (arr1[i] >> 52) << 32 | arr2[i] *)
EntryId(bk, i) == (bk.arr1[i] \div 2^SuffixBits) * 2^IdLoBits | bk.arr2[i]

(* string_manager.bytes_eq(bytes, size, id) *)
BytesEq(s, id) == id \in DOMAIN sm /\ sm[id] = s

(* get_id: the first entry whose suffix matches and whose id holds s *)
GetId(bk, s) ==
    LET hit == {i \in 0..bk.key_count-1 :
                  /\ (bk.arr1[i] & HashMask) = HashSuffix(Hash[s])
                  /\ BytesEq(s, EntryId(bk, i))}
    IN IF hit = {} THEN NotFound ELSE EntryId(bk, Min(hit))

(* the top id bits, moved up to the top of arr1: (id & 0xFFF'0000'0000) << 20 *)
PackHi(id) == (id & IdHiMask) * 2^(SuffixBits - IdLoBits)

(* create_str_id's precondition: the assert that key_count < MAX_KEYS *)
HasRoom(bk) == bk.key_count < MaxKeys

(* create_str_id: append one entry and bump key_count *)
CreateStrId(bk, id, h) ==
    [bk EXCEPT !.arr1[bk.key_count] = PackHi(id) | HashSuffix(h),
               !.arr2[bk.key_count] = id & IdLoMask,
               !.key_count = @ + 1]

(* redistribute's test: (mask_ & arr1[i]) == other_suffix_ *)
Moves(b, i, mask, other_suffix) ==
    ((mask \div 2^MinDepth) & bucket[b].arr1[i]) = other_suffix \div 2^MinDepth

(* the entries of bucket b at the positions ps, compacted in order *)
Compact(b, ps) == [k \in 1..Len(ps) |-> <<bucket[b].arr1[ps[k]], bucket[b].arr2[ps[k]]>>]
Overwrite(bk, es) ==
    [bk EXCEPT !.arr1 = [i \in Keys |-> IF i < Len(es) THEN es[i+1][1] ELSE @[i]],
               !.arr2 = [i \in Keys |-> IF i < Len(es) THEN es[i+1][2] ELSE @[i]],
               !.key_count = Len(es)]

(* redistribute(other, mask, other_suffix): bucket b's entries whose     *)
(* bits under the mask are other_suffix move to o, the rest are          *)
(* compacted in place; both key counts are set                           *)
Redistribute(bk, b, o, mask, other_suffix) ==
    LET pos   == [k \in 1..bucket[b].key_count |-> k - 1]
        moved == SelectSeq(pos, LAMBDA i : Moves(b, i, mask, other_suffix))
        kept  == SelectSeq(pos, LAMBDA i : ~Moves(b, i, mask, other_suffix))
    IN [bk EXCEPT ![b] = Overwrite(bucket[b], Compact(b, kept)),
                  ![o] = Overwrite(bucket[o], Compact(b, moved))]

(* the split's arguments for a bucket of depth d reached from index x *)
OtherSuffix(x, d) == (x % 2^d) + 2^d
SplitMask(d) == 2^(d + 1) - 1

(* the bucket a hash leads to: the low global_depth bits index the directory *)
BucketOf(h) == dir[h % 2^global_depth]

(* get_id through the directory *)
Lookup(s) == GetId(bucket[BucketOf(Hash[s])], s)

Init ==
    /\ global_depth = MinDepth
    /\ dir = [i \in DirIdx |-> IF i < 2^MinDepth THEN i ELSE NoBucket]
    /\ bucket = [b \in BucketNums |-> EmptyBucket(MinDepth)]
    /\ buckets = 2^MinDepth
    /\ sm = [id \in Ids |-> NoStr]
    /\ next_id = 0
    /\ pc = NoStr
    /\ ret = NotFound

(* a client calls create_or_get_id(s) *)
Call(s) ==
    /\ pc = NoStr
    /\ pc' = s
    /\ UNCHANGED <<global_depth, dir, bucket, buckets, sm, next_id, ret>>

(* one turn of the insert loop finds s and returns its id *)
Found ==
    /\ pc # NoStr
    /\ Lookup(pc) # NotFound
    /\ ret' = [str |-> pc, id |-> Lookup(pc)]
    /\ pc' = NoStr
    /\ UNCHANGED <<global_depth, dir, bucket, buckets, sm, next_id>>

(* ... or the bucket has room: string_manager.create_new, create_str_id *)
Create ==
    LET b == BucketOf(Hash[pc]) IN
    /\ pc # NoStr
    /\ Lookup(pc) = NotFound
    /\ HasRoom(bucket[b])
    /\ next_id <= MaxId
    /\ sm' = [sm EXCEPT ![next_id] = pc]
    /\ next_id' = next_id + 1
    /\ bucket' = [bucket EXCEPT ![b] = CreateStrId(@, next_id, Hash[pc])]
    /\ ret' = [str |-> pc, id |-> next_id]
    /\ pc' = NoStr
    /\ UNCHANGED <<global_depth, dir, buckets>>

(* ... or the bucket is full: double the directory if the bucket is as   *)
(* deep as it, allocate a bucket, deepen both, redistribute, repoint the *)
(* directory entries whose new bit is set, and retry                     *)
Split ==
    LET x  == Hash[pc] % 2^global_depth
        b  == dir[x]
        d  == bucket[b].local_depth
        o  == buckets
        gd == IF d = global_depth THEN global_depth + 1 ELSE global_depth
        dr == IF d = global_depth
              THEN [i \in DirIdx |-> IF i < 2^global_depth THEN dir[i]
                                     ELSE IF i < 2^gd THEN dir[i - 2^global_depth]
                                     ELSE NoBucket]
              ELSE dir
        bk == [Redistribute(bucket, b, o, SplitMask(d), OtherSuffix(x, d))
                 EXCEPT ![b].local_depth = d + 1, ![o].local_depth = d + 1]
    IN
    /\ pc # NoStr
    /\ Lookup(pc) = NotFound
    /\ ~HasRoom(bucket[b])
    /\ d < MaxDepth
    /\ global_depth' = gd
    /\ dir' = [i \in DirIdx |-> IF i < 2^gd /\ i % 2^(d + 1) = OtherSuffix(x, d)
                                THEN o ELSE dr[i]]
    /\ bucket' = bk
    /\ buckets' = buckets + 1
    /\ UNCHANGED <<sm, next_id, pc, ret>>

Next == (\E s \in Strings : Call(s)) \/ Found \/ Create \/ Split

Spec == Init /\ [][Next]_vars

-----------------------------------------------------------------------------
TypeOK ==
    /\ global_depth \in MinDepth..MaxDepth
    /\ dir \in [DirIdx -> BucketNums \cup {NoBucket}]
    /\ bucket \in [BucketNums -> BucketRec]
    /\ buckets \in 2^MinDepth..2^MaxDepth
    /\ sm \in [Ids -> Strings \cup {NoStr}]
    /\ next_id \in 0..MaxId+1
    /\ pc \in Strings \cup {NoStr}
    /\ ret \in [str: Strings, id: Ids] \cup {NotFound}

(* Spec 8.8: after any splits, every entry of the bucket a directory     *)
(* index leads to carries hash bits that agree with the index on the     *)
(* bucket's local depth, so create_str_id's suffix, redistribute's mask  *)
(* test and the directory repointing keep every string reachable.        *)
SuffixInvariant ==
    \A i \in 0..2^global_depth-1 :
        LET bk == bucket[dir[i]] IN
        \A k \in 0..bk.key_count-1 :
            LET s == sm[EntryId(bk, k)] IN
            s # NoStr /\ Hash[s] % 2^bk.local_depth = i % 2^bk.local_depth

(* Spec 8.7 as refinement: read through get_id, the hash is a dictionary *)
(* in which create_or_get_id gives a string a fresh id once, and no      *)
(* split or insert ever changes the id another string looks up to.       *)
Dict == INSTANCE StringDictionary WITH
            Ids <- Ids,
            dict <- [s \in Strings |-> Lookup(s)],
            ret <- ret
ImplementsDictionary == Dict!Spec
====
