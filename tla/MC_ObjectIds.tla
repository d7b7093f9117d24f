---------------------------- MODULE MC_ObjectIds ----------------------------
(* The two ways a value gets its ObjectId, checked in one model: a string *)
(* too long to inline is interned by the strings hash, a small integer or *)
(* a short string is inlined.  One client does one thing at a time: it   *)
(* either holds a value for the inliner or calls the hash.               *)
EXTENDS StringsHash, Inliner, TLC

CONSTANTS a, b, c, d

MCStrings == {a, b, c, d}

(* a and b collide on every hash bit, c shares the low two bits with     *)
(* them, d differs in bit 1: the inserts split a bucket once or twice,   *)
(* and some splits move no entry                                          *)
MCHash == a :> 0 @@ b :> 0 @@ c :> 4 @@ d :> 2

MCInit == Init /\ CodecInit

MCNext ==
    \/ value = NoValue /\ Next /\ UNCHANGED codec_vars
    \/ CodecNext /\ UNCHANGED vars

MCSpec == MCInit /\ [][MCNext]_<<vars, codec_vars>>
====
