------------------------------- MODULE Inliner -------------------------------
(***************************************************************************)
(* Inliner (src/graph_models/inliner.h): the part of the ObjectId codec   *)
(* that packs a small integer or a short string into the 56-bit payload   *)
(* of an ObjectId, and decode / print_string_inlined that read an inlined *)
(* string back.  A byte has ByteBits bits (8 in the code) and a word 8    *)
(* bytes, so all widths keep their shape: the payload is 7 bytes, the     *)
(* type mask the top byte.  The mask values live in object_id.h, which is *)
(* not in the repository, and are constants here.                        *)
(***************************************************************************)
EXTENDS Integers, Sequences

CONSTANTS
    ByteBits,   \* bits of a byte
    PosIntTag,  \* top byte of ObjectId::MASK_POSITIVE_INT
    NegIntTag   \* top byte of ObjectId::MASK_NEGATIVE_INT

ASSUME ByteBits \in Nat \ {0}
ASSUME {PosIntTag, NegIntTag} \subseteq 0..2^ByteBits-1 /\ PosIntTag # NegIntTag

WordBits    == 8 * ByteBits
PayloadBits == 7 * ByteBits          \* MAX_INLINED_BYTES = 7
Int64       == -(2^(WordBits-1))..2^(WordBits-1)-1
Unsigned(v) == v % 2^WordBits        \* an int64 converted to uint64
Signed(u)   == IF u >= 2^(WordBits-1) THEN u - 2^WordBits ELSE u
TopByteZero(v) == Unsigned(v) \div 2^PayloadBits = 0   \* (v & 0xFF00'...'0000) == 0
Oid(tag, payload) == tag * 2^PayloadBits + payload
NotInlinable == -1                  \* NotSupportedException thrown

-----------------------------------------------------------------------------
(* Mutated forms of mapped definitions, used by PROJECT.json "mutants". *)
InlineInt_mut(x) ==
    IF x < 0
    THEN LET m == Signed(Unsigned(-x)) IN
         IF TopByteZero(m) THEN Oid(NegIntTag, Unsigned(m) % 2^PayloadBits) ELSE NotInlinable
    ELSE IF TopByteZero(x) THEN Oid(PosIntTag, x) ELSE NotInlinable
-----------------------------------------------------------------------------

(* inline_int: a negative value is negated in int64 (INT64_MIN stays      *)
(* itself, whose top byte is set) and stored as the one's complement of  *)
(* its magnitude; a value whose magnitude needs the top byte throws       *)
InlineInt(x) ==
    IF x < 0
    THEN LET m == Signed(Unsigned(-x)) IN
         IF TopByteZero(m)
         THEN Oid(NegIntTag, (2^WordBits - 1 - Unsigned(m)) % 2^PayloadBits)
         ELSE NotInlinable
    ELSE IF TopByteZero(x) THEN Oid(PosIntTag, x) ELSE NotInlinable

(* the loop of inline_string, inline_string5 and inline_iri: each byte    *)
(* up to the NUL is or-ed in at shift_size, which drops a byte each time  *)
RECURSIVE PackBytes(_, _, _)
PackBytes(s, shift, res) ==
    IF s = <<>> \/ Head(s) = 0 THEN res
    ELSE PackBytes(Tail(s), shift - ByteBits, res + Head(s) * 2^shift)

InlineString_mut(s) == PackBytes(s, ByteBits * 7, 0)
InlineString(s)  == PackBytes(s, ByteBits * 6, 0)    \* shift_size = 8*6
InlineString5(s) == PackBytes(s, ByteBits * 4, 0)    \* shift_size = 8*4
InlineIri(s)     == PackBytes(s, ByteBits * 5, 0)    \* shift_size = 8*5

(* decode<N>: the N bytes from shift (N-1)*8 down, in memory order c[0..] *)
Decode(n, val) == [i \in 1..n |-> (val \div 2^((n - i) * ByteBits)) % 2^ByteBits]

(* print_string_inlined<N>: the decoded bytes up to the first NUL *)
PrintInlined(n, val) ==
    LET c   == Decode(n, val)
        nul == {i \in 1..n : c[i] = 0}
    IN IF nul = {} THEN c
       ELSE SubSeq(c, 1, (CHOOSE i \in nul : \A j \in nul : i <= j) - 1)

(* The C strings of at most n bytes, other than the NUL, that TLC tries. *)
CStrings(n) == UNION {[1..k -> 1..2^ByteBits-1] : k \in 0..n}

(* The values a client may hand the codec: any int64, a C string for    *)
(* inline_string (at most 7 bytes) or inline_string5 (at most 5).        *)
Values == {[kind |-> "int", n |-> x] : x \in Int64}
            \cup {[kind |-> "str", v |-> t] : t \in CStrings(7)}
            \cup {[kind |-> "str5", v |-> t] : t \in CStrings(5)}
NoValue == [kind |-> "none"]
NoOid   == -2

VARIABLES
    value,   \* the value being inlined, or NoValue
    oid      \* what the codec returned for it, NoOid before

codec_vars == <<value, oid>>

CodecInit == value \in Values \cup {NoValue} /\ oid = NoOid

(* the client calls inline_int, inline_string or inline_string5 *)
Encode ==
    /\ value # NoValue /\ oid = NoOid
    /\ oid' = CASE value.kind = "int" -> InlineInt(value.n)
                [] value.kind = "str" -> InlineString(value.v)
                [] OTHER              -> InlineString5(value.v)
    /\ UNCHANGED value

(* the client is done with the value *)
Release ==
    /\ oid # NoOid
    /\ value' = NoValue /\ oid' = NoOid

CodecNext == Encode \/ Release

-----------------------------------------------------------------------------
(* Spec 8.5 and scenario 5: inline_int accepts exactly the integers whose *)
(* magnitude fits the 7-byte payload (INT64_MIN, whose negation          *)
(* overflows, included), and the ObjectId it returns is below the next   *)
(* integer's whenever both inline with the same sign, so the one's       *)
(* complement keeps negatives in order and no two integers share an id.  *)
IntInlining ==
    value.kind = "int" /\ oid # NoOid =>
        LET x == value.n IN
        /\ (oid # NotInlinable) <=> (-(2^PayloadBits) < x /\ x < 2^PayloadBits)
        /\ x # -1 /\ x + 1 \in Int64 /\ oid # NotInlinable /\ InlineInt(x + 1) # NotInlinable
           => oid < InlineInt(x + 1)

(* Spec 8.6: print_string_inlined<7> of what inline_string packed, and   *)
(* print_string_inlined<5> of what inline_string5 packed, give back the  *)
(* client's string.                                                       *)
StringRoundTrip ==
    oid # NoOid =>
        /\ value.kind = "str" => PrintInlined(7, oid) = value.v
        /\ value.kind = "str5" => PrintInlined(5, oid) = value.v
====
