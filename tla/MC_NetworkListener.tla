-------------------------- MODULE MC_NetworkListener --------------------------
(* Bytes are their ASCII codes.  The MDB preamble's value is in protocol.h, *)
(* which is not in the repository: any value other than "GET " serves.     *)
EXTENDS NetworkListener, TLC

CONSTANTS c1, c2

GetBytes == <<71, 69, 84, 32>>                 \* "GET "
MdbBytes == <<77, 68, 66, 1>>
Hdr == 72                                      \* the rest of an upgrade request
Bad == 88                                      \* a header beast rejects

MCStreams ==
    { MdbBytes,
      GetBytes \o <<Hdr, Delim, Bad>>,         \* an upgrade and its first frame byte
      GetBytes \o <<Bad, Delim>>,              \* a malformed one
      GetBytes \o <<Hdr>>,                     \* headers never finished
      Reverse(GetBytes),                       \* " TEG": the bytes swapped
      <<71, 69>>,                              \* too short for a preamble
      <<>> }

MCUpgrade == {GetBytes \o <<Hdr, Delim>>}
=============================================================================
