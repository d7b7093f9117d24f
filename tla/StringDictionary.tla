-------------------------- MODULE StringDictionary --------------------------
(***************************************************************************)
(* What the extendible strings hash promises (spec 4.6): a dictionary     *)
(* from strings to string ids.  create_or_get_id returns the id the       *)
(* string already has, or gives it a fresh one, and no other string's id  *)
(* ever changes; get_id answers from the dictionary or NotFound.          *)
(***************************************************************************)
CONSTANTS
    Strings,    \* the strings clients intern
    Ids,        \* the ids the string manager can hand out
    NotFound    \* ObjectId::MASK_NOT_FOUND

ASSUME NotFound \notin Ids

VARIABLES
    dict,   \* string -> its id, or NotFound
    ret     \* the last answer: [str, id], or NotFound before any

Init ==
    /\ dict = [s \in Strings |-> NotFound]
    /\ ret = NotFound

UsedIds == {dict[s] : s \in Strings} \ {NotFound}

(* create_or_get_id(s), as one atomic step *)
CreateOrGetId(s) ==
    /\ IF dict[s] # NotFound
       THEN dict' = dict
       ELSE \E id \in Ids \ UsedIds : dict' = [dict EXCEPT ![s] = id]
    /\ ret' = [str |-> s, id |-> dict'[s]]

Next == \E s \in Strings : CreateOrGetId(s)

Spec == Init /\ [][Next]_<<dict, ret>>
=============================================================================
