------------------------------- MODULE Searches -------------------------------
(***************************************************************************)
(* std::lower_bound, as the library uses it on a slice of an arena.        *)
(***************************************************************************)
EXTENDS Integers

(* The binary search of the positions first .. first + len - 1 for the      *)
(* first one that is not in "before", the positions whose value is smaller  *)
(* than the one looked for.  A range r is its first position and length.    *)
lower_bound(before, first, len) ==
    LET search[r \in Nat \X Nat] ==
            IF r[2] = 0 THEN r[1]
            ELSE LET half == r[2] \div 2
                     mid == r[1] + half
                 IN  IF mid \in before
                     THEN search[<<mid + 1, r[2] - half - 1>>]
                     ELSE search[<<r[1], half>>]
    IN  search[<<first, len>>]
=============================================================================
