------------------------------- MODULE Slices -------------------------------
(***************************************************************************)
(* The operations of Rust's vectors that the pallets rely on, as the         *)
(* standard library performs them: on a vector that is not sorted            *)
(* binary_search takes the same wrong turns.                                 *)
(***************************************************************************)
EXTENDS Integers, Sequences, SequencesExt

\* binary_search_by, given how each element compares with the one looked for: whether it
\* was found, and its position or else the position at which it would have to be inserted.
BinarySearchBy(order) ==
    LET find[p \in (0 .. Len(order)) \X (0 .. Len(order))] ==
            LET mid == p[1] + (p[2] - p[1]) \div 2
            IN  IF p[1] >= p[2] THEN [found |-> FALSE, pos |-> p[1] + 1]
                ELSE CASE order[mid + 1] = "Equal" -> [found |-> TRUE, pos |-> mid + 1]
                       [] order[mid + 1] = "Less" -> find[<<mid + 1, p[2]>>]
                       [] order[mid + 1] = "Greater" -> find[<<p[1], mid>>]
    IN  find[<<0, Len(order)>>]

\* swap_remove: the last element takes the place of the removed one.
SwapRemove(s, i) ==
    IF i = Len(s) THEN Front(s) ELSE Front([s EXCEPT ![i] = Last(s)])
=============================================================================
