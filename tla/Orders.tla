-------------------------------- MODULE Orders --------------------------------
(* A table whose entries have a time of last access, as the sequence of    *)
(* the entries in the order of their times.                                *)
EXTENDS Naturals, Sequences

\* retain: the entries of s that are in S, in their order.
Only(s, S) ==
    LET only[n \in 0..Len(s)] == IF n = 0 THEN <<>>
                                 ELSE IF s[n] \in S THEN Append(only[n - 1], s[n]) ELSE only[n - 1]
    IN  only[Len(s)]
=============================================================================
