---------------------------- MODULE Subsequences ----------------------------
(*****************************************************************************)
(* Array.prototype.filter, by a function on the positions of the sequence,   *)
(* so that it can be reasoned about as well as evaluated.                    *)
(*****************************************************************************)
EXTENDS Naturals, Sequences

\* Those of a sequence that are good, in their order.
Those(s, good) ==
  LET upTo[n \in 0 .. Len(s)] ==
        IF n = 0 THEN << >>
        ELSE IF s[n] \in good THEN Append(upTo[n - 1], s[n]) ELSE upTo[n - 1]
  IN upTo[Len(s)]

=============================================================================
