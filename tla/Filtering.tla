----------------------------- MODULE Filtering -----------------------------
(***************************************************************************)
(* What is left of a queue or a list when some of its elements are dropped *)
(* (QCoreApplication::removePostedEvents, the records a reader skips).     *)
(*                                                                         *)
(* SelectSeq says the same, but a proof cannot expand it.  Here the        *)
(* elements that go are given as a set and the definition is a recursive   *)
(* function, from which ClientProofs derives that the others stay, in      *)
(* their order and as often as they were there.                            *)
(***************************************************************************)
LOCAL INSTANCE Naturals
LOCAL INSTANCE Sequences

\* s without the elements that are in D.
Without(s, D) ==
    LET left[n \in 0 .. Len(s)] ==
            IF n = 0 THEN <<>>
            ELSE IF s[n] \in D THEN left[n - 1] ELSE Append(left[n - 1], s[n])
    IN  left[Len(s)]
=============================================================================
