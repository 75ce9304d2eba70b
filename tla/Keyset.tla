-------------------------------- MODULE Keyset --------------------------------
(***************************************************************************)
(* The pages of the lists the services answer with: the rows in an order,  *)
(* from the one after the cursor on. A page is read with one row more than *)
(* its limit; only if that row is there does the page have a next cursor,  *)
(* which names its last row.                                               *)
(***************************************************************************)
EXTENDS Naturals, FiniteSets

CONSTANTS None,
          Before(_, _)      \* the order of the list, total

\* The n first rows of S, and the last row of a page.
First(S, n) == {x \in S : Cardinality({y \in S : Before(y, x)}) < n}
Last(S) == CHOOSE x \in S : \A y \in S \ {x} : Before(y, x)

\* Mutant of From: the row of the cursor comes again.
FromCursor(S, cursor) ==
    IF cursor = None THEN S ELSE {x \in S : x = cursor \/ Before(cursor, x)}
From(S, cursor) == IF cursor = None THEN S ELSE {x \in S : Before(cursor, x)}

Page(S, cursor, n) == First(From(S, cursor), n)

\* Mutant of NextCursor: it names the row that was read in addition.
NextIsFirstLeft(S, cursor, n) ==
    LET read == First(From(S, cursor), n + 1)
    IN IF Cardinality(read) > n THEN Last(read) ELSE None
NextCursor(S, cursor, n) ==
    LET read == First(From(S, cursor), n + 1)
    IN IF Cardinality(read) > n THEN Last(First(read, n)) ELSE None
=============================================================================
