---------------------------- MODULE MCPageLock ----------------------------
(* Sizes in pages: three are lockable at the start, and two growths of at  *)
(* least two pages fit under the ceiling.                                  *)
EXTENDS PageLock

CONSTANTS t1, t2

=============================================================================
