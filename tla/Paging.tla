------------------------------- MODULE Paging --------------------------------
(***************************************************************************)
(* One step of a paged collection (app/paging.go collectPaged): how much   *)
(* of a page is taken, and whether the loop ends after it.  The page and   *)
(* the total are the node's, and not trusted.                              *)
(***************************************************************************)
EXTENDS Integers, SequencesExt

CONSTANTS
  PageSize,   \* the size asked for (50)
  MaxPages    \* maxPagedPages

PagingAssumption == PageSize \in Nat \ {0} /\ MaxPages \in Nat \ {0}

\* maxPagedItems
MaxItems == MaxPages * PageSize

Least(a, b) == IF a < b THEN a ELSE b

\* Mutant: the page is appended before the cap is looked at.
TakenWhole(out, page) == out \o page

\* A page is cut to the room that is left before it is appended.
Taken(out, page) == out \o SubSeq(page, 1, Least(Len(page), MaxItems - Len(out)))

\* Mutant: the total is taken to count from zero.
EndsShort(out, page, total, index) ==
  \/ Len(out) >= MaxItems \/ Len(out) + 1 >= total
  \/ page = <<>> \/ index + 1 = MaxPages

\* After page index, of which out is the result so far.
Ends(out, page, total, index) ==
  \/ Len(out) >= MaxItems \/ Len(out) >= total
  \/ page = <<>> \/ index + 1 = MaxPages

\* An honest node's page of list.
PageOf(list, index) ==
  SubSeq(list, index * PageSize + 1, Least(Len(list), (index + 1) * PageSize))
=============================================================================
