-------------------------------- MODULE Paging --------------------------------
(***************************************************************************)
(* Reading a VBR collection page by page: _collect() of                    *)
(* veeam_aiops/ops/_paging.py, behind every list, history and sum.         *)
(*                                                                         *)
(* The server may cap its pages, ignore skip, stop early, leave out the    *)
(* pagination block, or change its collection between two pages.  Where it *)
(* honours its parameters, a page starts at skip, is no longer than limit  *)
(* and is not empty unless the collection ends; where it does not, a page  *)
(* is any stretch of the collection.  No page has an item twice: what is   *)
(* dropped as a repetition was on an earlier page.  An item is its id, or  *)
(* a member of Anonymous if it has none.                                   *)
(***************************************************************************)
EXTENDS Naturals, Sequences, Subsequences

CONSTANTS
    Items,
    Anonymous,    \* those without an id
    Collections,  \* what the server may hold: sequences without repetition
    Wants,        \* counts asked for by fetch_first, or NoNumber for fetch_all
    NoNumber,     \* in the place of a count that is not given
    PageSize,
    DefaultLimit, \* the server's page when a lazy first request asks for none
    MaxPages,
    MaxChanges    \* bound: changes of the collection during the read

ASSUME PagingAssumption ==
    /\ Anonymous \subseteq Items
    /\ Collections \subseteq Seq(Items)
    /\ \A c \in Collections : \A i, j \in 1..Len(c) : c[i] = c[j] => i = j
    /\ NoNumber \notin Nat
    /\ Wants \subseteq (Nat \ {0}) \cup {NoNumber}
    /\ PageSize \in Nat \ {0}
    /\ DefaultLimit \in Nat \ {0}
    /\ MaxPages \in Nat \ {0}
    /\ MaxChanges \in Nat

VARIABLES
    collection, \* what the server holds
    honours,    \* does the server honour skip and limit?
    changes,    \* changes of the collection since the read began
    want,
    lazy,
    page,       \* pages read
    skip,
    collected,
    told,       \* has every response carried pagination.total?
    status      \* "paging", or how the read ended

pagingVars == <<collection, honours, changes, want, lazy, page, skip, collected, told, status>>

Smaller(m, n) == IF m <= n THEN m ELSE n

ItemsOf(s) == {s[i] : i \in 1..Len(s)}

PagingInit ==
    /\ collection \in Collections
    /\ honours \in BOOLEAN
    /\ changes = 0
    /\ want \in Wants
    /\ lazy \in IF want = NoNumber THEN BOOLEAN ELSE {FALSE}
    /\ page = 0
    /\ skip = 0
    /\ collected = <<>>
    /\ told = TRUE
    /\ status = "paging"

-----------------------------------------------------------------------------

Limit ==
    IF lazy /\ page = 0 THEN DefaultLimit
    ELSE IF want = NoNumber THEN PageSize
    ELSE Smaller(PageSize, want - Len(collected))

\* The items of a page that were not on an earlier one.
Fresh(batch) ==
    Picked(batch, {i \in 1..Len(batch) : \/ batch[i] \in Anonymous
                                         \/ batch[i] \notin ItemsOf(collected)})

\* The read has what it wants: everything the server reports, or the items asked for.
Satisfied(total, got) ==
    total = NoNumber \/ got >= total \/ (want # NoNumber /\ got >= want)

\* Fault: an empty page ends the read like a complete one.
VerdictEmptyEnds(batch, total, got) ==
    IF Satisfied(total, got) \/ batch = <<>> THEN "returned"
    ELSE IF Fresh(batch) = <<>> THEN "repeated"
    ELSE IF page + 1 = MaxPages THEN "exhausted"
    ELSE "paging"

\* Fault: the page budget is not enforced.
VerdictUnbounded(batch, total, got) ==
    IF Satisfied(total, got) THEN "returned"
    ELSE IF batch = <<>> THEN "short"
    ELSE IF Fresh(batch) = <<>> THEN "repeated"
    ELSE "paging"

\* How the read goes on once a page has brought it to got items; total is NoNumber
\* when the response has none.
Verdict(batch, total, got) ==
    IF Satisfied(total, got) THEN "returned"
    ELSE IF batch = <<>> THEN "short"
    ELSE IF Fresh(batch) = <<>> THEN "repeated"
    ELSE IF page + 1 = MaxPages THEN "exhausted"
    ELSE "paging"

\* Fault: skip advances by the page size asked for.
AdvanceByLimit(batch) == skip + Limit

Advance(batch) == skip + Len(batch)

\* The list a read that now has these items goes on with, or returns.
Kept(items) ==
    IF want # NoNumber /\ Len(items) > want THEN SubSeq(items, 1, want) ELSE items

\* One request and what _collect() makes of its response.
Fetch ==
    /\ status = "paging"
    /\ page < MaxPages
    /\ \E from, n \in 0..Len(collection), total \in {Len(collection), NoNumber} :
          LET batch == SubSeq(collection, from + 1, Smaller(from + n, Len(collection)))
              items == collected \o Fresh(batch)
          IN  /\ honours => /\ from = Smaller(skip, Len(collection))
                            /\ n \in Smaller(1, Len(collection))..Limit
              /\ status' = Verdict(batch, total, Len(items))
              /\ collected' = Kept(items)
              /\ skip' = Advance(batch)
              /\ told' = (told /\ total # NoNumber)
    /\ page' = page + 1
    /\ UNCHANGED <<collection, honours, changes, want, lazy>>

\* The request itself fails, and with it the whole read.
RequestFails ==
    /\ status = "paging"
    /\ status' = "failed"
    /\ UNCHANGED <<collection, honours, changes, want, lazy, page, skip, collected, told>>

\* Jobs, sessions and backups come and go while the read is under way.
Change ==
    /\ status = "paging"
    /\ changes < MaxChanges
    /\ changes' = changes + 1
    /\ collection' \in Collections
    /\ UNCHANGED <<honours, want, lazy, page, skip, collected, told, status>>

PagingNext == Fetch \/ RequestFails \/ Change

PagingSpec == PagingInit /\ [][PagingNext]_pagingVars

\* Every request has a timeout, so the loop goes on.
FairPaging == PagingSpec /\ WF_pagingVars(Fetch)

-----------------------------------------------------------------------------
(* Properties                                                              *)

PagingTypeOK ==
    /\ collection \in Collections
    /\ honours \in BOOLEAN
    /\ changes \in 0..MaxChanges
    /\ want \in Wants
    /\ lazy \in BOOLEAN
    /\ page \in 0..MaxPages
    /\ skip \in Nat
    /\ collected \in Seq(Items) /\ (want # NoNumber => Len(collected) <= want)
    /\ told \in BOOLEAN
    /\ status \in {"paging", "returned", "short", "repeated", "exhausted", "failed"}

\* A full read that returns has every item, though the server ignored skip, sent
\* pages in any order or stopped early: a partial list is never returned for a
\* complete one (_paging.py:19-22).  Nor is an item in it twice, however the collection
\* moves under the read: "a repeated page is a double-billed one" (_paging.py:9).
CompleteOrError ==
    /\ \A i, j \in 1..Len(collected) :
          i < j /\ collected[i] = collected[j] => collected[i] \in Anonymous
    /\ /\ status = "returned"
       /\ want = NoNumber
       /\ told
       /\ changes = 0
       /\ ItemsOf(collection) \cap Anonymous = {}
       => ItemsOf(collected) = ItemsOf(collection)

\* A server that honours skip is never accused of the contrary, however small it
\* makes its pages, and its items come back in its own order: all of them, or as
\* many as were wanted (_paging.py:13-15, 142-159).
HonestRead ==
    honours /\ told /\ changes = 0 =>
        /\ status \notin {"short", "repeated"}
        /\ \A i \in 1..Len(collected) : i <= Len(collection) /\ collected[i] = collection[i]
        /\ status = "returned" =>
             Len(collected) = IF want = NoNumber THEN Len(collection)
                              ELSE Smaller(want, Len(collection))

\* Every read ends, with a list or an error, even if the server never lets it
\* finish (_paging.py:30, 114-118).
ReadEnds == <>(status # "paging")

=============================================================================
