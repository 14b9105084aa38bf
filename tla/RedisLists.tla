----------------------------- MODULE RedisLists -----------------------------
(***************************************************************************)
(* The Redis list commands the job queue is built from, on sequences whose *)
(* first element is the left end of the list.  Redis itself is not part of *)
(* the repository: these operators follow the way src/src/jobs/Jobs.hpp uses   *)
(* LPUSH, RPUSH, BRPOP(LPUSH) and LREM with count 0.                       *)
(***************************************************************************)
EXTENDS Integers, Sequences, FiniteSets

Elements(list) == {list[i] : i \in DOMAIN list}

LPush(list, x) == <<x>> \o list
RPush(list, x) == list \o <<x>>

\* What BRPOP takes (the right end) and what it leaves.
Oldest(list) == list[Len(list)]
Older(list)  == SubSeq(list, 1, Len(list) - 1)

(***************************************************************************)
(* LREM key 0 x: every occurrence of x goes, the others keep their order.  *)
(* The n-th element kept is the one with n kept positions up to its own.   *)
(* It is SelectSeq without recursion, so that JobQueueProofs can reason    *)
(* about it; JobQueueMC compares the two on short lists.                   *)
(***************************************************************************)
Kept(list, x) == {i \in DOMAIN list : list[i] # x}
KeptUpTo(list, x, n) == {i \in Kept(list, x) : i <= n}
LRem(list, x) ==
    [n \in 1..Cardinality(Kept(list, x)) |->
        list[CHOOSE i \in Kept(list, x) : Cardinality(KeptUpTo(list, x, i)) = n]]

\* A reply that lists the members of a set in some order.
Orders(S) == {s \in [1..Cardinality(S) -> S] : Elements(s) = S}
=============================================================================
