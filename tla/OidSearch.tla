----------------------------- MODULE OidSearch -----------------------------
(***************************************************************************)
(* The loop of oid_binary_search (src/core/mib_tree.c), which every walk   *)
(* down the mib-tree uses on the sub_id array of a group node: one action  *)
(* per iteration.  Arrays count from 1 here and from 0 in C, so arr[mid]   *)
(* of the code is arr[mid + 1].                                            *)
(***************************************************************************)
EXTENDS Oid

CONSTANT Arr       \* the sub_id arrays searched

ASSUME ArrAssumption ==
  \A a \in Arr : a \in OID /\ StrictlySorted(a)

VARIABLES
  arr,             \* the array and
  oid,             \* the target passed to the call
  low, high,       \* the loop's bounds
  search_pc,              \* "loop" or "done"
  search_ret              \* value returned, once search_pc = "done"

SearchVars == <<arr, oid, low, high, search_pc, search_ret>>

SearchTypeOK ==
  /\ arr \in Arr /\ oid \in SubId
  /\ low \in -1 .. (Len(arr) - 1) /\ high \in 0 .. Len(arr)
  /\ search_pc \in {"loop", "done"} /\ search_ret \in Int

SearchInit ==
  /\ arr \in Arr /\ oid \in SubId
  /\ low = -1 /\ high = Len(arr)
  /\ search_pc = "loop" /\ search_ret = 0

\* mutant: the upper bound is set one too high
Mut_SearchBound ==
  /\ search_pc = "loop" /\ low + 1 < high
  /\ LET mid == low + (high - low) \div 2
     IN  IF arr[mid + 1] > oid
         THEN high' = mid + 1 /\ low' = low
         ELSE low' = mid /\ high' = high
  /\ UNCHANGED <<arr, oid, search_pc, search_ret>>

SearchStep ==
  /\ search_pc = "loop" /\ low + 1 < high
  /\ LET mid == low + (high - low) \div 2
     IN  IF arr[mid + 1] > oid
         THEN high' = mid /\ low' = low
         ELSE low' = mid /\ high' = high
  /\ UNCHANGED <<arr, oid, search_pc, search_ret>>

\* mutant: the insertion point is off by one
Mut_SearchReturn ==
  /\ search_pc = "loop" /\ low + 1 >= high
  /\ search_ret' = IF low < 0 \/ arr[low + 1] # oid THEN -low - 1 ELSE low
  /\ search_pc' = "done"
  /\ UNCHANGED <<arr, oid, low, high>>

SearchReturn ==
  /\ search_pc = "loop" /\ low + 1 >= high
  /\ search_ret' = IF low < 0 \/ arr[low + 1] # oid THEN -low - 2 ELSE low
  /\ search_pc' = "done"
  /\ UNCHANGED <<arr, oid, low, high>>

SearchNext == SearchStep \/ SearchReturn

SearchSpec == SearchInit /\ [][SearchNext]_SearchVars /\ WF_SearchVars(SearchNext)
-----------------------------------------------------------------------------
\* oid_binary_search returns the index of the target, or the negated insertion
\* point at which the array stays sorted (mib_tree_instance_insert relies on it).
SearchCorrect == search_pc = "done" => search_ret = oid_binary_search(arr, oid)

\* The loop of oid_binary_search terminates: the interval shrinks every time.
SearchTerminates == <>(search_pc = "done")

\* The loop invariant behind SearchCorrect: everything up to low is not greater
\* than the target and everything from high on is greater.
SearchInv ==
  /\ SearchTypeOK
  /\ low < high
  /\ low >= 0 => arr[low + 1] <= oid
  /\ high < Len(arr) => arr[high + 1] > oid
  /\ search_pc = "done" => /\ low + 1 = high
                    /\ search_ret = IF low < 0 \/ arr[low + 1] # oid THEN -low - 2 ELSE low
=============================================================================
