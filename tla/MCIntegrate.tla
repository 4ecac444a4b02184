---------------------------- MODULE MCIntegrate ----------------------------
(* One to four processors on one to three cores, numbered in their order, in      *)
(* another, or with gaps; a machine without "core id" lines, and one where the    *)
(* size of a cache line is unknown; a function that changes little, so that a     *)
(* part that is missing or doubled is noticed.                                    *)
EXTENDS Integrate

Machine(ids) == [core_ids |-> ids, n_cpus |-> Len(ids), cache_line |-> 64]
MCMachines ==
  {[core_ids |-> <<>>, n_cpus |-> 2, cache_line |-> 64],
   [core_ids |-> <<0>>, n_cpus |-> 1, cache_line |-> 0]} \cup
  {Machine(ids) : ids \in {<<0>>, <<0, 0>>, <<0, 1>>, <<1, 1>>, <<0, 0, 1>>, <<0, 2, 2>>,
                           <<0, 1, 0, 1>>, <<0, 0, 1, 1>>, <<0, 0, 0, 1>>, <<0, 1, 2, 1>>,
                           <<0, 2, 2, 1>>}}
MCWidths == {-1, 0, 3}
MCFoo(x) == 30 + x
=============================================================================
