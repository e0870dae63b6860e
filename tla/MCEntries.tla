------------------------------ MODULE MCEntries ------------------------------
(***************************************************************************)
(* Requests of two names, with response times on both sides of what        *)
(* rounding tells apart, without one, and failed ones.                     *)
(***************************************************************************)
EXTENDS StatsEntriesProps, TLC

Symmetry == Permutations(Aggs)

Get == <<<<"GET">>, <<"x">>>>
Put2 == <<<<"PUT">>, <<"x", "y">>>>
Request(key, rt, size, error) == [key |-> key, rt |-> rt, size |-> size, error |-> error]
MCRequests ==
  {Request(Get, -1, 1, <<>>), Request(Get, 0, 0, <<"e">>), Request(Get, 99500, 2, <<>>),
   Request(Get, 1949999, 0, <<>>), Request(Put2, 999500, 3, <<"e">>), Request(Put2, -1, 0, <<"f">>)}
=============================================================================
