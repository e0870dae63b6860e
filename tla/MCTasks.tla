------------------------------- MODULE MCTasks -------------------------------
(***************************************************************************)
(* A sequential set with a random one inside and another in there, and     *)
(* every choice of tags.                                                   *)
(***************************************************************************)
EXTENDS TaskSetProps

MCTasks == [root |-> <<"a", "s">>, s |-> <<"b", "t">>, t |-> <<"c", "d">>]
MCRandom == {"s"}

Tag(tags) == [kind |-> "tag", tags |-> tags]
Weight(w) == [kind |-> "weight", weight |-> w]
Wraps == [root |-> <<>>, s |-> <<Tag({"y"})>>, t |-> <<Weight(2), Weight(3), Tag({"z"})>>,
          a |-> <<Tag({"x"})>>, b |-> <<Tag({"x"}), Weight(-1), Tag({"z"})>>, c |-> <<Tag({"x"})>>,
          d |-> <<>>]
MCRuns == [wraps : {Wraps}, given : {TRUE}, include : SUBSET {"x", "y", "z"},
           exclude : SUBSET {"x", "y", "z"}] \cup
          [wraps : {Wraps}, given : {FALSE}, include : {{}}, exclude : SUBSET {"x", "y", "z"}]
=============================================================================
