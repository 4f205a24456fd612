---------------------------- MODULE MCOrderTree -----------------------------
(***************************************************************************)
(* A small instance of OrderTree for TLC.  Eight nodes hold four orders in *)
(* one tree or five in two: a side fills up, drops its worst order and     *)
(* uses freed nodes again, and trees are deep enough for a change of       *)
(* expiry to travel past two parents.                                      *)
(***************************************************************************)
EXTENDS OrderTree

MCOrder(t, k, l) == [tree |-> t, key |-> k, time_in_force |-> l]

MCOrders == {MCOrder("Fixed", 0, 1), MCOrder("Fixed", 1, 0), MCOrder("Fixed", 3, 1),
             MCOrder("Fixed", 6, 0), MCOrder("Fixed", 7, 0), MCOrder("OraclePegged", 5, 0)}

MCRemovals == {MCOrder("Fixed", 1, 0), MCOrder("OraclePegged", 5, 0)}
=============================================================================
