---------------------------- MODULE MCCollection ----------------------------
(***************************************************************************)
(* Collection for TLC: three documents in two partitions.                  *)
(***************************************************************************)
EXTENDS Collection, TLC

Versions == {[n |-> 1], [n |-> 2]}

Olds == {{[op |-> "$lt", field |-> "n", operand |-> 2]}}

Placed == "a" :> 0 @@ "b" :> 1 @@ "c" :> 0
=============================================================================
