------------------------------- MODULE MCJudge -------------------------------
(* Instances of Judge: programs of one or two test cases, hosts.           *)
EXTENDS Judge

(* A program that does a on the first test case and b on the second, whose *)
(* weights differ.                                                         *)
Two(a, b) == [does |-> <<a, b>>, weights |-> <<1, 2>>]

MCTasks == {Two("right", "right"), Two("wrong", "right"), Two("right", "lingers"), Two("crash", "wrong"),
           
            [does |-> <<>>, weights |-> <<>>]}

(* Every judge with a docker daemon of its own.                            *)
OwnHost == [j \in Judges |-> j]
=============================================================================
