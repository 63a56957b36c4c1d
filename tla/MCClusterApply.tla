--------------------------- MODULE MCClusterApply ---------------------------
(***************************************************************************)
(* Instances of ClusterApply.                                              *)
(***************************************************************************)
EXTENDS ClusterApply, TLC

A(h, i) == [name |-> h, index |-> i, pn |-> TRUE, scvm |-> FALSE]
B(h, i) == [name |-> h, index |-> i, pn |-> TRUE, scvm |-> TRUE]
Plain(h, i) == [name |-> h, index |-> i, pn |-> FALSE, scvm |-> FALSE]

Insert(option, type, hosts, pcs) ==
    [NoRequest EXCEPT !.action = "insert", !.option = option, !.type = type,
                      !.hosts = hosts, !.pcs = pcs]
RemoveHost(h) == [NoRequest EXCEPT !.action = "remove", !.name = h]
Reset == [NoRequest EXCEPT !.action = "reset"]
Rotate == [NoRequest EXCEPT !.action = "rotate"]

AllCubes == Cube
FirstCube == {<<"cube", 1>>}
FirstTwoCubes == {<<"cube", 1>>, <<"cube", 2>>}

\* Host 1 and the CCVM make a cluster, host 2 is fresh.
VMConfig == [type |-> "ablestack-vm", hosts |-> <<Plain(1, 1)>>, pcs |-> <<1>>,
             storage |-> FALSE, ccvm |-> TRUE]
GrowingVM == [n \in Node |-> IF n \in CCVM \cup {<<"cube", 1>>}
                             THEN [cfg |-> VMConfig, token |-> <<0, "start">>] ELSE NoFile]

\* All machines are fresh.
Fresh == [n \in Node |-> NoFile]

VMRequests == {[Insert("all", "ablestack-vm", <<A(2, 1), A(1, 2)>>, <<1, 2>>)
                 EXCEPT !.storage = TRUE],
               Insert("add", "ablestack-vm", <<A(2, 2)>>, <<1, 2>>),
               Insert("local", "ablestack-vm", <<A(1, 1)>>, <<1>>),
               Insert("", "ablestack-standalone", <<>>, <<>>),
               RemoveHost(2), Reset, Rotate}
FreshRequests == {Insert("all", "ablestack-vm", <<A(1, 1), A(2, 2)>>, <<1, 2>>),
                  RemoveHost(2), Rotate}
InsertOnly == {Insert("all", "ablestack-vm", <<A(1, 1), A(2, 2)>>, <<1, 2>>)}

\* Three HCI hosts, the last one new and without a storage VM yet, and the CCVM.
HCIConfig == [type |-> "ablestack-hci", hosts |-> <<B(1, 1), B(2, 2), A(3, 3)>>,
              pcs |-> <<1, 2, 3>>, storage |-> FALSE, ccvm |-> TRUE]
ThreeHCI == [n \in Node |-> [cfg |-> HCIConfig, token |-> <<0, "start">>]]
HCIRequests == {Insert("add", "ablestack-hci", <<B(2, 2)>>, <<1, 2, 3>>), RemoveHost(1)}

\* The requests are interchangeable.
Ops == Permutations(Op)
=============================================================================
