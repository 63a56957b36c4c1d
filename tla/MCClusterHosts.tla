--------------------------- MODULE MCClusterHosts ---------------------------
(* Two instances of ClusterApply on the same machines: a VM cluster to which a *)
(* fresh host is being added, without failures (the extended instance), and   *)
(* an HCI cluster with one request and failures (H).                          *)
EXTENDS MCClusterApply

CONSTANTS OneOp, MaxHCIFaults

VARIABLE start  \* which of the two

H == INSTANCE ClusterApply
        WITH Op <- OneOp, StartFile <- ThreeHCI, Request <- HCIRequests, MaxFaults <- MaxHCIFaults

MCInit ==
    \/ start = "growing" /\ Init
    \/ start = "hci" /\ H!Init

MCNext ==
    /\ UNCHANGED start
    /\ \/ start = "growing" /\ Next
       \/ start = "hci" /\ H!Next

MCSpec == MCInit /\ [][MCNext]_<<start, vars>>

-----------------------------------------------------------------------------

\* What a request that met no other has achieved: an insert has made all machines it was sent
\* to equal, and an insert or a removal has left them an /etc/hosts that leads to the hosts of
\* cluster.json and to no host that was removed, also when all others were renumbered.  And
\* whatever meets, no machine lists a host twice.
MachinesAgree ==
    /\ NoHostTwice
    /\ start = "growing" => InsertUnifies /\ NamesResolve
    /\ start = "hci" => H!InsertUnifies /\ H!NamesResolve
=============================================================================
