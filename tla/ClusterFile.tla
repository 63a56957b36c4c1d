----------------------------- MODULE ClusterFile -----------------------------
(***************************************************************************)
(* What the cluster configuration service writes (internal/service/        *)
(* clusterconfig/cluster_config.go): the content of cluster.json after an  *)
(* insert, a removal or a reset, and the lines of /etc/hosts.              *)
(*                                                                         *)
(* A host of the list is [name, index, pn, scvm]: pn says whether it has a *)
(* storage-network address (ablecubePn), scvm whether it has the addresses *)
(* of a storage VM.  The addresses themselves are <<role, host name>>.     *)
(***************************************************************************)
EXTENDS Integers, Sequences, FiniteSets, SequencesExt

HCI == {"ablestack-hci", "ablestack-hci-filesystem"}
VM == {"ablestack-vm", "ablestack-standalone"}

\* The clusterConfig section of a fresh host; ccvm says whether ccvm.ip is set.
NoConfig == [type |-> "", hosts |-> <<>>, pcs |-> <<>>, storage |-> FALSE, ccvm |-> FALSE]

-----------------------------------------------------------------------------
\* buildOrderedHosts: a host of a cluster that is not HCI keeps its index, name
\* and management address only.
BuildOrderedHosts(type, hosts) ==
    IF type \in HCI THEN hosts
    ELSE [k \in DOMAIN hosts |-> [hosts[k] EXCEPT !.pn = FALSE, !.scvm = FALSE]]

\* NormalizeClusterJSON, which every save begins with.
NormalizeClusterJSON(f) == [f EXCEPT !.hosts = BuildOrderedHosts(f.type, f.hosts)]

PCSClusterMaxHosts == 16

\* NormalizePCSClusterList: without repetitions, at most 16.
NormalizePCSClusterList(values) ==
    FoldLeft(LAMBDA out, v : IF Contains(out, v) \/ Len(out) >= PCSClusterMaxHosts
                             THEN out ELSE Append(out, v),
             <<>>, values)

\* minPCSClusterHostsForType and ValidatePCSClusterList
MinPCSClusterHosts(type) ==
    CASE type = "ablestack-standalone" -> 0 [] type \in HCI -> 3 [] OTHER -> 1
ValidatePCSClusterList(type, values) ==
    Cardinality(ToSet(values)) \in MinPCSClusterHosts(type)..PCSClusterMaxHosts

\* The position of a host name in a list, 0 if it is not there.
Position(hosts, name) == SelectInSeq(hosts, LAMBDA h : h.name = name)

\* Hosts of params replace those of the same name, the others are appended.
Upsert(hosts, params) ==
    FoldLeft(LAMBDA acc, p : IF Position(acc, p.name) # 0
                             THEN [acc EXCEPT ![Position(acc, p.name)] = p]
                             ELSE Append(acc, p),
             hosts, params)

\* renumberHostIndexes
RenumberHostIndexes(hosts) == [k \in DOMAIN hosts |-> [hosts[k] EXCEPT !.index = k]]

\* insert, on the section it has loaded.  A cluster that is not HCI takes the
\* storage-network address only if it has such a network.
InsertInto(f, req) ==
    NormalizeClusterJSON(
        [type    |-> req.type,
         hosts   |-> Upsert(f.hosts,
                            IF req.type \in VM
                            THEN [k \in DOMAIN req.hosts |->
                                    [req.hosts[k] EXCEPT !.pn = @ /\ req.storage]]
                            ELSE req.hosts),
         pcs     |-> IF req.pcs = <<>> THEN f.pcs ELSE NormalizePCSClusterList(req.pcs),
         storage |-> IF req.type \in VM THEN req.storage ELSE f.storage,
         ccvm    |-> TRUE])

\* removeHost, on the section it has loaded.
RemoveFrom(f, name) ==
    NormalizeClusterJSON(
        IF Position(f.hosts, name) = 0 THEN f
        ELSE [f EXCEPT !.pcs = SelectSeq(f.pcs, LAMBDA x : x # name),
                       !.hosts = RenumberHostIndexes(
                                   SelectSeq(f.hosts, LAMBDA h : h.name # name))])

-----------------------------------------------------------------------------
\* /etc/hosts is a set of lines [ip, names]; the first two, for localhost, are
\* left out.  A name is <<"host", h>> or <<alias, index>>, with index 0 for the
\* alias without a number that a machine uses for itself.
Line(ip, names) == [ip |-> ip, names |-> names]

\* filterHostsLines
FilterHostsLines(lines, ips, names) ==
    {l \in lines : l.ip \notin ips /\ l.names \cap names = {}}

Addresses(h) == {<<role, h.name>> : role \in {"ablecube", "scvmMngt", "ablecubePn",
                                              "scvm", "scvmCn"}}
Numbered(i) == {<<alias, i>> : alias \in {"scvm-mngt", "pn-ablecube", "scvm", "cn-scvm"}}

\* The lines of one host on machine me, which is <<"cube", host name>>,
\* <<"scvm", number in its hostname>> or <<"ccvm", 0>>.  An entry without an
\* address is an empty line (formatHostsEntry).
HostLines(type, storage, me, h) ==
    LET local == \/ me = <<"cube", h.name>>
                 \/ type \in HCI /\ me = <<"scvm", h.index>>
        own(alias) == {<<alias, h.index>>} \cup (IF local THEN {<<alias, 0>>} ELSE {})
    IN  {Line(<<"ablecube", h.name>>,
              {<<"host", h.name>>} \cup (IF me = <<"cube", h.name>>
                                         THEN {<<"ablecube", 0>>} ELSE {}))}
        \cup (IF h.pn /\ (type \in HCI \/ storage)
              THEN {Line(<<"ablecubePn", h.name>>, own("pn-ablecube"))} ELSE {})
        \cup (IF h.scvm /\ type \in HCI
              THEN {Line(<<"scvmMngt", h.name>>, own("scvm-mngt")),
                    Line(<<"scvm", h.name>>, own("scvm")),
                    Line(<<"scvmCn", h.name>>, own("cn-scvm"))}
              ELSE {})

\* Mutant: the lines with an address of the host stay if the name differs.
ReplacedByName(type, h) == [ips |-> {}, names |-> {<<"host", h.name>>} \cup Numbered(h.index)]

\* The lines that give way to those of a host.
Replaced(type, h) ==
    IF type \in VM THEN [ips |-> {}, names |-> {<<"host", h.name>>}]
    ELSE [ips |-> Addresses(h), names |-> {<<"host", h.name>>} \cup Numbered(h.index)]

\* changeHosts: only the localhost lines survive on a cluster that is not HCI;
\* then the lines of the CCVM and of each host replace the ones they conflict with.
ChangeHosts(lines, type, storage, f, me) ==
    LET base == IF type \in VM THEN {} ELSE lines
        ccvm == {<<"ccvm", 0>>, <<"ccvm-mngt", 0>>}
        start == IF f.ccvm
                 THEN FilterHostsLines(base, {<<"ccvm", 0>>}, ccvm)
                      \cup {Line(<<"ccvm", 0>>, ccvm)}
                 ELSE base
        step(ls, h) == FilterHostsLines(ls, Replaced(type, h).ips, Replaced(type, h).names)
                       \cup HostLines(type, storage, me, h)
    IN  FoldLeft(step, start, f.hosts)

\* The lines that removeHost takes out before it saves (HCI) or after.
WithoutLines(lines, type, h) ==
    IF type \in HCI
    THEN FilterHostsLines(lines, Addresses(h), {<<"host", h.name>>} \cup Numbered(h.index))
    ELSE FilterHostsLines(lines, {<<"ablecube", h.name>>}, {})

-----------------------------------------------------------------------------
\* What /etc/hosts is for: every host of the list, and every storage VM of it,
\* is found under its name at its own address and nowhere else, and no second
\* line has that address.
Resolves(lines, type, hosts) ==
    \A k \in DOMAIN hosts :
        LET h == hosts[k]
            only(name, ip) == /\ {l.ip : l \in {x \in lines : name \in x.names}} = {ip}
                              /\ Cardinality({l \in lines : l.ip = ip}) = 1 IN
        /\ only(<<"host", h.name>>, <<"ablecube", h.name>>)
        /\ type \in HCI /\ h.scvm =>
             /\ only(<<"scvm", h.index>>, <<"scvm", h.name>>)
             /\ only(<<"scvm-mngt", h.index>>, <<"scvmMngt", h.name>>)
             /\ only(<<"cn-scvm", h.index>>, <<"scvmCn", h.name>>)

\* No line leads to a host that is not in the list any more.
Forgotten(lines, name) == \A l \in lines : l.ip[2] # name
=============================================================================
