------------------------------ MODULE MCWiring -------------------------------
(***************************************************************************)
(* Instances of Wiring: sets of documents for TLC.                         *)
(***************************************************************************)
EXTENDS Wiring

web == [serviceAccount |-> <<"web">>, namespace |-> NoName]
batch == [serviceAccount |-> <<"batch">>, namespace |-> <<"jobs">>]

component(name, placement, mtls, rpo, consumers, endpoint) ==
    [kind |-> "postgres", name |-> name, placement |-> placement, credentials |-> <<"creds">>,
     mtls |-> mtls, rpo |-> rpo, allowedConsumers |-> consumers, endpointHost |-> endpoint]

backup(to) == [declared |-> TRUE, target |-> "atLeast5m", backupTo |-> to]
pin(branch) == [form |-> "bare", host |-> <<branch, "neon", "tech">>]

store(name, host, port) ==
    [name |-> name,
     objectStore |-> [declared |-> TRUE, endpoint |-> TRUE, host |-> host, port |-> port,
                      bucket |-> TRUE, credentials |-> <<"s3creds">>]]

document(stack, components, externals) ==
    [decodes |-> TRUE, apiVersion |-> TRUE, kind |-> TRUE,
     name |-> stack, components |-> components, externals |-> externals]

\* Every valid shape of a component called `name`, given the externals' names.
SelfHostedShapes(name, externals) ==
    {component(name, SelfHosted, m, r, cs, NoEndpoint) :
       m \in {TRUE}, r \in {NoRPO} \cup {backup(e) : e \in externals}, cs \in {{}, {web, batch}}}
    \cup {component(name, SelfHosted, FALSE, r, {}, NoEndpoint) :
            r \in {NoRPO} \cup {backup(e) : e \in externals}}
ManagedShapes(name) ==
    {component(name, Managed, FALSE, NoRPO, {}, NoEndpoint)}
    \cup {component(name, Managed, FALSE, NoRPO, cs, pin(name[1])) : cs \in {{}, {web}, {batch}}}
Shapes(name, externals) == SelfHostedShapes(name, externals) \cup ManagedShapes(name)

Remote == <<"s3", "example", "com">>
Other == <<"r2", "example", "net">>
InCluster == <<"minio", "minio", "svc", "cluster", "local">>

\* One or two components in every pair of shapes, two externals, no name with a
\* hyphen; the first external is remote or in the cluster, on a port of its own
\* or on one the control-plane rule opens.
PlainDocuments ==
    LET stores == {<<"s">>, <<"t">>}
        lists == {<<c>> : c \in Shapes(<<"a">>, stores)}
                 \cup (Shapes(<<"a">>, stores) \X Shapes(<<"b">>, stores))
    IN  {document(<<"orders">>, cs, <<store(<<"s">>, h, p), store(<<"t">>, Other, 9000)>>) :
           cs \in lists, h \in {Remote, InCluster}, p \in {9000, 443}}

\* Three components that share or split two externals, which are two hosts, one host on
\* two ports, or one destination under two names: the walk that dedupes.
SharedDocuments ==
    LET stores == {<<"s">>, <<"t">>}
        shapes(name) == {component(name, SelfHosted, FALSE, r, {}, NoEndpoint) :
                           r \in {NoRPO} \cup {backup(e) : e \in stores}}
    IN  {document(<<"orders">>, cs, <<store(<<"s">>, h, 9000), store(<<"t">>, g, p)>>) :
           cs \in shapes(<<"a">>) \X shapes(<<"b">>) \X shapes(<<"c">>),
           h \in {Remote, InCluster}, g \in {Remote, InCluster, Other}, p \in {9000, 9001}}

\* Two managed components whose consumers are pinned to one host.
SharedPins ==
    LET shapes(name) == {component(name, Managed, FALSE, NoRPO, cs, pin("a")) : cs \in {{}, {web}, {batch}, {web, batch}}}
    IN  {document(<<"orders">>, cs, <<>>) : cs \in shapes(<<"a">>) \X shapes(<<"b">>)}

\* Documents Load, Validate or Emit may refuse: each field of one component and
\* one external over its valid and invalid values.
AnyComponent ==
    [kind : {"postgres"}, name : {NoName, <<"a">>}, placement : {SelfHosted, Managed, "", "other"},
     credentials : {NoName, <<"creds">>}, mtls : BOOLEAN,
     rpo : {NoRPO} \cup {[declared |-> TRUE, target |-> t, backupTo |-> e] :
                           t \in RPOTarget, e \in {NoName, <<"s">>, <<"u">>}},
     allowedConsumers : {{}, {web}, {[serviceAccount |-> NoName, namespace |-> NoName]}},
     endpointHost : {NoEndpoint, pin("x"), [form |-> "url", host |-> <<"x", "neon", "tech">>],
                     [form |-> "bare", host |-> Remote]}]
AnyExternals ==
    {<<>>,
     <<store(<<"s">>, Remote, 9000)>>,
     <<store(<<"s">>, <<>>, 9000)>>,
     <<store(<<"s">>, Remote, 0)>>,
     <<store(<<"u">>, Remote, 9000), [store(<<"s">>, <<>>, 0) EXCEPT !.objectStore.declared = FALSE]>>}
OneComponentDocuments == {document(<<"orders">>, <<c>>, es) : c \in AnyComponent, es \in AnyExternals}
BrokenDocuments ==
    LET ok == document(<<"orders">>, <<component(<<"a">>, SelfHosted, FALSE, NoRPO, {}, NoEndpoint)>>, <<>>)
    IN  {[ok EXCEPT !.decodes = d, !.apiVersion = v, !.kind = k, !.name = n] :
           d \in BOOLEAN, v \in BOOLEAN, k \in BOOLEAN, n \in {NoName, <<"orders">>}}
        \cup {[ok EXCEPT !.components = <<>>],
              [ok EXCEPT !.components[1].kind = "other"],
              [ok EXCEPT !.components = @ \o @],
              [ok EXCEPT !.externals = <<store(<<"s">>, Remote, 9000), store(<<"s">>, Other, 9000)>>],
              [ok EXCEPT !.externals = <<store(NoName, Remote, 9000)>>]}

MCDocuments ==
    PlainDocuments \cup SharedDocuments \cup SharedPins \cup OneComponentDocuments \cup BrokenDocuments

-----------------------------------------------------------------------------
(* A finding                                                               *)

\* A component whose name is the egress policy's of an external.
EgressNameDocuments ==
    {document(<<"orders">>,
              <<component(<<"s", "egress">>, SelfHosted, TRUE, backup(<<"s">>), {web}, NoEndpoint)>>,
              <<store(<<"s">>, Remote, 9000)>>)}

=============================================================================
