----------------------------- MODULE Declaration -----------------------------
(***************************************************************************)
(* The declaration a user writes: the Stack of internal/domain, what       *)
(* yaml.Loader.Load refuses and what Stack.Validate refuses.  A name is    *)
(* the sequence of its segments, ("a", "b") for "a-b", because the         *)
(* emitters join names with hyphens and what that join confuses is exactly *)
(* what some properties are about.  The empty string is the empty          *)
(* sequence.  An error is a pair of its kind and the name it is about.     *)
(* Here and in the modules that extend this one, an operator               *)
(* <name>_<bug> is <name> with a bug that a property has to notice.        *)
(***************************************************************************)
EXTENDS Integers, Sequences

Name == Seq(STRING)
NoName == <<>>

SelfHosted == "self-hosted"
Managed == "managed"

(***************************************************************************)
(* A host is the sequence of its dot-separated labels.  endpointHost has   *)
(* the form the user gave it: nothing, a bare host, a URL, or a host with  *)
(* a port or a path.                                                       *)
(***************************************************************************)
Host == Seq(STRING)
HostForm == {"none", "bare", "url", "portOrPath"}
EndpointHost == [form : HostForm, host : Host]
NoEndpoint == [form |-> "none", host |-> <<>>]
EndpointHostSuffix == <<"neon", "tech">>

AllowedConsumer == [serviceAccount : Name, namespace : Name]

\* guarantees.rpo: `declared` stands for the pointer being non-nil; the target
\* is kept up to what the code compares it with (minSupportedRPO), and
\* "malformed" is a string time.ParseDuration refuses.
RPOTarget == {"malformed", "under5m", "atLeast5m"}
RPOGuarantee == [declared : BOOLEAN, target : RPOTarget, backupTo : Name]
NoRPO == [declared |-> FALSE, target |-> "atLeast5m", backupTo |-> NoName]

Postgres == [kind : {"postgres", "", "other"},
             name : Name,
             placement : {SelfHosted, Managed, "", "other"},
             credentials : Name,
             mtls : BOOLEAN,
             rpo : RPOGuarantee,
             allowedConsumers : SUBSET AllowedConsumer,
             endpointHost : EndpointHost]

\* objectStore: `declared` is the pointer, `endpoint` whether the string is
\* non-empty; host <<>> and port 0 stand for a URL without one.
ObjectStore == [declared : BOOLEAN, endpoint : BOOLEAN, host : Host, port : Nat,
                bucket : BOOLEAN, credentials : Name]
External == [name : Name, objectStore : ObjectStore]

\* A document: does the strict decoder accept it, and are apiVersion and kind
\* the supported ones.
Document == [decodes : BOOLEAN, apiVersion : BOOLEAN, kind : BOOLEAN,
             name : Name, components : Seq(Postgres), externals : Seq(External)]

Indices(s) == 1 .. Len(s)
Elements(s) == {s[i] : i \in Indices(s)}
When(cond, kind, name) == IF cond THEN {<<kind, name>>} ELSE {}

-----------------------------------------------------------------------------
(* yaml.Loader.Load                                                        *)

ComponentLoadErrors(c) ==
    \/ c.kind # "postgres"
    \/ c.rpo.declared /\ c.rpo.target = "malformed"

LoadErrors(doc) ==
    IF ~doc.decodes
    THEN {<<"parse", NoName>>}
    ELSE When(~doc.apiVersion, "apiVersion", NoName)
         \cup When(~doc.kind, "kind", NoName)
         \cup {<<"component", c.name>> :
                 c \in {d \in Elements(doc.components) : ComponentLoadErrors(d)}}

-----------------------------------------------------------------------------
(* Stack.Validate and what it calls                                        *)

ExternalRefs(pg) ==
    IF pg.rpo.declared /\ pg.rpo.backupTo # NoName THEN {pg.rpo.backupTo} ELSE {}

HasSuffix(host, suffix) ==
    /\ Len(host) >= Len(suffix)
    /\ SubSeq(host, Len(host) - Len(suffix) + 1, Len(host)) = suffix

\* The switch on endpointHost: its first case that applies.
EndpointHostError(pg) ==
    CASE pg.endpointHost.form = "none" -> "ok"
      [] pg.endpointHost.form # "none" /\ pg.placement # Managed -> "onlyManaged"
      [] pg.placement = Managed /\ pg.endpointHost.form = "url" -> "isURL"
      [] pg.placement = Managed /\ pg.endpointHost.form = "portOrPath" -> "hasPort"
      [] pg.placement = Managed /\ pg.endpointHost.form = "bare" ->
           IF HasSuffix(pg.endpointHost.host, EndpointHostSuffix) THEN "ok" ELSE "notNeon"

GuaranteeErrors(pg) ==
    When(pg.rpo.declared /\ pg.rpo.backupTo = NoName, "backupToRequired", pg.name)

\* No guarantee is compiled for the managed placement.
ManagedGuaranteeErrors_rpoOnly(pg) ==
    When(pg.placement = Managed /\ pg.rpo.declared, "managedRPO", pg.name)
ManagedGuaranteeErrors(pg) ==
    When(pg.placement = Managed /\ pg.mtls, "managedMTLS", pg.name)
    \cup When(pg.placement = Managed /\ pg.rpo.declared, "managedRPO", pg.name)

PostgresErrors(pg) ==
    When(pg.name = NoName, "nameRequired", pg.name)
    \cup When(pg.placement = "", "placementRequired", pg.name)
    \cup When(pg.placement = "other", "unknownPlacement", pg.name)
    \cup When(pg.credentials = NoName, "credentialsRequired", pg.name)
    \cup GuaranteeErrors(pg)
    \cup ManagedGuaranteeErrors(pg)
    \cup When(/\ pg.allowedConsumers # {}
              /\ pg.placement = SelfHosted
              /\ ~pg.mtls, "consumersWithoutMTLS", pg.name)
    \cup When(\E c \in pg.allowedConsumers : c.serviceAccount = NoName,
              "serviceAccountRequired", pg.name)
    \cup When(EndpointHostError(pg) # "ok", EndpointHostError(pg), pg.name)
    \cup When(/\ pg.allowedConsumers # {}
              /\ pg.placement = Managed
              /\ pg.endpointHost.form = "none", "unpinnedConsumers", pg.name)

ExternalErrors(e) ==
    When(e.name = NoName, "externalNameRequired", e.name)
    \cup IF ~e.objectStore.declared
         THEN {<<"noStore", e.name>>}
         ELSE When(~e.objectStore.endpoint, "endpointRequired", e.name)
              \cup When(~e.objectStore.bucket, "bucketRequired", e.name)
              \cup When(e.objectStore.credentials = NoName, "storeCredentialsRequired", e.name)

Repeated(s) == {s[i].name : i \in {j \in Indices(s) : \E k \in 1 .. j - 1 : s[k].name = s[j].name}}

DeclaredExternals(stack) == {e.name : e \in Elements(stack.externals)} \ {NoName}

UndeclaredRefs_unchecked(stack) == {}
UndeclaredRefs(stack) ==
    {c \in Elements(stack.components) : ~ ExternalRefs(c) \subseteq DeclaredExternals(stack)}

Validate(stack) ==
    When(stack.name = NoName, "stackNameRequired", NoName)
    \cup When(stack.components = <<>>, "noComponent", NoName)
    \cup {<<"duplicateComponent", n>> : n \in Repeated(stack.components)}
    \cup (UNION {PostgresErrors(c) : c \in Elements(stack.components)})
    \cup {<<"duplicateExternal", n>> : n \in Repeated(stack.externals)}
    \cup (UNION {ExternalErrors(e) : e \in Elements(stack.externals)})
    \cup {<<"undeclaredExternal", c.name>> : c \in UndeclaredRefs(stack)}
=============================================================================
