--------------------------- MODULE MCResourceNames ---------------------------
(***************************************************************************)
(* The naming functions over all short names.                              *)
(***************************************************************************)
EXTENDS ResourceNames

CONSTANTS Alphabet, MaxLength

VARIABLE spelled

Strings == BoundedSeq(Alphabet, MaxLength)

\* The names are spelled symbol by symbol.
Init == spelled = << >>
Next == Len(spelled) < MaxLength /\ \E c \in Alphabet : spelled' = Append(spelled, c)

Spec == Init /\ [][Next]_spelled

ObjectNames == {s \in Strings : IsObjectName(s)}
Namespaces == {s \in Strings : IsNamespace(s)}

\* EPPClusterRBACName is "a cluster-unique name [...] The namespace is embedded
\* to avoid collisions when multiple ModelServices exist across namespaces"
\* (helpers.go:193-195).
ClusterRBACNameUnique ==
  IsObjectName(spelled) =>
    \A ns, otherNs \in Namespaces : \A other \in ObjectNames :
      EPPClusterRBACName(ns, spelled) = EPPClusterRBACName(otherNs, other)
        => ns = otherNs /\ spelled = other
=============================================================================
