---------------------------- MODULE ResourceNames ----------------------------
(***************************************************************************)
(* The names of the objects a ModelService creates (helpers.go).  They are *)
(* all made from its own name, which Kubernetes lets contain dots, while   *)
(* some of the objects may not.                                            *)
(*                                                                         *)
(* A name is a sequence of symbols: Lower ones that SanitizeDNS1035Label   *)
(* keeps, Upper ones it maps to lower case, Digits, separators, and "?"    *)
(* for any other character, which it drops.  A symbol may stand for a run  *)
(* of letters, like "epp" in the suffix the code appends ("secret" for     *)
(* "sa-metrics-reader-secret").                                            *)
(***************************************************************************)
EXTENDS SequencesExt

Lower == {"a", "m", "epp", "modelservice", "decode", "prefill", "config", "secret"}
Upper == {"A"}
Digits == {"1"}
Symbols == Lower \cup Upper \cup Digits \cup {".", "_", "-", "?"}

\* What the first loop does with one character it does not drop.
Mapped(c) == CASE c \in Upper -> "a"
               [] c \in {".", "_", "-"} -> "-"
               [] OTHER -> c

\* How many of the positions P are not behind p?
Upto(P, p) == Cardinality({q \in P : q =< p})

\* What stands at the positions P of s, in this order.
Kept(s, P) == [i \in 1 .. Cardinality(P) |-> s[CHOOSE p \in P : Upto(P, p) = i]]

\* strings.Trim(s, "-"): from the first to the last other symbol.
Trim(s) ==
  LET solid == {i \in DOMAIN s : s[i] # "-"}
  IN  IF solid = {} THEN << >> ELSE SubSeq(s, Min(solid), Max(solid))

\* Runs of "-" become one.
Collapse(s) == Kept(s, {i \in DOMAIN s : i = 1 \/ s[i] # "-" \/ s[i - 1] # "-"})

\* Mutant: a digit in front is accepted.
PrefixedNever(s) == IF s = << >> THEN << "modelservice" >> ELSE s

\* A label starts with a letter, and is not empty.
Prefixed(s) == CASE s = << >> -> << "modelservice" >>
                 [] s # << >> /\ Head(s) \in Digits -> << "m", "-" >> \o s
                 [] OTHER -> s

SanitizeDNS1035Label(s) ==
  LET kept == Kept(s, {i \in DOMAIN s : s[i] # "?"})
  IN  Prefixed(Collapse(Trim([i \in DOMAIN kept |-> Mapped(kept[i])])))

(***************************************************************************)
(* The names of the children, and what the API server accepts as a name.   *)
(***************************************************************************)
\* Mutant: no suffix.
DecodeNameBare(name) == name

DecodeName(name) == name \o << "-", "decode" >>
PrefillName(name) == name \o << "-", "prefill" >>
PodMonitorName(name, role) == name \o << "-", role >>
InferencePoolName(name) == name
HTTPRouteName(name) == name

\* Mutant: a suffix that is there already is not added.
EPPNameOnce(name) ==
  LET label == SanitizeDNS1035Label(name)
  IN  IF IsSuffix(<< "-", "epp" >>, label) THEN label ELSE label \o << "-", "epp" >>

\* The EPP's Deployment, Service, ServiceAccount, Role and RoleBinding.
EPPName(name) == SanitizeDNS1035Label(name) \o << "-", "epp" >>

EPPConfigMapName(name) == EPPName(name) \o << "-", "config" >>
EPPSecretName(name) == EPPName(name) \o << "-", "secret" >>
EPPServiceMonitorName(name) == EPPName(name)

EPPClusterRBACName(namespace, name) == namespace \o << "-" >> \o EPPName(name)

\* A DNS-1035 label, its length apart: a Service needs one.
IsLabel(s) ==
  /\ s # << >>
  /\ \A i \in DOMAIN s : s[i] \in Lower \cup Digits \cup {"-"}
  /\ Head(s) \in Lower /\ Last(s) # "-"

\* The names other objects may have: labels joined by dots, here of lower case
\* letters, digits and hyphens; a namespace may not have dots.
IsObjectName(s) ==
  /\ s # << >>
  /\ \A i \in DOMAIN s : s[i] \in Lower \cup Digits \cup {"-", "."}
  /\ Head(s) \notin {"-", "."} /\ Last(s) \notin {"-", "."}
  /\ \A i \in 1 .. Len(s) - 1 : s[i] = "." => s[i + 1] \notin {"-", "."}
  /\ \A i \in 2 .. Len(s) : s[i] = "." => s[i - 1] \notin {"-", "."}

IsNamespace(s) == IsObjectName(s) /\ "." \notin {s[i] : i \in DOMAIN s}
=============================================================================
