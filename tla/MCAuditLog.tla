----------------------------- MODULE MCAuditLog -----------------------------
EXTENDS AuditLog, TLC

CONSTANTS p1, p2, c1, c2, o1

\* One failure, or one damaged field, or two that could hide each other: an
\* error and its signature, a version and what it covers, a hash and the link
\* to it.
MCBounded(failures, fields) ==
  \/ failures + Cardinality(fields) <= 1
  \/ /\ failures = 0
     /\ \E i \in 1..3 :
          fields \in {{<<i, "detail">>, <<i, "sig">>}, {<<i, "version">>, <<i, "status">>},
                     {<<i, "hash">>, <<i + 1, "prev">>}}

Symm == Permutations(Process)
=============================================================================
