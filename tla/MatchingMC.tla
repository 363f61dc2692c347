----------------------------- MODULE MatchingMC -----------------------------
(***************************************************************************)
(* The matching rules over every pair of rows of a small space.  A row is  *)
(* named by itself.                                                        *)
(***************************************************************************)
EXTENDS MatchingPairs

Names == {"", "Acme", "acme ", "Zed"}
Normalised == [s \in Names |-> IF s = "acme " THEN "acme"
                               ELSE IF s = "Acme" THEN "acme" ELSE s]

\* References: none; an own reference; a description naming the other's.
Texts == {[ref |-> "", mentions |-> {}],
          [ref |-> "r1", mentions |-> {}],
          [ref |-> "r2", mentions |-> {"r1"}]}

\* -8 is the least amount; 4 and 5 differ by a quarter of 4, a fifth of 5.
LeastAmount == -8
Amounts == {LeastAmount, -5, 4, 5}
Instants == 0 .. 5
Rows == {[source |-> "s", amount |-> a, currency |-> c, occurredAt |-> o,
          counterparty |-> p, ref |-> x.ref, mentions |-> x.mentions] :
            a \in Amounts, c \in {"EUR", "USD"}, o \in Instants,
            p \in Names, x \in Texts}
Itself == [r \in Rows |-> r]

\* One counterparty and currency are enough on the gateway's side.
GatewayRows == {r \in Rows : r.counterparty \in {"", "Acme"} /\ r.currency = "EUR"}
=============================================================================
