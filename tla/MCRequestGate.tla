---------------------------- MODULE MCRequestGate ----------------------------
(***************************************************************************)
(* Two requests, a key that carries a role and a permission, a token that  *)
(* carries both roles, and two files: one asks for a permission the reader *)
(* has, the other for a role and gives the writer every permission.  Four  *)
(* changes are what it takes for a mixed verdict: a provider of tokens, a  *)
(* file, a permission granted to one role and revoked of the other.        *)
(***************************************************************************)
EXTENDS RequestGate, TLC

CONSTANTS q1, q2, reader, writer, read, any, key, token, noRule

MCClaims == (key :> [roles |-> {writer}, permissions |-> {read}])
            @@ (token :> [roles |-> {reader, writer}, permissions |-> {}])
MCExpiry == [t \in {token} |-> 1]
MCPolicies == {[roles |-> reader :> {read}, rule |-> [roles |-> {}, permissions |-> {read}]],
               [roles |-> writer :> {any}, rule |-> [roles |-> {reader}, permissions |-> {}]]}

\* The two requests are interchangeable: no definition names one.
SymmetryRequests == Permutations({q1, q2})
=============================================================================
