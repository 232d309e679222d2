------------------------------- MODULE MCLogin -------------------------------
(* An instance of Login for TLC. *)
EXTENDS Login, TLC

CONSTANTS s1, s2, e1, k1

Token == [fields |-> {"id_token", "access_token"}, kakao |-> FALSE, rs256 |-> TRUE,
          kid |-> k1, signed |-> TRUE, ours |-> TRUE, nonce |-> TRUE, exp |-> MaxTime + 1,
          sub |-> s1, email |-> NoEmail]

\* A token with an address; without one, a token that expires; one that is forged, one
\* that does not parse, a code; and a Kakao access token.
MCPayloads == {
  [Token EXCEPT !.email = e1],
  [Token EXCEPT !.exp = 1],
  [Token EXCEPT !.signed = FALSE],
  [Token EXCEPT !.rs256 = FALSE],
  [Token EXCEPT !.fields = {"authorization_code"}],
  [Token EXCEPT !.fields = {"access_token"}, !.kakao = TRUE, !.sub = s2]}

Symmetry == Permutations(Reqs) \cup Permutations(Users)
=============================================================================
