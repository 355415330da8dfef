---------------------------- MODULE MCAdminAccess ----------------------------
(***************************************************************************)
(* Instances of AdminAccess for TLC.                                       *)
(***************************************************************************)
EXTENDS AdminAccess, TLC

CONSTANTS g1, g2, g3, g4, g5, k1, k2, root, good

\* A gateway with a bearer token, one with two middlewares, an older one with a
\* password, and two that are opened by links.
Guards == [g \in Gateways |->
  CASE g = g1 -> << [type |-> "bearer", token |-> good] >>
    [] g = g2 -> << [type |-> "bearer", token |-> good],
                    [type |-> "apiKey", header |-> "x-api-key", value |-> good] >>
    [] g = g3 -> << [type |-> "basic", users |-> [u \in {root} |-> good]] >>
    [] OTHER  -> << [type |-> "signed"] >>]

\* The clocks of the last two differ by a second.
Lags == [g \in Gateways |-> IF g = g4 THEN 1 ELSE 0]

Read == {"authorization", "x-api-key"}

Line(args, token, header) == [args |-> args, token |-> token, header |-> header]

Key == [name |-> "x-api-key", value |-> good]
Password == [name |-> "authorization", value |-> [scheme |-> "basic", credential |-> <<root, good>>]]

\* A key is revoked at both newer gateways and at the older one, with its token
\* before the URL and after it, keys are listed, and a gateway is inspected that
\* denies it for want of a header.
Typed == {Line(<<"keys", "revoke", k1, g1>>, good, None),
          Line(<<"keys", "revoke", g2, k1>>, good, Key),
          Line(<<"keys", "revoke", k1, g3>>, good, Password),
          Line(<<"keys", "list", g1>>, good, None),
          Line(<<"inspect", g2>>, good, None)}

\* The clocks of minters: behind by a second, right, or ahead by two.
Drifts == {-1, 0, 2}

\* No step of one part reads or writes a variable of the other: either part is
\* checked from its initial state, and their steps are not interleaved.
NextApart ==
  \/ LinksInit /\ AdminNext
  \/ AdminInit /\ LinksNext /\ UNCHANGED adminVars

SpecApart == Init /\ [][NextApart]_vars

Symmetry == Permutations(Commands)
=============================================================================
