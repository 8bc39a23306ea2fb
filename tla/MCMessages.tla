---------------------------- MODULE MCMessages ----------------------------
(***************************************************************************)
(* Messages for TLC.                                                       *)
(***************************************************************************)
EXTENDS Messages

CookieA == KV("a", <<"1">>)
CookieA2 == KV("a", <<"2">>)

TwoCookies == {CookieA, CookieA2}
SmallLengths == {-2, 2}
SmallBodies == {<<"x">>, <<"x", "y">>}
SmallPairs ==
  {KV("X", <<"1">>), KV("X", <<"2">>), KV("Connection", <<"close">>),
   KV("Connection", <<"keep-alive">>), KV("Cookie", <<CookieA>>),
   KV("Set-Cookie", <<CookieA>>), KV("Transfer-Encoding", <<"gzip">>)}
=============================================================================
