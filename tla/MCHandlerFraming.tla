-------------------------- MODULE MCHandlerFraming --------------------------
(* Instances of HandlerFraming for TLC.                                    *)
EXTENDS HandlerFraming, CardNumber

CONSTANTS r1, r2

\* Content-Length headers: of a one-token body, a longer one, and one that
\* the body buffer does not hold.
Lengths == [len1 |-> 1, len2 |-> 2, len3 |-> 3]

Lines == {<<r1, "NL">>, <<r2, "NL">>, <<"get", "NL">>, <<"junk", "NL">>}

\* Lines, a blank line, headers with and without the token, and the request
\* lines of the secure routes.
Mixed == Lines \cup
  {<<"NL">>, <<"ping", "NL", "auth", "NL">>, <<"tx", "NL", "len1", "NL", "NL">>,
   <<"tx", "NL", "auth", "NL", "len2", "NL", "NL", r1>>,
   <<"tx", "NL", "auth", "NL", "len1", "NL", "NL", r1>>,
   <<"tx", "NL", "auth", "NL", "len3", "NL", "NL">>}
=============================================================================
