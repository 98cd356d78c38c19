--------------------------- MODULE MCPolicyStore ----------------------------
(* PolicyStore on files of up to three rules over nested and odd paths.      *)
EXTENDS PolicyStore

CONSTANTS c1, c2, noName

Listed == { {}, {c1}, {c2}, {c1, noName} }

\* "", "a", "/a/", "a/b", "a/*", "a/b/*", "b/*", "*", "a*", "a/*/*", "/a/*/"
Raw == { <<>>, <<"a">>, <<"/", "a", "/">>, <<"a", "/", "b">>, <<"a", "/", "*">>,
         <<"a", "/", "b", "/", "*">>, <<"/", "b", "/", "*">>, <<"*">>, <<"a", "*">>,
         <<"a", "/", "*", "/", "*">>, <<"/", "a", "/", "*", "/">> }

\* a, a/b, a/b/c, ab/c, b/a
Asked == { [mount |-> <<"a", "/">>, path |-> <<>>],
           [mount |-> <<"a">>, path |-> <<"b">>],
           [mount |-> <<"a">>, path |-> <<"b", "/", "c">>],
           [mount |-> <<"a", "b">>, path |-> <<"c">>],
           [mount |-> <<"b">>, path |-> <<"a">>] }
=============================================================================
