------------------------------- MODULE MCHttpd -------------------------------
(***************************************************************************)
(* Instances of the web server for TLC.                                    *)
(***************************************************************************)
EXTENDS Httpd, TLC

\* What a client that sends one request, as the README asks, can send at once:
\* part of a request, one for the handler or one that is not found, or something
\* malformed, also right behind a request. And two requests that are not found: behind
\* the path of the first, which nothing resets, the path of the second is never empty.
OneRequest == {<<>>, <<"request">>, <<"other">>, <<"bad">>, <<"request", "bad">>, <<"other", "bad">>,
               <<"other", "other">>}

\* A whole request for the handler, or part of one.
JustRequest == {<<>>, <<"request">>}

\* The builds checked for safety: each runtime, each platform. And the one whose
\* signals and timers make it hardest to get on.
TwoBuilds == {<<"quickjs", "linux">>, <<"jerryscript", "pico2">>}
QuickLinux == {<<"quickjs", "linux">>}

Symmetry == Permutations(Conn) \cup Permutations(Fd \ {ServerFd})
=============================================================================
