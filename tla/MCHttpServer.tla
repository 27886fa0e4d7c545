---------------------------- MODULE MCHttpServer ----------------------------
(* Model-checking instance of HttpServer. *)
EXTENDS HttpServer

\* Two requests that share keys, folded headers and a chunk trailer among them,
\* and a malformed one; how much of the stream arrives is open.
WireDef ==
  [r1 |-> [url |-> "u1",
           headers |-> << <<"k1", <<"v1", "more1">> >> >>,
           trailers |-> << <<"k2", <<"v3">> >> >>],
   r2 |-> [url |-> "u2",
           headers |-> << <<"k1", <<"v2", "more2">> >>, <<"k2", <<"v4">> >> >>,
           trailers |-> <<>>]]
StreamsDef == {<<"r1", "r2", Malformed>>}
=============================================================================
