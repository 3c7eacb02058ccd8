---------------------------- MODULE MCHttpClient ----------------------------
(* Every kind of call with every policy, with and without contexts to cancel. *)
EXTENDS HttpClient

MCSetups ==
  [kind : {"http", "grpc", "server"}, policy : {"retry", "timeout", "hedge"},
   request : {"bg", "R"}, executor : {"bg", "E"}]

=============================================================================
