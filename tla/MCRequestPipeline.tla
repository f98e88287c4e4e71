-------------------------- MODULE MCRequestPipeline --------------------------
(***************************************************************************)
(* Applications, requests and errors for the runs of RequestPipeline.      *)
(***************************************************************************)
EXTENDS RequestPipeline

(* The garden's application under each trust policy, and applications with *)
(* a request context of their own.                                         *)
MCApps ==
  {[cors |-> TRUE, ids |-> TRUE, recipe |-> "default", trust |-> p] : p \in Policies}
  \cup {[cors |-> FALSE, ids |-> FALSE, recipe |-> c, trust |-> "trust_all"]
          : c \in {"default", "eager", "raising"}}

Plain ==
  [type |-> "http", preflight |-> FALSE, origin |-> TRUE, peer |-> FALSE, secret |-> FALSE,
   proto |-> << >>, host |-> << >>, prefix |-> << >>]
Proxied ==
  [Plain EXCEPT !.peer = TRUE, !.proto = <<"https", "http">>, !.host = <<"public", "edge">>,
                !.prefix = <<"/api">>]
MCInputs ==
  {Plain, Proxied, [Plain EXCEPT !.preflight = TRUE], [Proxied EXCEPT !.type = "websocket"],
   [Proxied EXCEPT !.secret = TRUE, !.host = << >>]}

MCErrors ==
  {[class |-> "ProblemException"], [class |-> "ParamError", parameter |-> "bbox"],
   [class |-> "TypeError"],
   [class |-> "RequestValidationError", places |-> {<<"body", "name">>, <<"path", "id">>, <<"header", "if-match">>}],
   [class |-> "RequestValidationError",
    places |-> {<<"query">>, <<"query", "ids", "0">>, <<"query", "limit">>, <<"body", "name">>}]}

CorsApps == {[cors |-> TRUE, ids |-> TRUE, recipe |-> "default", trust |-> "trust_none"]}
=============================================================================
