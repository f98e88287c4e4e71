------------------------------ MODULE MCScopes ------------------------------
(***************************************************************************)
(* A small wiring for the runs of Scopes, as open_app_scope(eager=...)     *)
(* leaves it: clock and settings are built at startup, the requests find   *)
(* db and pool missing and race to build them.                             *)
(***************************************************************************)
EXTENDS Scopes

LazyDeps ==
  [clock |-> <<>>, settings |-> <<"clock">>, db |-> <<>>, pool |-> <<"db">>,
   session |-> <<"pool", "db">>]
LazyKeys == DOMAIN LazyDeps
LazyGoals ==
  [boot |-> {"clock", "settings"}, one |-> {"session"}, two |-> {"session", "db"}]
LazyHome == [boot |-> "app", one |-> "r1", two |-> "r2"]
=============================================================================
