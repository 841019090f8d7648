----------------------------- MODULE MCControl -----------------------------
(* Constants for model checking Control. *)
EXTENDS Control

Req(method, resource, query, time, body, keep_alive) ==
  [method |-> method, resource |-> resource, query |-> query, time |-> time, body |-> body,
   keep_alive |-> keep_alive]

(* Every handler, with what it accepts and with what makes it throw. *)
SomeRequests ==
  {Req("GET", "accounts", {}, "", "", TRUE), Req("GET", "accounts", {"account"}, "", "", TRUE),
   Req("GET", "positions", {}, "", "", FALSE),
   Req("GET", "trades", {"start_time"}, "number", "", TRUE),
   Req("GET", "trades", {"start_time"}, "text", "", TRUE),
   Req("GET", "funds", {"currency"}, "", "", TRUE), Req("GET", "funds", {}, "", "", TRUE),
   Req("PUT", "trade", {}, "", "", TRUE), Req("PUT", "trade", {}, "", "valid", TRUE),
   Req("PUT", "trade", {}, "", "invalid", TRUE),
   Req("PUT", "compress", {"end_time"}, "number", "", TRUE),
   Req("PUT", "compress", {}, "number", "valid", TRUE),
   Req("PUT", "compress", {}, "", "", TRUE), Req("POST", "trade", {}, "", "valid", TRUE)}
=============================================================================
