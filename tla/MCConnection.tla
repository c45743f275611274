---------------------------- MODULE MCConnection ----------------------------
(***************************************************************************)
(* A router like that of examples/simple.cpp: "absolute" is composed and   *)
(* may be rerouted to "sub" or to a deferred callable, "sub" is composed,  *)
(* "poll" is deferred and may be rerouted into an application, whose only  *)
(* callable "inner" is composed.  "page" is a file, and "off" is below the *)
(* prefix of the application and none of its rules match it.               *)
(***************************************************************************)
EXTENDS ConnectionInv

MCPath == {"/abs", "/sub", "/poll", "/app/in", "/app/off", "/in", "/off", "/page"}
MCCallable == {"absolute", "sub", "poll", "inner"}
MCDeferred == {"poll"}

InApplication ==
  [p \in MCPath |-> CASE p = "/app/in" -> "/in" [] p = "/app/off" -> "/off" [] OTHER -> p]

\* "/sub" is mapped twice: the later rule serves it.
MCRules ==
  << Content("get", {"/sub", "/app/off"}, "absolute"),
     Content("get", {"/abs"}, "absolute"),
     Content("get", {"/sub"}, "sub"),
     Content("get", {"/poll"}, "poll"),
     App({"/app/in", "/app/off"}, InApplication, <<Content("get", {"/in"}, "inner")>>) >>

Onward ==
  [f \in MCCallable |->
     CASE f = "absolute" -> {"/sub", "/poll"} [] f = "poll" -> {"/app/in"} [] OTHER -> {}]

\* No pattern here captures anything.
Literally == [f \in MCCallable |-> [s \in MCPath |-> [a \in MCPath |-> a]]]
=============================================================================
