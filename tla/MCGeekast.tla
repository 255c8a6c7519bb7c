----------------------------- MODULE MCGeekast ------------------------------
(* Geekast with the public_host box alone, which is a section here as well *)
(* so that a probe may fail; what sections gather does not matter to keys. *)
EXTENDS Geekast

OneSection == <<"public_host">>

(* The data of the options and the history variables decide nothing of the *)
(* rest: states that differ in them alone are taken for one.               *)
WithoutHistory == <<settings, flags, stack, worker, pos, quitting, getdatasLocked,
                    pushLocked, timerActive, method, xmppEnabled, link, wired,
                    uuid, field, saved, client, reqs, hosts>>
=============================================================================
