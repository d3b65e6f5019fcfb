------------------------------ MODULE MCServe ------------------------------
(* Serve on small instances. *)
EXTENDS Serve, TLC

Symmetry == Permutations(RPCs) \cup Permutations(Keys)

(* A file with everything under gate.telegram, and one that leaves all it can *)
(* to notifications.telegram; then all that differ from one of them in one    *)
(* place.                                                                   *)
Modern ==
  [name |-> "lan", listen |-> "loopback", metrics |-> Unset, fieldsOK |-> TRUE,
   devices |-> Devices, notifications |-> Unset,
   gate |-> [type |-> "telegram",
             telegram |-> [token |-> 1, chat |-> 1, user |-> 7, rate |-> 3,
                           ttl |-> 4, cacheTTL |-> 2]]]

Legacy ==
  [Modern EXCEPT !.notifications = [token |-> 1, chat |-> 1, rate |-> Unset, ttl |-> Unset],
                 !.gate.telegram = [f \in DOMAIN @ |-> IF f = "user" THEN 7 ELSE Unset]]

Variants(file) ==
  {[file EXCEPT !.name = Unset], [file EXCEPT !.fieldsOK = FALSE],
   [file EXCEPT !.listen = Unset], [file EXCEPT !.metrics = Malformed],
   [file EXCEPT !.devices = {}], [file EXCEPT !.gate = Unset],
   [file EXCEPT !.gate = Unset, !.devices = {}],
   [file EXCEPT !.gate.type = "other"], [file EXCEPT !.gate.telegram = Unset],
   [file EXCEPT !.notifications = [token |-> Malformed, chat |-> 1, rate |-> 0, ttl |-> Unset]]}
  \cup {[file EXCEPT !.gate.telegram[f] = v] :
          f \in {"token", "chat", "user", "rate", "ttl", "cacheTTL"}, v \in {Unset, Malformed, 0}}

SomeConfigs == {Modern, Legacy} \cup Variants(Modern) \cup Variants(Legacy)
=============================================================================
