---------------------------- MODULE ServerConfig ----------------------------
(***************************************************************************)
(* The server's configuration file (internal/config): the defaults that     *)
(* LoadFromBytes fills in, the rules of Validate, the settings it derives,   *)
(* and what NewTelegramGate (internal/gate) demands of them on its own.      *)
(*                                                                         *)
(* A field holds what its text says: Unset if it is left out, Malformed if   *)
(* it cannot be parsed, a number for a duration in minutes, an ID, or the    *)
(* secret a reference names.  An optional section is a record or Unset. *)
(***************************************************************************)
EXTENDS Integers

CONSTANTS Unset, Malformed

ASSUME TextAssumption == Unset \notin Int /\ Malformed \notin Int /\ Unset # Malformed

(* The schema: the fields of a file, and of each section that is there. *)
WellFormed(cfg) ==
  /\ DOMAIN cfg = {"name", "listen", "metrics", "fieldsOK", "devices", "notifications", "gate"}
  /\ cfg.notifications # Unset => DOMAIN cfg.notifications = {"token", "chat", "rate", "ttl"}
  /\ cfg.gate # Unset =>
       /\ DOMAIN cfg.gate = {"type", "telegram"}
       /\ cfg.gate.telegram # Unset =>
            DOMAIN cfg.gate.telegram = {"token", "chat", "user", "rate", "ttl", "cacheTTL"}

Positive(value) == value \in Int /\ value > 0

Or(value, default) == IF value = Unset THEN default ELSE value

-----------------------------------------------------------------------------
(* Load *)

(* Only notifications.telegram gets default durations. *)
DefaultDurations(section) == [section EXCEPT !.rate = Or(@, 5), !.ttl = Or(@, 10)]

ApplyDefaults(cfg) ==
  [cfg EXCEPT !.metrics = Or(@, "loopback"),
              !.notifications = IF @ = Unset THEN Unset ELSE DefaultDurations(@)]

-----------------------------------------------------------------------------
(* Validate *)

(* host:port on a loopback address; any other address is Malformed. *)
ValidAddr(addr) == addr \in {Unset, "loopback"}

(* Left out, or op://vault/item/field. *)
ValidRef(ref) == ref # Malformed

ValidDuration(value) == value = Unset \/ Positive(value)

ValidServer(cfg) == cfg.listen # Unset /\ ValidAddr(cfg.listen) /\ ValidAddr(cfg.metrics)

ValidNotifications(cfg) ==
  cfg.notifications # Unset =>
    LET t == cfg.notifications IN
      /\ t.token # Unset /\ ValidRef(t.token)
      /\ t.chat # Unset
      /\ ValidDuration(t.rate) /\ ValidDuration(t.ttl)

(* A field of gate.telegram, or of notifications.telegram where it is left   *)
(* out.                                                                     *)
Chosen(cfg, field) ==
  IF cfg.gate.telegram[field] = Unset /\ cfg.notifications # Unset
    THEN cfg.notifications[field]
    ELSE cfg.gate.telegram[field]

(* A chat ID need not be a number here. *)
ValidTelegram(cfg) ==
  /\ Chosen(cfg, "token") # Unset /\ ValidRef(Chosen(cfg, "token"))
  /\ Chosen(cfg, "chat") # Unset
  /\ ValidDuration(Chosen(cfg, "rate")) /\ ValidDuration(Chosen(cfg, "ttl"))
  /\ Positive(cfg.gate.telegram.user)
  /\ ValidDuration(cfg.gate.telegram.cacheTTL)

(* Mutant: a file without a gate is taken whatever devices it lists. *)
ValidGateOptional(cfg) ==
  cfg.gate # Unset =>
    /\ cfg.gate.type = "telegram" /\ cfg.gate.telegram # Unset
    /\ ValidTelegram(cfg)
    /\ cfg.name # Unset

ValidGate(cfg) ==
  IF cfg.gate = Unset
    THEN cfg.devices = {}
    ELSE /\ cfg.gate.type = "telegram" /\ cfg.gate.telegram # Unset
         /\ ValidTelegram(cfg)
         /\ cfg.name # Unset

(* fieldsOK is the verdict on the fields that stand alone: log level and     *)
(* format, seal_token_ref, master_key, and each device's name and UUID.      *)
Valid(cfg) ==
  cfg.fieldsOK /\ ValidServer(cfg) /\ ValidNotifications(cfg) /\ ValidGate(cfg)

(* ValidatedConfig, of a valid file with a gate: a duration given nowhere is *)
(* zero, except that of the approval cache.                                 *)
Settings(cfg) ==
  [chat |-> Chosen(cfg, "chat"),
   user |-> cfg.gate.telegram.user,
   rate |-> Or(Chosen(cfg, "rate"), 0),
   ttl |-> Or(Chosen(cfg, "ttl"), 0),
   cacheTTL |-> Or(cfg.gate.telegram.cacheTTL, 2)]

-----------------------------------------------------------------------------
(* NewTelegramGate *)

GateAccepts(name, s) ==
  /\ name # Unset
  /\ s.chat \in Int
  /\ s.user > 0 /\ s.ttl > 0 /\ s.cacheTTL >= 0
=============================================================================
