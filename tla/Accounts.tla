------------------------------- MODULE Accounts -------------------------------
(***************************************************************************)
(* What an add_user body becomes on its way to the node: the protocol's    *)
(* account message of src/xray/account.rs, inside the user of add_user;    *)
(* and what a config body becomes: the two typed settings that             *)
(* src/routes/handler.rs takes out of it.                                  *)
(*                                                                         *)
(* The spec of an add_user body has the fields proto, level, uuid, flow,   *)
(* security, password and cipher, NoText where one is absent; a uuid, flow *)
(* or password may as well be empty, and an empty name is an unknown one.  *)
(* Names of protocols, ciphers and securities are looked up in one case,   *)
(* so they are written in one here.  The spec of a config body has tag     *)
(* ("string" or not), and settings and proxy_settings, each the value it   *)
(* encodes, "malformed", or NoText.                                        *)
(***************************************************************************)
EXTENDS AppError

CONSTANT NoText   \* an absent or empty string

KnownSecurity == {"AUTO", "AES128_GCM", "CHACHA20_POLY1305", "NONE", "ZERO"}

KnownCipher == {"AES_128_GCM", "AES_256_GCM", "CHACHA20_POLY1305",
                "XCHACHA20_POLY1305", "NONE"}

(* default_proto, the only default that is not also what an unknown name   *)
(* stands for.                                                             *)
ProtoOf(spec) == IF spec.proto = NoText THEN "vless" ELSE spec.proto

(* Mutant: an unknown security is none.                                    *)
SecurityOrNone(spec) ==
  IF spec.security \in KnownSecurity THEN spec.security ELSE "NONE"

SecurityOf(spec) ==
  IF spec.security \in KnownSecurity THEN spec.security ELSE "AUTO"

(* Mutant: an unknown cipher is no cipher.                                 *)
CipherOrNone(spec) ==
  IF spec.cipher \in KnownCipher THEN spec.cipher ELSE "NONE"

CipherOf(spec) ==
  IF spec.cipher \in KnownCipher THEN spec.cipher ELSE "CHACHA20_POLY1305"

(* build_account_typed_message, as far as it refuses.                      *)
InvalidAccount(spec) ==
  \/ ProtoOf(spec) \notin {"vless", "vmess", "trojan", "shadowsocks"}
  \/ ProtoOf(spec) \in {"trojan", "shadowsocks"} /\ spec.password = NoText

(* Mutant: uuid and flow, two neighbours of the same type, are swapped.    *)
AccountSwapped(spec) ==
  [type |-> ProtoOf(spec), id |-> spec.flow, flow |-> spec.uuid]

(* build_account_typed_message: the message each protocol has.             *)
AccountOf(spec) ==
  CASE ProtoOf(spec) = "vless" ->
         [type |-> "vless", id |-> spec.uuid, flow |-> spec.flow]
    [] ProtoOf(spec) = "vmess" ->
         [type |-> "vmess", id |-> spec.uuid, security |-> SecurityOf(spec)]
    [] ProtoOf(spec) = "trojan" ->
         [type |-> "trojan", password |-> spec.password]
    [] ProtoOf(spec) = "shadowsocks" ->
         [type |-> "shadowsocks", password |-> spec.password,
          cipher |-> CipherOf(spec)]

(* The user add_user sends, but for its email.                             *)
UserOf(spec) == [level |-> spec.level, account |-> AccountOf(spec)]

(* json_to_inbound_config and json_to_outbound_config: config.tag has to   *)
(* be a string, and each of the two settings, if there, a type and a       *)
(* base64 value.                                                           *)
InvalidConfig(spec) ==
  spec.tag # "string" \/ "malformed" \in {spec.settings, spec.proxy_settings}

(* Mutant: both settings are taken from the same field.                    *)
ConfigOfProxy(spec) ==
  [transport |-> spec.proxy_settings, proxy |-> spec.proxy_settings]

(* The configuration sent: receiver (inbound) or sender (outbound)         *)
(* settings, and proxy settings, decoded.                                  *)
ConfigOf(spec) ==
  [transport |-> spec.settings, proxy |-> spec.proxy_settings]

(* Mutant: the arm of UDP is a copy of that of TCP.                        *)
NetworkCopied(spec) == "TCP"

(* network_from_str: whatever is not UDP is TCP.                           *)
NetworkOf(spec) == IF spec.network = "UDP" THEN "UDP" ELSE "TCP"
===============================================================================
