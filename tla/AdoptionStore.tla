--------------------------- MODULE AdoptionStore ---------------------------
(***************************************************************************)
(* The adoption store of unifi-stubd: the record the controller teaches    *)
(* the stub, what a controller response or a local SSH command may change  *)
(* in it, which stores may be persisted in adoption.env, and what a store  *)
(* makes of the next inform request.                                       *)
(*                                                                         *)
(* Every operator is pure; Adoption.tla puts them to work.  Texts (keys,   *)
(* URLs, configuration versions) are opaque values; the empty text "" is   *)
(* an absent field, as it is in Go.                                        *)
(***************************************************************************)

CONSTANTS
  RawKey,        \* authkey texts of 16 raw bytes (SSH and legacy files only)
  HexKey,        \* authkey texts of 32 hexadecimal characters
  BadKey,        \* texts that are neither
  KeyBytes,      \* the 16 bytes a raw or hexadecimal text stands for
  DefaultBytes,  \* the public default key
  Url,           \* URL texts a controller or an SSH client may send
  BadUrl,        \* those of them that are not an acceptable inform URL
  CfgVersion,    \* cfgversion texts of at most 31 bytes
  ControlCfg,    \* those of them with a control byte in the middle
  Version,       \* legacy VERSION overrides
  Controller,    \* the --controller fallback URL, "" when not configured
  NoFile         \* adoption.env does not exist

KeyText == RawKey \cup HexKey \cup BadKey

ASSUME TextAssumption ==
  /\ "" \notin KeyText \cup Url \cup CfgVersion \cup Version
  /\ RawKey \cap HexKey = {} /\ RawKey \cap BadKey = {} /\ HexKey \cap BadKey = {}
  /\ DOMAIN KeyBytes = RawKey \cup HexKey
  /\ BadUrl \subseteq Url /\ ControlCfg \subseteq CfgVersion
  /\ Controller \in (Url \ BadUrl) \cup {""}

State == {"", "factory", "discovered", "adopting", "provisioning", "connected", "failed"}

Store == [state : State,
          informURL : Url \cup {""},
          authKey : KeyText \cup {""},
          cfgVersion : CfgVersion \cup {""},
          useAESGCM : BOOLEAN,
          version : Version \cup {""}]

ASSUME NoFileAssumption == NoFile \notin Store

ZeroStore ==
  [state |-> "", informURL |-> "", authKey |-> "", cfgVersion |-> "",
   useAESGCM |-> FALSE, version |-> ""]

FactoryStore ==
  [state |-> "factory", informURL |-> "", authKey |-> "", cfgVersion |-> "",
   useAESGCM |-> FALSE, version |-> ""]
----------------------------------------------------------------------------
(* Keys.  Two texts are the same key when they stand for the same bytes.   *)

validateIndividualAuthKeyText(key, allowRaw) ==
  /\ key \in HexKey \/ (allowRaw /\ key \in RawKey)
  /\ KeyBytes[key] # DefaultBytes

authKeysEqual(left, right) ==
  \/ left = right
  \/ /\ left \in DOMAIN KeyBytes /\ right \in DOMAIN KeyBytes
     /\ KeyBytes[left] = KeyBytes[right]
----------------------------------------------------------------------------
(* What may be written to adoption.env, and is accepted when it is read.   *)

validatePersistedStore(store) ==
  /\ store.state \in State
  /\ store.authKey = "" => /\ store.state \notin {"adopting", "connected"}
                           /\ ~store.useAESGCM
  /\ store.state = "factory" => store.authKey = ""

validatePersistedField(store) ==
  /\ store.authKey # "" => validateIndividualAuthKeyText(store.authKey, TRUE)
  /\ store.informURL \notin BadUrl
  /\ store.cfgVersion \notin ControlCfg

validateStoreForPersistence(store) ==
  /\ validatePersistedField(store)
  /\ store # ZeroStore
  /\ validatePersistedStore(store)

\* What LoadEnv accepts is what SaveEnv writes: the fields are checked by the
\* same functions in both directions.
LoadEnvAccepts(file) == validateStoreForPersistence(file)
----------------------------------------------------------------------------
(* Merge applies the non-empty fields of an update to a base.              *)

over(base, update) == IF update = "" THEN base ELSE update

keyChanged(base, update) ==
  update.authKey # "" /\ ~authKeysEqual(update.authKey, base.authKey)

urlChanged(base, update) ==
  update.informURL # "" /\ update.informURL # base.informURL

controllerAuthKeyPresent(update) ==
  update.state = "connected" /\ update.authKey # ""

\* Mutant: a changed URL keeps the phase.
phaseRestarts_ignoresURL(base, update) ==
  controllerAuthKeyPresent(update) \/ keyChanged(base, update)

\* The identity is new, or the controller has repeated its key.
phaseRestarts(base, update) ==
  controllerAuthKeyPresent(update) \/ keyChanged(base, update) \/ urlChanged(base, update)

\* Mutant: a noop never confirms an identity.
phaseIgnored_confirmation(base, update) ==
  update.state \in {"connected", "adopting", "provisioning"}

\* Without a key nothing confirms; with one nothing local moves the phase back.
phaseIgnored(base, update) ==
  \/ update.state = "connected" /\ base.authKey = "" /\ update.authKey = ""
  \/ update.state = "adopting"
  \/ base.authKey # "" /\ update.state = "provisioning"

mergeState(base, update) ==
  IF phaseRestarts(base, update)
    THEN IF over(base.authKey, update.authKey) # "" THEN "adopting" ELSE "provisioning"
  ELSE IF phaseIgnored(base, update) THEN "" ELSE update.state

\* Mutant: an update without a URL clears the base's.
Merge_clears(base, update) ==
  [state      |-> over(base.state, mergeState(base, update)),
   informURL  |-> update.informURL,
   authKey    |-> over(base.authKey, update.authKey),
   cfgVersion |-> over(base.cfgVersion, update.cfgVersion),
   useAESGCM  |-> base.useAESGCM \/ update.useAESGCM,
   version    |-> over(base.version, update.version)]

Merge(base, update) ==
  [state      |-> over(base.state, mergeState(base, update)),
   informURL  |-> over(base.informURL, update.informURL),
   authKey    |-> over(base.authKey, update.authKey),
   cfgVersion |-> over(base.cfgVersion, update.cfgVersion),
   useAESGCM  |-> base.useAESGCM \/ update.useAESGCM,
   version    |-> over(base.version, update.version)]
----------------------------------------------------------------------------
(* Controller responses.  A reply is what the HTTP exchange ended with:    *)
(*   failed    no response, an unreadable body, or a body that does not    *)
(*             decode under the request's key and cipher                   *)
(*   status    an HTTP status other than 200                               *)
(*   empty     200 without a body                                          *)
(*   malformed a decoded body that is no known response                    *)
(*   the rest  the response's _type; "ignored" stands for upgrade, cmd,    *)
(*             reboot and geo_ip_update.                                   *)

MgmtCFG == [informURL : Url \cup {""}, authKey : KeyText \cup {""},
            cfgVersion : CfgVersion \cup {""}, useAESGCM : BOOLEAN]

noMgmtCFG == [informURL |-> "", authKey |-> "", cfgVersion |-> "", useAESGCM |-> FALSE]

SetParam == [kind : {"setparam"}, mgmtCFG : MgmtCFG]

PlainKind == {"failed", "status", "empty", "malformed", "noop", "setdefault", "ignored"}

PlainReply == [kind : PlainKind, mgmtCFG : {noMgmtCFG}]

Reply == PlainReply \cup SetParam

parseMgmtCFG(mgmt) ==
  [state |-> "connected", informURL |-> mgmt.informURL, authKey |-> mgmt.authKey,
   cfgVersion |-> mgmt.cfgVersion, useAESGCM |-> mgmt.useAESGCM, version |-> ""]

validateMgmtField(mgmt) ==
  /\ mgmt.authKey # "" => validateIndividualAuthKeyText(mgmt.authKey, FALSE)
  /\ mgmt.informURL \notin BadUrl

\* The exchange produced a body, and the body is a known, well-formed response.
ParseOK(reply) ==
  /\ reply.kind \in {"noop", "setdefault", "ignored", "setparam"}
  /\ reply.kind = "setparam" => validateMgmtField(reply.mgmtCFG)

HasStateUpdate(reply) == reply.kind \in {"setparam", "noop", "setdefault"}

ResetRequested(reply) == reply.kind = "setdefault"

\* The Store of the response.
ParseControllerResponseInfo(reply) ==
  CASE reply.kind = "setparam"   -> parseMgmtCFG(reply.mgmtCFG)
    [] reply.kind = "noop"       -> parseMgmtCFG(noMgmtCFG)
    [] reply.kind = "setdefault" -> FactoryStore
    [] OTHER                     -> ZeroStore
----------------------------------------------------------------------------
(* What a store makes of the next inform request.                          *)

effectiveInformURL(store) == over(Controller, store.informURL)

informAuthKeyOK(store) ==
  \/ store.authKey # "" /\ validateIndividualAuthKeyText(store.authKey, TRUE)
  \/ /\ store.authKey = ""
     /\ ~store.useAESGCM
     /\ store.state \in {"", "factory", "discovered", "provisioning"}

informAuthKey(store) ==
  IF store.authKey # "" THEN KeyBytes[store.authKey] ELSE DefaultBytes

requestGCM(store) == store.authKey # "" /\ store.useAESGCM

controllerInformState(store) ==
  IF store.authKey = "" THEN "default"
  ELSE IF store.state = "connected" THEN "managed"
  ELSE "unknown"
----------------------------------------------------------------------------
(* The update a local SSH command asks for.                                *)

sshUpdate(informURL, authKey) ==
  [state |-> IF authKey # "" THEN "adopting" ELSE "provisioning",
   informURL |-> informURL, authKey |-> authKey, cfgVersion |-> "",
   useAESGCM |-> FALSE, version |-> ""]
=============================================================================
