-------------------------------- MODULE ApiKeys -------------------------------
(***************************************************************************)
(* Merchant API keys (internal/service/apikeys, pkg/apikey, APIKeyRepo),   *)
(* the two doors they open, and what the widget is shown behind the second *)
(* one: POST /v1/events takes secret keys, /public/chat/config publishable *)
(* ones.  Minting is one INSERT; a request looks its key up, marks it used *)
(* and is served in separate statements, concurrently with the others.     *)
(*                                                                         *)
(* Of the random part of a key only the lookup prefix (eight characters)   *)
(* and the rest are told apart.  Whole keys never repeat (24 random bytes) *)
(* and their hash is injective; prefixes may.                              *)
(***************************************************************************)
EXTENDS Integers

CONSTANTS
    Merchants,   \* orgs
    Heads,       \* the eight random characters of a lookup prefix
    Tails,       \* the rest of a key
    Clients,     \* concurrent requests with a key
    Display,     \* display fields of the widget: title, welcome, accent
    Texts,       \* what a merchant may write in one
    Blank,
    Default,     \* the field's value in DefaultChatSettings
    MaxMints,    \* bound: mint requests
    MaxSaves,    \* bound: settings saved
    MaxVisits,   \* bound: requests with a key
    MaxKeyFaults,\* bound: failed statements and lost answers
    Nothing

VARIABLES
    keyRow,     \* api_keys, by lookup prefix
    look,       \* chat_settings: the display fields of each org
    client,     \* each request: where it is, its door and key, what it found
    mints, saves, visits, keyFaults,
    issued,     \* history: every key generated, and the org and kind meant
    shown,      \* history: the keys a merchant has been shown
    looks       \* history: what each org's widget could ever look like

keyHistory == <<issued, shown, looks>>
keyBounds == <<mints, saves, visits, keyFaults>>
keyVars == <<keyRow, look, client, keyBounds, keyHistory>>

Schemes == {"sk", "pk"}
Kinds == {"secret", "publishable"}
Doors == {"events", "config"}
Keys == [scheme : Schemes, head : Heads, tail : Tails]
Looks == [Display -> Texts \cup {Default}]

(* gen, Mint and MintPublishable: the scheme goes with the kind.           *)
KindOf(scheme) == IF scheme = "sk" THEN "secret" ELSE "publishable"

(* apikey.Prefix.                                                          *)
Prefix(k) == [scheme |-> k.scheme, head |-> k.head]
LookupPrefixes == [scheme : Schemes, head : Heads]

NoKeyRow == [org |-> Nothing, kind |-> Nothing, tail |-> Nothing, used |-> FALSE]
IdleClient == [pc |-> "idle", door |-> Nothing, key |-> Nothing, known |-> FALSE,
               org |-> Nothing, kind |-> Nothing, answer |-> Nothing, view |-> Nothing]

KeyRow == [org : Merchants, kind : Kinds, tail : Tails, used : BOOLEAN] \cup {NoKeyRow}
Client == [pc : {"idle", "lookup", "touch", "door", "settings"},
           door : Doors \cup {Nothing}, key : Keys \cup {Nothing}, known : BOOLEAN,
           org : Merchants \cup {Nothing}, kind : Kinds \cup {Nothing},
           answer : {"ok", "refused", "failed", Nothing}, view : Looks \cup {Nothing}]

ASSUME ApiKeysAssumption ==
    /\ Blank \notin Texts \cup {Default}
    /\ Nothing \notin Merchants \cup Keys \cup {"ok", "refused", "failed"}
    /\ {MaxMints, MaxSaves, MaxVisits, MaxKeyFaults} \subseteq Nat

KeysTypeOK ==
    /\ keyRow \in [LookupPrefixes -> KeyRow]
    /\ look \in [Merchants -> Looks \cup {Nothing}]
    /\ client \in [Clients -> Client]
    /\ mints \in 0..MaxMints /\ saves \in 0..MaxSaves
    /\ visits \in 0..MaxVisits /\ keyFaults \in 0..MaxKeyFaults
    /\ issued \subseteq [key : Keys, org : Merchants, kind : Kinds]
    /\ shown \subseteq Keys
    /\ looks \in [Merchants -> SUBSET Looks]

DefaultLook == [f \in Display |-> Default]

KeysInit ==
    /\ keyRow = [p \in LookupPrefixes |-> NoKeyRow]
    /\ look = [o \in Merchants |-> Nothing]
    /\ client = [c \in Clients |-> IdleClient]
    /\ mints = 0 /\ saves = 0 /\ visits = 0 /\ keyFaults = 0
    /\ issued = {} /\ shown = {}
    /\ looks = [o \in Merchants |-> {DefaultLook}]

KeyFault == keyFaults < MaxKeyFaults /\ keyFaults' = keyFaults + 1

-------------------------------------------------------------------------------
(* Minting a key.                                                          *)

(* gen: 24 fresh random bytes, of which the first few may have come before.*)
Generate(k) == \A i \in issued : i.key # k

\* Mutant: INSERT ... ON CONFLICT (prefix) DO UPDATE.
OverwriteKey(k, o) ==
    /\ keyRow' = [keyRow EXCEPT ![Prefix(k)] =
                     [org |-> o, kind |-> KindOf(k.scheme), tail |-> k.tail, used |-> FALSE]]
    /\ issued' = issued \cup {[key |-> k, org |-> o, kind |-> KindOf(k.scheme)]}

(* The prefix is UNIQUE: a key whose prefix is taken is not inserted.      *)
CreateAPIKey(k, o) ==
    /\ keyRow[Prefix(k)] = NoKeyRow
    /\ keyRow' = [keyRow EXCEPT ![Prefix(k)] =
                     [org |-> o, kind |-> KindOf(k.scheme), tail |-> k.tail, used |-> FALSE]]
    /\ issued' = issued \cup {[key |-> k, org |-> o, kind |-> KindOf(k.scheme)]}

(* mintKey and mintPublishableKey: the key is shown once it is stored.     *)
MintKey(k, o) ==
    /\ mints < MaxMints
    /\ mints' = mints + 1
    /\ Generate(k)
    /\ CreateAPIKey(k, o)
    /\ shown' = shown \cup {k}
    /\ UNCHANGED <<look, client, saves, visits, keyFaults, looks>>

(* A taken prefix or a failed INSERT is a 500: no key.                     *)
MintRefused(k) ==
    /\ mints < MaxMints
    /\ mints' = mints + 1
    /\ Generate(k)
    /\ \/ keyRow[Prefix(k)] # NoKeyRow /\ UNCHANGED keyFaults
       \/ KeyFault
    /\ UNCHANGED <<keyRow, look, client, saves, visits, keyHistory>>

(* The INSERT commits but its answer is lost: a row nobody has the key of. *)
MintAnswerLost(k, o) ==
    /\ mints < MaxMints
    /\ mints' = mints + 1
    /\ KeyFault
    /\ Generate(k)
    /\ CreateAPIKey(k, o)
    /\ UNCHANGED <<look, client, saves, visits, shown, looks>>

-------------------------------------------------------------------------------
(* A request with a key: Authenticate, and the door behind it.             *)

ClientAt(c, l) == client[c].pc = l
ClientGoto(c, l) == client' = [client EXCEPT ![c].pc = l]
Answer(c, status) == client' = [client EXCEPT ![c] = [@ EXCEPT !.pc = "idle", !.answer = status]]

(* The X-API-Key or X-Yaver-Key header; Nothing is a malformed one, which  *)
(* has no prefix to look up.                                               *)
Present(c, d, k) ==
    /\ ClientAt(c, "idle")
    /\ visits < MaxVisits
    /\ visits' = visits + 1
    /\ client' = [client EXCEPT ![c] = [IdleClient EXCEPT
                     !.pc = IF k = Nothing THEN "idle" ELSE "lookup",
                     !.answer = IF k = Nothing THEN "refused" ELSE Nothing,
                     !.door = d, !.key = k, !.known = k \in shown]]
    /\ UNCHANGED <<keyRow, look, mints, saves, keyFaults, keyHistory>>

ByPrefix(k) == keyRow[Prefix(k)]

(* The stored hash is of the whole key.                                    *)
Verify(k, row) == row.tail = k.tail

Lookup(c) ==
    /\ ClientAt(c, "lookup")
    /\ LET k == client[c].key
           row == ByPrefix(k)
       IN  \/ /\ row # NoKeyRow /\ Verify(k, row)
              /\ client' = [client EXCEPT ![c] = [@ EXCEPT !.pc = "touch",
                               !.org = row.org, !.kind = row.kind]]
           \/ /\ row = NoKeyRow \/ ~Verify(k, row)
              /\ Answer(c, "refused")
    /\ UNCHANGED <<keyRow, look, keyBounds, keyHistory>>

Touch(c) ==
    /\ ClientAt(c, "touch")
    /\ keyRow' = [keyRow EXCEPT ![Prefix(client[c].key)].used = TRUE]
    /\ ClientGoto(c, "door")
    /\ UNCHANGED <<look, keyBounds, keyHistory>>

(* The error of Touch is discarded.                                        *)
TouchFails(c) ==
    /\ KeyFault
    /\ ClientAt(c, "touch")
    /\ ClientGoto(c, "door")
    /\ UNCHANGED <<keyRow, look, mints, saves, visits, keyHistory>>

DoorKind(d) == IF d = "events" THEN "secret" ELSE "publishable"

(* requireAPIKey and chatConfig: a key of the other kind is refused.       *)
Door(c) ==
    /\ ClientAt(c, "door")
    /\ \/ client[c].kind # DoorKind(client[c].door) /\ Answer(c, "refused")
       \/ /\ client[c].kind = DoorKind(client[c].door)
          /\ IF client[c].door = "events" THEN Answer(c, "ok") ELSE ClientGoto(c, "settings")
    /\ UNCHANGED <<keyRow, look, keyBounds, keyHistory>>

(* chatConfig goes on to read the org's settings, the default ones if none *)
(* were saved.                                                             *)
GetChatSettings(c) ==
    /\ ClientAt(c, "settings")
    /\ LET o == client[c].org IN
       client' = [client EXCEPT ![c] = [@ EXCEPT !.pc = "idle", !.answer = "ok",
                     !.view = IF look[o] = Nothing THEN DefaultLook ELSE look[o]]]
    /\ UNCHANGED <<keyRow, look, keyBounds, keyHistory>>

(* A failed read is a 500.                                                 *)
ReadFails(c) ==
    /\ KeyFault
    /\ client[c].pc \in {"lookup", "settings"}
    /\ Answer(c, "failed")
    /\ UNCHANGED <<keyRow, look, mints, saves, visits, keyHistory>>

-------------------------------------------------------------------------------
(* saveSettings: blank display fields get their defaults.                  *)
Completed(body) == [f \in Display |-> IF body[f] = Blank THEN Default ELSE body[f]]

UpsertChatSettings(o, l) == look' = [look EXCEPT ![o] = l]

SaveSettings(o, body) ==
    /\ saves < MaxSaves
    /\ saves' = saves + 1
    /\ UpsertChatSettings(o, Completed(body))
    /\ looks' = [looks EXCEPT ![o] = @ \cup {look'[o]}]
    /\ UNCHANGED <<keyRow, client, mints, visits, keyFaults, issued, shown>>

KeysNext ==
    \/ \E k \in Keys, o \in Merchants : MintKey(k, o) \/ MintAnswerLost(k, o)
    \/ \E k \in Keys : MintRefused(k)
    \/ \E c \in Clients, d \in Doors, k \in Keys \cup {Nothing} : Present(c, d, k)
    \/ \E c \in Clients :
           \/ Lookup(c) \/ Touch(c) \/ TouchFails(c) \/ Door(c)
           \/ GetChatSettings(c) \/ ReadFails(c)
    \/ \E o \in Merchants, body \in [Display -> Texts \cup {Blank}] : SaveSettings(o, body)

KeysSpec == KeysInit /\ [][KeysNext]_keyVars

-------------------------------------------------------------------------------
(* The comment on requireAPIKey: publishable keys never work on            *)
(* server-side routes.  Whoever is served presented a key that was minted  *)
(* for that org and is of the kind the door takes, even if another key     *)
(* with the same prefix was drawn, or minted by a request that failed.     *)
ServedByOwnKey ==
    \A c \in Clients : client[c].answer = "ok" =>
        [key |-> client[c].key, org |-> client[c].org, kind |-> DoorKind(client[c].door)]
            \in issued

(* A key that Mint has shown works from then on: at its own door it is     *)
(* never taken for an invalid one, whatever is minted after it.            *)
ShownKeyWorks ==
    \A c \in Clients :
        client[c].known /\ client[c].answer = "refused" =>
            KindOf(client[c].key.scheme) # DoorKind(client[c].door)

(* What listKeys says of a key that was let through: used, unless marking  *)
(* it failed.                                                              *)
UseIsRecorded ==
    \A c \in Clients : client[c].answer = "ok" =>
        keyFaults > 0 \/ keyRow[Prefix(client[c].key)].used

(* The widget of an org looks the way that org made it look at some        *)
(* moment, with no display field left blank.                               *)
WidgetIsComplete ==
    \A c \in Clients : client[c].view # Nothing =>
        /\ client[c].view \in looks[client[c].org]
        /\ \A f \in Display : client[c].view[f] # Blank

(* What holds of keys at every moment, whoever mints at the same time and  *)
(* whatever fails.                                                         *)
KeysInv == KeysTypeOK /\ ServedByOwnKey /\ ShownKeyWorks /\ UseIsRecorded /\ WidgetIsComplete
===============================================================================
