--------------------------------- MODULE Vault ---------------------------------
(***************************************************************************)
(* The secret vault (src/src/app/vault.c) and the settings dialog that     *)
(* uses it (src/src/app/ui.c): the API key and the MCP tokens live in      *)
(* secrets.bin, settings.json refers to them by name, and one Save writes  *)
(* the two files one after the other.  A password stands for the key that  *)
(* is derived from it, the API key for the endpoint it was typed for.      *)
(***************************************************************************)
EXTENDS Naturals, FiniteSets

CONSTANTS
  Servers,      \* the MCP servers the user may add
  Ids,          \* the secret identifiers that are generated, each once
  Endpoints,    \* the base URLs of providers
  Passwords,    \* the master passwords the user types
  MaxEntries,   \* DIO_VAULT_MAX_ENTRIES
  MaxFaults     \* crashes and failed calls of a behaviour

Zero == "zero"       \* the key after SecureZeroMemory
ApiKey == "provider.api_key"
Absent == "absent"   \* no such server, no such entry
Bare == "bare"       \* a server without a secret
Token == "token"     \* the value of an MCP secret
Hollow == "hollow"   \* an entry that is counted and has no value
Names == Ids \cup {ApiKey}
Values == Endpoints \cup {Token}

ASSUME NamesAssumption ==
  /\ ApiKey \notin Ids /\ Zero \notin Passwords
  /\ {Absent, Bare} \cap Ids = {} /\ {Absent, Hollow} \cap Values = {}

ASSUME BoundsAssumption == MaxEntries \in Nat /\ MaxFaults \in Nat

VARIABLES
  pc,         \* down, idle, dialog, or how far the save is: tokens, settings
  file,       \* secrets.bin: [key, has], or no file: key = Absent
  vault,      \* DioVault: [open, key, has]
  settings,   \* settings.json: [endpoint, api, mcp]
  profile,    \* ui->profile
  draft,      \* dialog->profile
  form,       \* the dialog's controls: [key, dirty, detached, button, token]
  changed,    \* the local variable of dio_save_mcp_secrets
  fresh,      \* identifiers not generated yet
  ghost,      \* history: [master, spoilt, dropped, lost, torn]
  faults

vars == <<pc, file, vault, settings, profile, draft, form, changed, fresh, ghost, faults>>
disk == <<file, settings>>

Empty == [n \in Names |-> Absent]
NoFile == [key |-> Absent, has |-> Empty]
Locked == [open |-> FALSE, key |-> Zero, has |-> Empty]
Untouched == [s \in Servers |-> "clean"]
NoForm == [key |-> Absent, dirty |-> FALSE, detached |-> FALSE, button |-> TRUE, token |-> Untouched]

Refs(p) == ({p.mcp[s] : s \in Servers} \cap Ids) \cup (IF p.api THEN {ApiKey} ELSE {})
KeyText(has) == IF has[ApiKey] = Hollow THEN Absent ELSE has[ApiKey]
Held(has) == {n \in Names : has[n] # Absent}
Count(has) == Cardinality(Held(has))

Fault == faults > 0 /\ faults' = faults - 1
NoFault == UNCHANGED faults

Init ==
  /\ pc = "down" /\ file = NoFile /\ vault = Locked
  /\ settings \in [endpoint : Endpoints, api : {FALSE}, mcp : {[s \in Servers |-> Absent]}]
  /\ profile = settings /\ draft = settings /\ form = NoForm
  /\ changed = FALSE /\ fresh = Ids
  /\ ghost = [master |-> Absent, spoilt |-> FALSE, dropped |-> {}, lost |-> {}, torn |-> FALSE]
  /\ faults = MaxFaults

--------------------------------------------------------------------------------
(* The vault *)

\* dio_vault_set in memory: a full vault refuses a new name, and an allocation
\* that fails leaves a new name without a value.
CanSet(has, n) == has[n] # Absent \/ Count(has) < MaxEntries
Set(has, n, v) == [has EXCEPT ![n] = v]
HalfSet(has, n) == [has EXCEPT ![n] = IF @ = Absent THEN Hollow ELSE @]
Without(has, S) == [n \in Names |-> IF n \in S THEN Absent ELSE has[n]]

\* dio_vault_serialize: an entry without a value stops it.
Serializes(has) == \A n \in Names : has[n] # Hollow

\* dio_vault_crypt: what is written opens with the key it was written with.
Sealed(key, has) == [key |-> key, has |-> has]
Opens(p) == p = file.key

\* dio_vault_parse: the entries in memory go first; an allocation that fails
\* leaves none, and there is none to fail when the file holds no entry.
Parsed(ok) == IF ok THEN file.has ELSE Empty
ParseFails == file.has # Empty

\* dio_vault_save: all of it in one file replacement, or nothing.
Saves(has) ==
  /\ Serializes(has)
  /\ file' = Sealed(vault.key, has)
  /\ NoFault
SaveFails(has) ==
  /\ UNCHANGED file
  /\ \/ ~Serializes(has) /\ NoFault
     \/ Fault

Dialog == pc = "dialog" /\ UNCHANGED <<pc, profile, changed>>

\* dio_vault_create; a vault that cannot be written is locked again.
Create(p) ==
  /\ Dialog /\ form.button /\ file = NoFile
  /\ UNCHANGED <<settings, draft, fresh>>
  /\ \/ /\ file' = Sealed(p, Empty)
        /\ vault' = [open |-> TRUE, key |-> p, has |-> Empty]
        /\ form' = [form EXCEPT !.key = Absent, !.dirty = form.detached, !.button = FALSE]
        /\ ghost' = [ghost EXCEPT !.master = p, !.spoilt = FALSE]
        /\ NoFault
     \/ vault' = Locked /\ Fault /\ UNCHANGED <<file, form, ghost>>

\* dio_vault_unlock.  A dialog has its button until one unlock succeeds, also when
\* the vault is open already, and it stays open when the unlock fails: with its
\* entries and its key when the file cannot be read, with the key cleared when the
\* password is wrong, and without its entries when they cannot be parsed.
Unlock(p) ==
  /\ Dialog /\ form.button /\ file # NoFile
  /\ UNCHANGED <<disk, draft, fresh>>
  /\ \/ /\ Opens(p) /\ NoFault
        /\ vault' = [open |-> TRUE, key |-> p, has |-> Parsed(TRUE)]
        /\ form' = [form EXCEPT !.key = IF draft.api THEN KeyText(Parsed(TRUE)) ELSE Absent,
                                !.dirty = form.detached, !.button = FALSE]
        /\ ghost' = [ghost EXCEPT !.lost = @ \ Held(Parsed(TRUE))]
     \/ Fault /\ UNCHANGED <<vault, form, ghost>>
     \/ /\ UNCHANGED form
        /\ \/ ~Opens(p) /\ NoFault
           \/ Opens(p) /\ Fault
        /\ vault' = [vault EXCEPT !.key = Zero]
        /\ ghost' = [ghost EXCEPT !.spoilt = @ \/ vault.open]
     \/ /\ UNCHANGED form
        /\ Opens(p) /\ ParseFails /\ Fault
        /\ vault' = [vault EXCEPT !.key = Zero, !.has = Parsed(FALSE)]
        /\ ghost' = [ghost EXCEPT !.spoilt = @ \/ vault.open, !.lost = @ \cup Held(vault.has)]

\* Mutant: the new key stays when the file could not be written.
ChangePasswordEarly(p) ==
  /\ Dialog /\ vault.open
  /\ UNCHANGED <<settings, draft, form, fresh>>
  /\ vault' = [vault EXCEPT !.key = p]
  /\ \/ /\ Serializes(vault.has)
        /\ file' = Sealed(p, vault.has)
        /\ ghost' = [ghost EXCEPT !.master = p, !.spoilt = FALSE]
        /\ NoFault
     \/ SaveFails(vault.has) /\ UNCHANGED ghost

\* dio_vault_change_password: the old key comes back when the save fails.
ChangePassword(p) ==
  /\ Dialog /\ vault.open
  /\ UNCHANGED <<settings, draft, form, fresh>>
  /\ \/ /\ Serializes(vault.has)
        /\ vault' = [vault EXCEPT !.key = p]
        /\ file' = Sealed(p, vault.has)
        /\ ghost' = [ghost EXCEPT !.master = p, !.spoilt = FALSE]
        /\ NoFault
     \/ SaveFails(vault.has) /\ UNCHANGED <<vault, ghost>>

\* dio_vault_reset_dialog: the file goes, and the draft forgets every name.
Reset ==
  /\ Dialog
  /\ file' = NoFile /\ vault' = Locked
  /\ draft' = [draft EXCEPT !.api = FALSE,
                 !.mcp = [s \in Servers |-> IF @[s] = Absent THEN Absent ELSE Bare]]
  /\ form' = [NoForm EXCEPT !.detached = form.detached]
  /\ ghost' = [ghost EXCEPT !.dropped = Names]
  /\ UNCHANGED <<settings, fresh, faults>>

--------------------------------------------------------------------------------
(* The dialog *)

Load ==
  /\ pc = "down"
  /\ pc' = "idle" /\ profile' = settings /\ draft' = settings
  /\ UNCHANGED <<disk, vault, form, changed, fresh, ghost, faults>>

OpenDialog ==
  /\ pc = "idle"
  /\ pc' = "dialog" /\ draft' = profile
  /\ form' = [NoForm EXCEPT !.key = IF profile.api THEN KeyText(vault.has) ELSE Absent]
  /\ UNCHANGED <<disk, vault, profile, changed, fresh, ghost, faults>>

CancelDialog ==
  /\ pc = "dialog" /\ pc' = "idle"
  /\ draft' = profile /\ form' = NoForm
  /\ UNCHANGED <<disk, vault, profile, changed, fresh, ghost, faults>>

\* Mutant: the key goes along to the other base URL.
EditEndpointAttached(e) ==
  /\ Dialog /\ e # draft.endpoint
  /\ draft' = [draft EXCEPT !.endpoint = e]
  /\ UNCHANGED <<disk, vault, form, fresh, ghost, faults>>

\* Another base URL: the key of the old one is detached.
EditEndpoint(e) ==
  /\ Dialog /\ e # draft.endpoint
  /\ draft' = [draft EXCEPT !.endpoint = e, !.api = FALSE]
  /\ form' = [form EXCEPT !.key = Absent, !.detached = @ \/ draft.api,
                          !.dirty = form.detached \/ draft.api]
  /\ UNCHANGED <<disk, vault, fresh, ghost, faults>>

\* The API key's field; it is enabled while the vault is open.
EditKey(k) ==
  /\ Dialog /\ vault.open
  /\ form' = [form EXCEPT !.key = k, !.dirty = TRUE]
  /\ UNCHANGED <<disk, vault, draft, fresh, ghost, faults>>

\* dio_mcp_upsert.  A server that is put in again without touching its token
\* keeps its identifier and loses a token that was typed before and not saved.
Upsert(s, edit) ==
  LET id == draft.mcp[s] IN
  /\ Dialog
  /\ edit = "typed" => vault.open
  /\ edit = "cleared" => vault.open \/ id \in Ids
  /\ form' = [form EXCEPT !.token[s] = edit]
  /\ ghost' = [ghost EXCEPT !.lost = IF edit = "clean" /\ form.token[s] # "clean"
                                       THEN @ \cup ({id} \cap Ids) ELSE @]
  /\ \/ /\ edit = "typed" /\ id \notin Ids
        /\ \E new \in fresh : draft' = [draft EXCEPT !.mcp[s] = new] /\ fresh' = fresh \ {new}
     \/ /\ ~(edit = "typed" /\ id \notin Ids)
        /\ draft' = [draft EXCEPT !.mcp[s] = IF id = Absent THEN Bare ELSE id]
        /\ UNCHANGED fresh
  /\ UNCHANGED <<disk, vault, faults>>

RemoveServer(s) ==
  /\ Dialog /\ draft.mcp[s] # Absent
  /\ draft' = [draft EXCEPT !.mcp[s] = Absent]
  /\ form' = [form EXCEPT !.token[s] = "clean"]
  /\ UNCHANGED <<disk, vault, fresh, ghost, faults>>

--------------------------------------------------------------------------------
(* dio_save_settings_dialog *)

\* The names that this save takes away at the user's request.
Given ==
  ((Refs(settings) \cup Refs(profile)) \ Refs(draft))
    \cup ({draft.mcp[s] : s \in {t \in Servers : form.token[t] = "cleared"}} \cap Ids)
    \cup (IF form.dirty /\ form.key = Absent THEN {ApiKey} ELSE {})

Written(has) == [ghost EXCEPT !.dropped = (@ \ Held(has)) \cup Given, !.lost = @ \ Held(has)]
Torn == [ghost EXCEPT !.dropped = @ \cup Given, !.torn = TRUE,
                !.lost = IF form.key # Absent THEN @ \cup {ApiKey} ELSE @]

\* The API key: in memory, and then the vault's file.  A vault that is locked
\* refuses the save.
SaveKey ==
  LET api == form.key # Absent
      has == IF api THEN Set(vault.has, ApiKey, form.key)
             ELSE Without(vault.has, IF draft.api \/ form.detached THEN {ApiKey} ELSE {})
  IN
  /\ pc = "dialog" /\ form.dirty /\ vault.open
  /\ UNCHANGED <<settings, profile, changed, fresh>>
  /\ \/ /\ api => CanSet(vault.has, ApiKey)
        /\ vault' = [vault EXCEPT !.has = has]
        /\ draft' = [draft EXCEPT !.api = api]
        /\ \/ /\ Saves(has) /\ pc' = "tokens"
              /\ form' = [form EXCEPT !.detached = FALSE]
              /\ ghost' = Written(has)
           \/ SaveFails(has) /\ ghost' = Torn /\ UNCHANGED <<pc, form>>
     \/ /\ api /\ draft' = [draft EXCEPT !.api = TRUE]
        /\ UNCHANGED <<pc, file, form>> /\ ghost' = Torn
        /\ \/ ~CanSet(vault.has, ApiKey) /\ NoFault /\ UNCHANGED vault
           \/ CanSet(vault.has, ApiKey) /\ Fault
              /\ vault' = [vault EXCEPT !.has = HalfSet(vault.has, ApiKey)]

KeyUntouched ==
  /\ pc = "dialog" /\ ~form.dirty
  /\ pc' = "tokens"
  /\ ghost' = [ghost EXCEPT !.dropped = @ \cup Given]
  /\ UNCHANGED <<disk, vault, profile, draft, form, changed, fresh, faults>>

\* It returns false: the dialog stays, and what changed in memory is not saved.
FailTokens(has) ==
  /\ pc' = "dialog" /\ changed' = FALSE
  /\ vault' = [vault EXCEPT !.has = has] /\ UNCHANGED file
  /\ ghost' = [ghost EXCEPT !.torn = TRUE,
                 !.lost = @ \cup {n \in Ids : has[n] # Absent /\ file.has[n] = Absent}]

TokenDone(s, has) ==
  /\ vault' = [vault EXCEPT !.has = has] /\ UNCHANGED <<pc, file, ghost, faults>>
  /\ form' = [form EXCEPT !.token[s] = "clean"] /\ changed' = TRUE

\* dio_save_mcp_secrets: a server whose token was edited.
SaveToken(s) ==
  LET id == draft.mcp[s] IN
  /\ pc = "tokens" /\ form.token[s] # "clean"
  /\ UNCHANGED <<settings, profile, fresh>>
  /\ \/ /\ vault.open /\ form.token[s] = "typed" /\ CanSet(vault.has, id)
        /\ TokenDone(s, Set(vault.has, id, Token)) /\ UNCHANGED draft
     \/ /\ vault.open /\ form.token[s] = "cleared"
        /\ TokenDone(s, Without(vault.has, {id} \cap Ids))
        /\ draft' = [draft EXCEPT !.mcp[s] = Bare]
     \/ /\ ~vault.open \/ (form.token[s] = "typed" /\ ~CanSet(vault.has, id))
        /\ FailTokens(vault.has) /\ UNCHANGED <<draft, form, faults>>
     \/ /\ vault.open /\ form.token[s] = "typed" /\ CanSet(vault.has, id)
        /\ FailTokens(HalfSet(vault.has, id)) /\ Fault /\ UNCHANGED <<draft, form>>

\* Its end: the secrets of servers that are gone, and the vault's file if
\* anything changed.
SaveTokens ==
  LET gone == IF vault.open THEN (Refs(profile) \ {ApiKey}) \ Refs(draft) ELSE {}
      has == Without(vault.has, gone)
  IN
  /\ pc = "tokens" /\ form.token = Untouched
  /\ UNCHANGED <<settings, profile, draft, form, fresh>>
  /\ \/ ~changed /\ gone = {} /\ pc' = "settings"
        /\ UNCHANGED <<file, vault, changed, ghost, faults>>
     \/ /\ changed \/ gone # {}
        /\ vault' = [vault EXCEPT !.has = has] /\ Saves(has)
        /\ pc' = "settings" /\ changed' = FALSE /\ ghost' = Written(has)
     \/ (changed \/ gone # {}) /\ FailTokens(has) /\ SaveFails(has)

\* dio_settings_save_all, whose file is replaced or stays as it is.
SettingsWritten == settings' = draft
SettingsKept == UNCHANGED settings

\* settings.json, the session's profile, and DIO_UI_COMMAND_SETTINGS_CHANGED; the
\* copy of the profile may fail after the file was written.
SaveSettings ==
  /\ pc = "settings"
  /\ UNCHANGED <<file, vault, draft, changed, fresh>>
  /\ \/ /\ SettingsWritten /\ profile' = draft
        /\ pc' = "idle" /\ form' = NoForm /\ NoFault /\ UNCHANGED ghost
     \/ /\ SettingsKept \/ SettingsWritten
        /\ pc' = "dialog" /\ Fault /\ UNCHANGED <<profile, form>>
        /\ ghost' = [ghost EXCEPT !.torn = TRUE]

\* The process ends: without a fault while nothing is being edited.
Exit ==
  /\ pc # "down"
  /\ IF pc = "idle" THEN NoFault ELSE Fault
  /\ pc' = "down" /\ vault' = Locked /\ form' = NoForm /\ changed' = FALSE
  /\ profile' = settings /\ draft' = settings
  /\ ghost' = [ghost EXCEPT !.torn = @ \/ pc \in {"tokens", "settings"}]
  /\ UNCHANGED <<disk, fresh>>

Next ==
  \/ \E p \in Passwords : Create(p) \/ Unlock(p) \/ ChangePassword(p)
  \/ Reset \/ Load \/ OpenDialog \/ CancelDialog
  \/ \E e \in Endpoints : EditEndpoint(e)
  \/ \E k \in {draft.endpoint, Absent} : EditKey(k)
  \/ \E s \in Servers, edit \in {"clean", "typed", "cleared"} : Upsert(s, edit)
  \/ \E s \in Servers : RemoveServer(s) \/ SaveToken(s)
  \/ SaveKey \/ KeyUntouched \/ SaveTokens \/ SaveSettings \/ Exit

Spec == Init /\ [][Next]_vars

--------------------------------------------------------------------------------
(* Properties *)

Stored == [Names -> Values \cup {Absent, Hollow}]
Profile == [endpoint : Endpoints, api : BOOLEAN, mcp : [Servers -> Ids \cup {Absent, Bare}]]

TypeOK ==
  /\ pc \in {"down", "idle", "dialog", "tokens", "settings"}
  /\ file \in [key : Passwords \cup {Zero, Absent}, has : Stored]
  /\ vault \in [open : BOOLEAN, key : Passwords \cup {Zero}, has : Stored]
  /\ {settings, profile, draft} \subseteq Profile
  /\ form \in [key : Values \cup {Absent, Hollow}, dirty : BOOLEAN, detached : BOOLEAN, button : BOOLEAN,
               token : [Servers -> {"clean", "typed", "cleared"}]]
  /\ changed \in BOOLEAN /\ fresh \in SUBSET Ids
  /\ ghost \in [master : Passwords \cup {Absent}, spoilt : BOOLEAN,
                dropped : SUBSET Names, lost : SUBSET Names, torn : BOOLEAN]
  /\ faults \in 0 .. MaxFaults

\* The master password that was set last opens the vault's file.
PasswordOpens == file # NoFile => file.key = ghost.master

\* It does through every change of password that fails half way, unless an unlock
\* of a vault that was open failed and cleared its key.
KeyKept == PasswordOpens \/ ghost.spoilt

\* Whatever step a save stops at, settings.json refers to no secret that the
\* vault's file does not hold, except those the user gave up, the tokens of a
\* server that was put in twice or whose vault could not be written, and the
\* entries that a failing unlock took from a vault that was open.
RefsBacked ==
  \A n \in Refs(settings) : file.has[n] # Absent \/ n \in ghost.dropped \cup ghost.lost

\* An API key is only used with the endpoint it was typed for, unless a save
\* stopped between the vault and the settings.
KeyFitsEndpoint ==
  pc = "idle" /\ vault.open /\ profile.api /\ vault.has[ApiKey] \in Endpoints
    => vault.has[ApiKey] = profile.endpoint \/ ghost.torn

\* The two files agree about the secrets.
SecretsAgree == RefsBacked /\ KeyFitsEndpoint

================================================================================
