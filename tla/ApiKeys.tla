-------------------------------- MODULE ApiKeys --------------------------------
(***************************************************************************)
(* The API keys of the providers: the OS keychain, the environment that    *)
(* overrides it, and `rozu auth` (rozu-secrets lib.rs; rozu-cli auth.rs).  *)
(*                                                                         *)
(* A text is a sequence of characters, of which "blank" is white space.  The*)
(* keychain, which may be locked or absent, and the user's shell are       *)
(* external.  The sign-in of the vendor CLIs, which rozu never sees, is    *)
(* left out; ModelChoice has the choice of a provider by its key.          *)
(***************************************************************************)
EXTENDS Naturals, Sequences, FiniteSetsExt

CONSTANTS Providers, \* the model providers
          Texts      \* what is typed, piped or exported

VARIABLES
  keychain, \* per provider: its key, or None
  locked,   \* the keychain fails every call
  env,      \* per provider: the text of its variable, or None
  told      \* per provider: what the last `auth set` or `auth delete` said

vars == <<keychain, locked, env, told>>

None == <<>>
(* From the first character that is not white space to the last.           *)
Shown(text) == {i \in DOMAIN text : text[i] # "blank"}
Trim(text) == IF Shown(text) = {} THEN None ELSE SubSeq(text, Min(Shown(text)), Max(Shown(text)))

Init ==
  /\ keychain = [p \in Providers |-> None] /\ locked = FALSE
  /\ env = [p \in Providers |-> None] /\ told = [p \in Providers |-> "nothing"]

EnvIsSet(p) == Trim(env[p]) # <<>>

FromEnv(p) == Trim(env[p])

(* resolve_api_key.                                                        *)
Key(source, text) == [source |-> source, text |-> text]
ResolveApiKey(p) ==
  CASE FromEnv(p) # <<>> -> Key("env", FromEnv(p))
    [] FromEnv(p) = <<>> /\ locked -> Key("error", None)
    [] FromEnv(p) = <<>> /\ ~locked ->
         IF keychain[p] = None THEN Key("none", None) ELSE Key("store", keychain[p])

(* Variant: the note only looks whether the variable is there.             *)
SetNotingAny(p, typed) ==
  /\ IF Trim(typed) = <<>> \/ locked
     THEN told' = [told EXCEPT ![p] = "failed"] /\ UNCHANGED keychain
     ELSE /\ keychain' = [keychain EXCEPT ![p] = Trim(typed)]
          /\ told' = [told EXCEPT ![p] = IF env[p] # None THEN "overridden" ELSE "saved"]
  /\ UNCHANGED <<locked, env>>

(* auth set, and that the environment goes before what was saved.  A blank *)
(* key is refused, and so is every key while the keychain fails.           *)
Set(p, typed) ==
  /\ IF Trim(typed) = <<>> \/ locked
     THEN told' = [told EXCEPT ![p] = "failed"] /\ UNCHANGED keychain
     ELSE /\ keychain' = [keychain EXCEPT ![p] = Trim(typed)]
          /\ told' = [told EXCEPT ![p] = IF EnvIsSet(p) THEN "overridden" ELSE "saved"]
  /\ UNCHANGED <<locked, env>>

Delete(p) ==
  /\ told' = [told EXCEPT ![p] = IF locked THEN "failed" ELSE "removed"]
  /\ keychain' = IF locked THEN keychain ELSE [keychain EXCEPT ![p] = None]
  /\ UNCHANGED <<locked, env>>

(* auth status, a provider's line.                                         *)
Status(p) ==
  CASE EnvIsSet(p) -> "variable"
    [] ~EnvIsSet(p) /\ ~locked /\ keychain[p] # None -> "keychain"
    [] ~EnvIsSet(p) /\ (locked \/ keychain[p] = None) -> "unconfigured"

(* Another shell, and the keychain's own state: nothing said before holds. *)
Export(p, text) ==
  /\ env' = [env EXCEPT ![p] = text]
  /\ told' = [told EXCEPT ![p] = "nothing"]
  /\ UNCHANGED <<keychain, locked>>

Lock ==
  /\ locked' = ~locked
  /\ told' = [p \in Providers |-> "nothing"]
  /\ UNCHANGED <<keychain, env>>

Next ==
  \/ \E p \in Providers :
       \/ \E text \in Texts : Set(p, text) \/ Export(p, text)
       \/ Export(p, None) \/ Delete(p)
  \/ Lock

-----------------------------------------------------------------------------
(* What `rozu auth` says of a provider is what its next chat gets: status  *)
(* names the source that resolve_api_key takes, a key reported as saved is *)
(* used unless the note says otherwise, a removed one is not, and a key is *)
(* never blank or padded (status and env_is_set test the variables on      *)
(* their own).                                                             *)
StatusIsTrue ==
  \A p \in Providers :
    LET key == ResolveApiKey(p) IN
    /\ Status(p) = "variable" <=> key.source = "env"
    /\ Status(p) = "keychain" <=> key.source = "store"
    /\ told[p] = "saved" => key.source = "store"
    /\ told[p] = "overridden" => key.source = "env"
    /\ told[p] = "removed" => key.source # "store"
    /\ key.source \in {"env", "store"} => key.text # <<>> /\ Trim(key.text) = key.text

(* Why: what the keychain has is trimmed, and what was said of a key was   *)
(* true when it was said; whatever changes that says so of no key again.   *)
Chars == UNION {{text[i] : i \in DOMAIN text} : text \in Texts}
KeysKept ==
  /\ keychain \in [Providers -> Seq(Chars)] /\ env \in [Providers -> Seq(Chars)]
  /\ told \in [Providers -> {"nothing", "failed", "saved", "overridden", "removed"}]
  /\ \A p \in Providers :
       /\ Trim(keychain[p]) = keychain[p]
       /\ told[p] = "saved" => ~EnvIsSet(p) /\ ~locked /\ keychain[p] # None
       /\ told[p] = "overridden" => EnvIsSet(p)
       /\ told[p] = "removed" => keychain[p] = None
=============================================================================
