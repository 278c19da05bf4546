------------------------------ MODULE KeyStore ------------------------------
(***************************************************************************)
(* The key file of src/adw/adapters/keystore_local.py.  Every operation    *)
(* reads the whole file; encrypt writes it back with a new key when the    *)
(* tenant has none, destroy writes it back without the tenant's key.       *)
(* Nothing keeps two processes apart, and writing is two steps: opening    *)
(* the file empties it, and closing it writes what is in the buffer at the *)
(* beginning of whatever the file holds by then.                           *)
(*                                                                         *)
(* The steps of an operation are named by step[p]; callers (Artifacts)     *)
(* start an operation and go on when it is "done" or "failed".             *)
(*                                                                         *)
(* Definitions named after another with a suffix are that one with a       *)
(* plausible bug in it (see README.md).                                    *)
(***************************************************************************)
EXTENDS Integers, FiniteSets, FiniteSetsExt

CONSTANTS Processes,   \* processes that share the key file
          Tenants,
          NoTenant,    \* no operation is under way
          MaxKeys      \* bound: keys generated

ASSUME KeyStoreAssumption ==
  /\ IsFiniteSet(Tenants) /\ NoTenant \notin Tenants
  /\ MaxKeys \in Nat

VARIABLES
  keys,       \* the keys in the file, by tenant (one generation: one id per tenant)
  length,     \* length of the file: the number of keys it was written with
  whole,      \* the file is the JSON text of keys
  generated,  \* keys generated so far; each is the number it was generated as
  step,       \* where a process is in an operation of the key store
  target,     \* the tenant it is called for
  view,       \* the keys it has loaded and is about to write
  material,   \* the key that encrypts, or the one that destroy removes
  erased,     \* history: keys whose removal has been written
  raced       \* history: two rewrites of the file have overlapped

fileVars == <<keys, length, whole, generated, erased, raced>>
callVars == <<step, target, view, material>>
keyVars  == <<fileVars, callVars>>

NoKey  == 0
NoKeys == [t \in Tenants |-> NoKey]
Steps  == {"none", "encrypt", "destroy", "truncate", "save", "done", "failed"}

KeyInit ==
  /\ keys      = NoKeys
  /\ length    = 0
  /\ whole     = TRUE
  /\ generated = 0
  /\ step      = [p \in Processes |-> "none"]
  /\ target    = [p \in Processes |-> NoTenant]
  /\ view      = [p \in Processes |-> NoKeys]
  /\ material  = [p \in Processes |-> NoKey]
  /\ erased    = {}
  /\ raced     = FALSE

-----------------------------------------------------------------------------
(* Calls and returns. *)

Call(p, operation, t) ==
  /\ step' = [step EXCEPT ![p] = operation]
  /\ target' = [target EXCEPT ![p] = t]
  /\ UNCHANGED <<view, material>>

\* The process forgets the operation: it has returned, or the process dies.
Return(p) ==
  /\ step' = [step EXCEPT ![p] = "none"]
  /\ target' = [target EXCEPT ![p] = NoTenant]
  /\ view' = [view EXCEPT ![p] = NoKeys]
  /\ material' = [material EXCEPT ![p] = NoKey]

-----------------------------------------------------------------------------
(* encrypt and destroy *)

\* A rewrite has been decided on and is not finished.
Rewriting(p) == step[p] \in {"truncate", "save"}

\* _load of a file that is no JSON text raises, and the operation with it.
LoadFails(p) ==
  /\ step[p] \in {"encrypt", "destroy"}
  /\ ~whole
  /\ step' = [step EXCEPT ![p] = "failed"]
  /\ UNCHANGED <<fileVars, target, view, material>>

NeedsKeyAlways(t) == TRUE
NeedsKey(t) == keys[t] = NoKey

LoadToEncrypt(p) ==
  /\ step[p] = "encrypt"
  /\ whole
  /\ LET t == target[p] IN
       \/ /\ ~NeedsKey(t)
          /\ material' = [material EXCEPT ![p] = keys[t]]
          /\ step' = [step EXCEPT ![p] = "done"]
          /\ UNCHANGED <<view, generated>>
       \/ /\ NeedsKey(t)
          /\ generated < MaxKeys
          /\ generated' = generated + 1
          /\ material' = [material EXCEPT ![p] = generated']
          /\ view' = [view EXCEPT ![p] = [keys EXCEPT ![t] = generated']]
          /\ step' = [step EXCEPT ![p] = "truncate"]
  /\ UNCHANGED <<keys, length, whole, erased, raced, target>>

LoadToDestroy(p) ==
  /\ step[p] = "destroy"
  /\ whole
  /\ material' = [material EXCEPT ![p] = keys[target[p]]]
  /\ view' = [view EXCEPT ![p] = [keys EXCEPT ![target[p]] = NoKey]]
  /\ step' = [step EXCEPT ![p] = "truncate"]
  /\ UNCHANGED <<fileVars, target>>

\* _save opens the file.
Truncate(p) ==
  /\ step[p] = "truncate"
  /\ keys' = NoKeys
  /\ length' = 0
  /\ whole' = FALSE
  /\ raced' = (raced \/ \E q \in Processes \ {p} : Rewriting(q))
  /\ step' = [step EXCEPT ![p] = "save"]
  /\ UNCHANGED <<generated, erased, target, view, material>>

CountKeys(k) == Cardinality({t \in Tenants : k[t] # NoKey})
IsDestroy(p) == view[p][target[p]] = NoKey

\* _save writes and closes it.  What another process has written since is overwritten,
\* and the end of it stays behind when it is longer.
Save(p) ==
  /\ step[p] = "save"
  /\ keys' = view[p]
  /\ length' = Max({length, CountKeys(view[p])})
  /\ whole' = (length <= CountKeys(view[p]))
  /\ erased' = IF IsDestroy(p) THEN erased \union ({material[p]} \ {NoKey}) ELSE erased
  /\ step' = [step EXCEPT ![p] = "done"]
  /\ UNCHANGED <<generated, raced, target, view, material>>

KeyStep(p) ==
  LoadFails(p) \/ LoadToEncrypt(p) \/ LoadToDestroy(p) \/ Truncate(p) \/ Save(p)

-----------------------------------------------------------------------------
(* What decrypt can open: load the file, find the key, authenticate. *)

Opens(t, m) == whole /\ keys[t] = m

Keys == 1 .. generated

\* The file's keys have been generated, and so has what processes hold of them.
KeyTypeOK ==
  /\ keys \in [Tenants -> Keys \union {NoKey}]
  /\ length \in 0 .. Cardinality(Tenants)
  /\ whole \in BOOLEAN
  /\ generated \in Nat
  /\ step \in [Processes -> Steps]
  /\ target \in [Processes -> Tenants \union {NoTenant}]
  /\ view \in [Processes -> [Tenants -> Keys \union {NoKey}]]
  /\ material \in [Processes -> Keys \union {NoKey}]
  /\ erased \subseteq Keys
  /\ raced \in BOOLEAN
  /\ whole => length = CountKeys(keys)
=============================================================================
