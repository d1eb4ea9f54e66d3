---------------------------- MODULE EotsManager ----------------------------
(***************************************************************************)
(* The keys of the EOTS manager (eotsmanager/localmanager.go and           *)
(* eotsmanager/store/eotsstore.go).  A key lives in the keyring under its  *)
(* name; the database maps its public key to that name.  A name is used    *)
(* for one key only, so a key is identified by its name.  The manager is   *)
(* a process of its own and may die between the two writes.                *)
(***************************************************************************)
CONSTANT Keys

VARIABLES
  eotsKeys,    \* the keyring: names that have a key
  eotsNames,   \* the database: public keys whose name is stored
  creating     \* calls of CreateKey that are between the two writes

eotsVars == <<eotsKeys, eotsNames, creating>>

EotsTypeOK == eotsKeys \subseteq Keys /\ eotsNames \subseteq Keys /\ creating \subseteq Keys

EotsInit == eotsKeys = {} /\ eotsNames = {} /\ creating = {}

KeyExists(k) == k \in eotsKeys

\* The first half of CreateKeyWithMnemonic: the key enters the keyring.
NewAccount(k) ==
  /\ ~KeyExists(k)
  /\ eotsKeys' = eotsKeys \union {k}
  /\ creating' = creating \union {k}
  /\ UNCHANGED eotsNames

\* The second half: its name is stored.
AddEOTSKeyName(k) ==
  /\ k \in creating
  /\ eotsNames' = eotsNames \union {k}
  /\ creating' = creating \ {k}
  /\ UNCHANGED eotsKeys

EotsCrash ==
  /\ creating # {}
  /\ creating' = {}
  /\ UNCHANGED <<eotsKeys, eotsNames>>

GetEOTSKeyName(k) == k \in eotsNames

\* KeyRecord and getEOTSPrivKey look the name up first, then the key.
KeyRecordExists(k) == GetEOTSKeyName(k) /\ KeyExists(k)
=============================================================================
