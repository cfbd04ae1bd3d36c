------------------------------- MODULE Config -------------------------------
(***************************************************************************)
(* The configuration of src/config.c, a list of pairs, and the trust       *)
(* database of src/cert.c, which keeps its keys and their owners in one;   *)
(* and the file both are written to and read from.  Lines are abstracted   *)
(* to the pair that they hold; a value that is written may come back cut   *)
(* off (at a '#') or trimmed, which ReadBack says.                         *)
(***************************************************************************)
EXTENDS SequencesExt, Null

CONSTANTS
  ConfKeys, ConfValues,  \* what callers set
  ReadBack,              \* what each value is after it was written and read
  NoIdent,               \* "~", the owner of a key that names none
  MaxPairs,              \* bound: pairs in the list
  MaxLines               \* bound: lines of a file that somebody else writes

ASSUME ConfigAssumption ==
  /\ ReadBack \in [ConfValues -> ConfValues]
  /\ \A v \in ConfValues : ReadBack[ReadBack[v]] = ReadBack[v]
  /\ NoIdent \in ConfValues /\ NULL \notin ConfKeys \cup ConfValues
  /\ MaxPairs \in Nat /\ MaxLines \in Nat

VARIABLES
  pairs,     \* the list, from its head on
  file,      \* the lines of the file: pairs, or Skipped
  verify,    \* ca->verify
  confRet    \* what the last call that asks something returned

configVars == <<pairs, file, verify, confRet>>

Pairs == [key : ConfKeys, val : ConfValues]

\* A line of white space or a comment.
Skipped == [key |-> NULL, val |-> NULL]

ConfigTypeOK ==
  /\ pairs \in Seq(Pairs)
  /\ file \in Seq(Pairs \cup {Skipped})
  /\ verify \in BOOLEAN
  /\ confRet \in ConfValues \cup {NULL} \cup BOOLEAN

ConfigInit == pairs = <<>> /\ file = <<>> /\ verify = TRUE /\ confRet = NULL

-----------------------------------------------------------------------------
(* The list                                                                *)

KeysOf(s) == {s[i].key : i \in DOMAIN s} \ {NULL}

\* The first pair of k: where config_get(), _isset() and _set() stop.
FirstOf(s, k) == CHOOSE i \in DOMAIN s : s[i].key = k /\ \A j \in 1..i - 1 : s[j].key # k

GetFrom(s, k) == IF k \in KeysOf(s) THEN s[FirstOf(s, k)].val ELSE NULL

\* What s has at the places of I, in its order.
Picked(s, I) ==
  LET picked[n \in 0..Len(s)] ==
        IF n = 0 THEN <<>>
        ELSE IF n \in I THEN Append(picked[n - 1], s[n]) ELSE picked[n - 1]
  IN picked[Len(s)]

\* config_set(), and trustdb_trust() with the owner of the key.
ConfigSet(k, v) ==
  /\ pairs' = IF k \in KeysOf(pairs) THEN [pairs EXCEPT ![FirstOf(pairs, k)].val = v]
                                     ELSE <<[key |-> k, val |-> v]>> \o pairs
  /\ Len(pairs') <= MaxPairs
  /\ UNCHANGED <<file, verify, confRet>>

TrustdbTrust(k, ident) == ConfigSet(k, IF ident = NULL THEN NoIdent ELSE ident)

\* config_unset() and trustdb_revoke(): every pair of k goes.
ConfigUnset(k) ==
  /\ pairs' = Picked(pairs, {i \in DOMAIN pairs : pairs[i].key # k})
  /\ UNCHANGED <<file, verify, confRet>>

ConfigGet(k)   == confRet' = GetFrom(pairs, k) /\ UNCHANGED <<pairs, file, verify>>
ConfigIsset(k) == confRet' = (k \in KeysOf(pairs)) /\ UNCHANGED <<pairs, file, verify>>

\* trustdb_verify(), TRUE standing for 0.
TrustdbVerify(k, ident) ==
  /\ confRet' = \/ ~verify
                \/ /\ GetFrom(pairs, k) # NULL
                   /\ ident # NULL => ident = GetFrom(pairs, k)
  /\ UNCHANGED <<pairs, file, verify>>

\* The caller assigns ca->verify.
SetVerify(b) == verify' = b /\ UNCHANGED <<pairs, file, confRet>>

\* config_done(); or trustdb_free() and trustdb_new().
ConfigDone(v) ==
  /\ pairs' = <<>>
  /\ verify' = v
  /\ UNCHANGED <<file, confRet>>

-----------------------------------------------------------------------------
(* The file                                                                *)

\* The pairs that config_read() puts in front, one after the other.
Parsed == Reverse(Picked(file, {i \in DOMAIN file : file[i] # Skipped}))

ConfigRead ==
  /\ pairs' = Parsed \o pairs
  /\ Len(pairs') <= MaxPairs
  /\ UNCHANGED <<file, verify, confRet>>

\* trustdb_read(), trustdb_readio(): into a new database.
TrustdbRead ==
  /\ pairs' = Parsed
  /\ verify' = TRUE
  /\ UNCHANGED <<file, confRet>>

\* What a pair is to a later reader.
Line(p) == [p EXCEPT !.val = ReadBack[@]]

\* Mutant: uniq is not asked.
ConfigWriteAll ==
  /\ file' = [i \in DOMAIN pairs |-> Line(pairs[i])]
  /\ UNCHANGED <<pairs, verify, confRet>>

\* config_write(): the first pair of each key.
ConfigWrite ==
  /\ LET firsts == Picked(pairs, {i \in DOMAIN pairs : i = FirstOf(pairs, pairs[i].key)})
     IN file' = [n \in DOMAIN firsts |-> Line(firsts[n])]
  /\ UNCHANGED <<pairs, verify, confRet>>

\* trustdb_write(), trustdb_writeio(): every pair.
TrustdbWrite ==
  /\ file' = [i \in DOMAIN pairs |-> Line(pairs[i])]
  /\ UNCHANGED <<pairs, verify, confRet>>

\* Somebody else writes the file.
WriteFile ==
  /\ file' \in UNION {[1..n -> {Line(p) : p \in Pairs} \cup {Skipped}] : n \in 0..MaxLines}
  /\ UNCHANGED <<pairs, verify, confRet>>

ConfigNext ==
  \/ \E k \in ConfKeys :
       \/ ConfigUnset(k) \/ ConfigGet(k) \/ ConfigIsset(k)
       \/ \E v \in ConfValues : ConfigSet(k, v)
       \/ \E ident \in ConfValues \cup {NULL} : TrustdbTrust(k, ident) \/ TrustdbVerify(k, ident)
  \/ \E b \in BOOLEAN : SetVerify(b)
  \/ \E v \in {verify, TRUE} : ConfigDone(v)
  \/ ConfigRead \/ TrustdbRead \/ ConfigWrite \/ TrustdbWrite \/ WriteFile

ConfigSpec == ConfigInit /\ [][ConfigNext]_configVars

-----------------------------------------------------------------------------
(* Properties                                                              *)

Twice(s) == \E i, j \in DOMAIN s : i < j /\ s[i].key = s[j].key

\* The list implements a map that survives being written and read back,
\* although pairs are put in front when read and written from the front
\* (src/config.c:182, 203): what was last set or read wins, what was unset or
\* revoked is gone for good with every older value, and only a trust database
\* with keys twice may come back with their older values (src/cert.c:370-373);
\* a configuration never does, as each key is written once.
ConfigMap == INSTANCE Settings
  WITH map    <- [k \in KeysOf(pairs) |-> GetFrom(pairs, k)],
       saved  <- [k \in KeysOf(file) |-> GetFrom(Parsed, k)],
       hidden <- Twice(pairs),
       answer <- confRet

ImplementsSettings == ConfigMap!SettingsSpec /\ [][ConfigWrite => ConfigMap!Save]_configVars
=============================================================================
