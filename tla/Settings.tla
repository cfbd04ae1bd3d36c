------------------------------ MODULE Settings ------------------------------
(***************************************************************************)
(* What src/config.c and the trust database of src/cert.c promise          *)
(* (abstract specification): a map from keys to values, which a file       *)
(* carries to a later reader.                                              *)
(***************************************************************************)
CONSTANTS ConfKeys, ConfValues, ReadBack, NoIdent, NULL

VARIABLES
  map,        \* the settings
  saved,      \* what a reader of the file will find
  hidden,     \* there may be older values behind those of the map
  verify,     \* keys are verified at all
  answer      \* of the last call that asks something

Maps == UNION {[ks -> ConfValues] : ks \in SUBSET ConfKeys}

\* What m sets, and what n sets besides.
Overlaid(m, n) ==
  [k \in DOMAIN m \cup DOMAIN n |-> IF k \in DOMAIN m THEN m[k] ELSE n[k]]

Lookup(k) == IF k \in DOMAIN map THEN map[k] ELSE NULL

SettingsInit ==
  /\ map = <<>> /\ saved = <<>> /\ hidden = FALSE /\ verify = TRUE /\ answer = NULL

Set(k, v) == map' = Overlaid([j \in {k} |-> v], map) /\ UNCHANGED <<saved, hidden, verify, answer>>

Unset(k) ==
  /\ map' = [j \in DOMAIN map \ {k} |-> map[j]]
  /\ hidden' \in {hidden, FALSE}
  /\ UNCHANGED <<saved, verify, answer>>

Get(k)   == answer' = Lookup(k) /\ UNCHANGED <<map, saved, hidden, verify>>
Isset(k) == answer' = (k \in DOMAIN map) /\ UNCHANGED <<map, saved, hidden, verify>>

\* A key is refused only if keys are verified at all, and it is not in the map
\* or is there for somebody else.
Verify(k, ident) ==
  /\ answer' = (verify => k \in DOMAIN map /\ ident \in {NULL, Lookup(k)})
  /\ UNCHANGED <<map, saved, hidden, verify>>

\* The file has the last word on what it sets.
Load ==
  /\ map' = Overlaid(saved, map)
  /\ hidden' \in {hidden, TRUE}
  /\ UNCHANGED <<saved, verify, answer>>

LoadTrust ==
  /\ map' = saved
  /\ hidden' \in BOOLEAN
  /\ verify' = TRUE
  /\ UNCHANGED <<saved, answer>>

Edit == saved' \in Maps /\ UNCHANGED <<map, hidden, verify, answer>>

\* Values change only in what a line of text cannot carry.
Save ==
  /\ saved' = [k \in DOMAIN map |-> ReadBack[map[k]]]
  /\ UNCHANGED <<map, hidden, verify, answer>>

\* A trust database that was read from a file with keys twice, or twice read,
\* may save their older values.
SaveTrust ==
  /\ saved' \in [DOMAIN map -> ConfValues]
  /\ hidden \/ saved' = [k \in DOMAIN map |-> ReadBack[map[k]]]
  /\ UNCHANGED <<map, hidden, verify, answer>>

Clear ==
  /\ map' = <<>> /\ hidden' = FALSE
  /\ verify' \in {verify, TRUE}
  /\ UNCHANGED <<saved, answer>>

SetVerify == verify' \in BOOLEAN /\ UNCHANGED <<map, saved, hidden, answer>>

SettingsNext ==
  \/ \E k \in ConfKeys : \/ Unset(k) \/ Get(k) \/ Isset(k)
                         \/ \E v \in ConfValues : Set(k, v)
                         \/ \E i \in ConfValues \cup {NULL} : Verify(k, i)
  \/ Load \/ LoadTrust \/ Edit \/ Save \/ SaveTrust \/ Clear \/ SetVerify

SettingsSpec == SettingsInit /\ [][SettingsNext]_<<map, saved, hidden, verify, answer>>
=============================================================================
