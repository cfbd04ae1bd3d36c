-------------------------------- MODULE Cert --------------------------------
(***************************************************************************)
(* The certificates of src/cert.c: a key pair, each key in binary and in   *)
(* base 16, which callers may change and have translated again.  What is   *)
(* known of a text is the key it stands for, and whether its digits are    *)
(* upper case; base 16 itself is in module Text, and the lines of a file   *)
(* in module Config.                                                       *)
(***************************************************************************)
EXTENDS FiniteSets, Null

CONSTANTS
  BoxKeys, SignKeys,  \* key pairs for encryption, of 32 + 32 bytes, and for
                      \*   signing, of 32 + 64
  CertTexts,          \* texts that callers and files have for keys
  Idents,             \* names of hosts
  IdentBack           \* what each of them is after it was written and read

CertKeys == BoxKeys \cup SignKeys

\* Bytes that are no key of anybody; a text that is not base 16; one of
\* another length than any key has.
Mixed == "mixed"
Illegal == "illegal"
Short == "short"

Binaries == CertKeys \cup {Mixed}
Texts == [key : Binaries \cup {Illegal, Short}, upper : BOOLEAN]

Encryption == "VIGOR_CERT_ENCRYPTION"
Signing == "VIGOR_CERT_SIGNING"

Certs == [type : {Encryption, Signing}, ident : Idents \cup {NULL},
          pubkey : BOOLEAN, seckey : BOOLEAN,
          pubkey_b16 : Texts \cup {NULL}, seckey_b16 : Texts \cup {NULL},
          pubkey_bin : Binaries \cup {NULL}, seckey_bin : Binaries \cup {NULL}]

ASSUME CertAssumption ==
  /\ NULL \notin CertKeys \cup Idents \cup Texts \cup Certs /\ CertTexts \subseteq Texts
  /\ BoxKeys \cap SignKeys = {} /\ (CertKeys \cup {NULL}) \cap {Mixed, Illegal, Short} = {}
  /\ IdentBack \in [Idents -> Idents]

VARIABLES
  cert,      \* a cert_t, or NULL
  certFile,  \* what is in the file
  touched    \* history: the caller has changed a key and not had it translated

certVars == <<cert, certFile, touched>>

Files == [signing : BOOLEAN, id : Idents \cup {NULL},
          pub : Texts \cup {NULL}, sec : Texts \cup {NULL}]

CertTypeOK ==
  /\ cert \in Certs \cup {NULL}
  /\ certFile \in Files
  /\ touched \in BOOLEAN

\* cert_new() of one of the two types; of any other it returns NULL.
New(type) ==
  [type |-> type, ident |-> NULL, pubkey |-> FALSE, seckey |-> FALSE,
   pubkey_b16 |-> NULL, seckey_b16 |-> NULL, pubkey_bin |-> NULL, seckey_bin |-> NULL]

EmptyFile == [signing |-> FALSE, id |-> NULL, pub |-> NULL, sec |-> NULL]

\* Files that somebody else writes.
OtherFiles == [signing : BOOLEAN, id : {NULL},
               pub : CertTexts \cup {NULL}, sec : CertTexts \cup {NULL}]

CertInit ==
  /\ cert = NULL /\ certFile = EmptyFile /\ touched = FALSE

-----------------------------------------------------------------------------
(* Translation between the two forms                                       *)

\* The length that a text has is the one of a public, a secret key.
PubFits(t) == t.key # Short
SecFits(type, t) == t.key \notin {Short} \cup IF type = Signing THEN BoxKeys ELSE SignKeys

\* base16_decode() stops at an illegal character, having decoded some.
Decode(t) == IF t.key = Illegal THEN Mixed ELSE t.key
Encode(b) == [key |-> b, upper |-> FALSE]

\* cert_rescan(): no secret key once the public one has failed.
Rescanned(c) ==
  LET pub == IF c.pubkey THEN [c EXCEPT !.pubkey_bin = Decode(c.pubkey_b16)] ELSE c
  IN IF c.seckey /\ ~(c.pubkey /\ c.pubkey_b16.key = Illegal)
       THEN [pub EXCEPT !.seckey_bin = Decode(c.seckey_b16)] ELSE pub

RescanFails(c) == \/ c.pubkey /\ c.pubkey_b16.key = Illegal
                  \/ c.seckey /\ c.seckey_b16.key = Illegal

\* A certificate from the texts of a caller or a file; NULL if they are of the
\* wrong length, illegal, or the public one is missing.
Made(type, ident, pub, sec) ==
  LET c == [New(type) EXCEPT !.ident = ident,
              !.pubkey = (pub # NULL), !.pubkey_b16 = pub,
              !.seckey = (sec # NULL), !.seckey_b16 = sec]
  IN IF \/ pub = NULL \/ ~PubFits(pub)
        \/ sec # NULL /\ ~SecFits(type, sec)
        \/ RescanFails(c)
       THEN NULL ELSE Rescanned(c)

-----------------------------------------------------------------------------
(* The functions                                                           *)

\* Callers free a certificate before they make another.
Anew(c) == cert = NULL /\ cert' = c /\ touched' = FALSE /\ UNCHANGED certFile

CertNew(type) == Anew(New(type))
CertFree == cert' = NULL /\ touched' = FALSE /\ UNCHANGED certFile

CertMake(type, pub, sec) == Anew(Made(type, NULL, pub, sec))

CertGenerate(type, k) ==
  /\ k \in IF type = Signing THEN SignKeys ELSE BoxKeys
  /\ Anew([New(type) EXCEPT !.pubkey = TRUE, !.seckey = TRUE,
             !.pubkey_bin = k, !.seckey_bin = k,
             !.pubkey_b16 = Encode(k), !.seckey_b16 = Encode(k)])

\* Without a line that says otherwise, the key in a file is for encryption.
OfFile(f) == Made(IF f.signing THEN Signing ELSE Encryption, f.id, f.pub, f.sec)

\* Mutant: the keys are not translated.
CertReadRaw(f) ==
  LET c == OfFile(f)
  IN Anew(IF c = NULL THEN NULL ELSE [c EXCEPT !.pubkey_bin = NULL])

\* cert_read(), cert_readio() of a file, the one that was written or another.
CertRead(f) == Anew(OfFile(f))

\* cert_write(), cert_writeio(): the secret key only if the caller asks.
CertWrite(full) ==
  /\ cert # NULL
  /\ cert.pubkey => cert.pubkey_b16 # NULL
  /\ certFile' = [signing |-> cert.type = Signing,
                  id  |-> IF cert.ident = NULL THEN NULL ELSE IdentBack[cert.ident],
                  pub |-> IF cert.pubkey THEN cert.pubkey_b16 ELSE NULL,
                  sec |-> IF cert.seckey /\ full THEN cert.seckey_b16 ELSE NULL]
  /\ UNCHANGED <<cert, touched>>

CertRescan ==
  /\ cert # NULL
  /\ cert.pubkey => cert.pubkey_b16 # NULL
  /\ cert' = Rescanned(cert)
  /\ touched' = RescanFails(cert)
  /\ UNCHANGED certFile

\* cert_encode() cannot fail: the lengths are right.
CertEncode ==
  /\ cert # NULL
  /\ cert' = [cert EXCEPT !.pubkey_b16 = IF cert.pubkey THEN Encode(cert.pubkey_bin) ELSE @,
                          !.seckey_b16 = IF cert.seckey THEN Encode(cert.seckey_bin) ELSE @]
  /\ touched' = FALSE
  /\ UNCHANGED certFile

\* The caller names the host, or writes a text over one of the keys that are
\* there, of the length that it has.
Edit ==
  /\ cert # NULL
  /\ \/ \E i \in Idents : cert' = [cert EXCEPT !.ident = i] /\ UNCHANGED touched
     \/ /\ touched' = TRUE
        /\ \E t \in CertTexts :
             \/ cert.pubkey /\ PubFits(t) /\ cert' = [cert EXCEPT !.pubkey_b16 = t]
             \/ cert.seckey /\ SecFits(cert.type, t) /\ cert' = [cert EXCEPT !.seckey_b16 = t]
  /\ UNCHANGED certFile

\* The ZAP thread gives a new certificate the key of a request, and has it
\* translated later.
FromRequest(k) ==
  /\ cert = NULL /\ cert' = [New(Encryption) EXCEPT !.pubkey = TRUE, !.pubkey_bin = k]
  /\ touched' = TRUE
  /\ UNCHANGED certFile

\* cert_seal(): the key that opens it, if any does; the type is not asked, but
\* a key for encryption is half as long.
Seal(c) == IF c.type = Signing /\ c.seckey_bin \in SignKeys THEN c.seckey_bin ELSE NULL

\* cert_unseal(), and cert_sealed(), which asks it.
Unseals(c, sealed) == sealed # NULL /\ c.pubkey_bin = sealed

CertNext ==
  \/ \E type \in {Encryption, Signing} :
       \/ CertNew(type) \/ \E k \in CertKeys : CertGenerate(type, k)
       \/ \E pub, sec \in CertTexts \cup {NULL} : CertMake(type, pub, sec)
  \/ CertFree \/ \E f \in {certFile} \cup OtherFiles : CertRead(f)
  \/ \E full \in BOOLEAN : CertWrite(full)
  \/ CertRescan \/ CertEncode \/ Edit
  \/ \E k \in BoxKeys : FromRequest(k)

CertSpec == CertInit /\ [][CertNext]_certVars

-----------------------------------------------------------------------------
(* Properties                                                              *)

\* The two forms of a key say the same.
Coded == /\ cert.pubkey => cert.pubkey_bin = cert.pubkey_b16.key
         /\ cert.seckey => cert.seckey_bin = cert.seckey_b16.key

\* Whatever way a certificate came about, and whatever a caller did to it, once
\* it was translated its two forms say the same (src/cert.c:86-166, 229-267);
\* one that is written is what a reader gets, with its type, its name, the
\* case of its digits, and its secret key if and only if that was asked for
\* (src/cert.c:98-194); and whoever reads it unseals what its owner seals, if
\* its keys are a pair for signing (src/cert.c:269-316).
CertRight ==
  [][/\ cert' # NULL /\ ~touched' => Coded'
     /\ \A full \in BOOLEAN : CertWrite(full) /\ cert.pubkey /\ ~touched =>
          LET c == OfFile(certFile')
          IN /\ c # NULL
             /\ c.type = cert.type /\ c.pubkey_b16 = cert.pubkey_b16
             /\ c.ident # NULL <=> cert.ident # NULL
             /\ c.seckey <=> cert.seckey /\ full
             /\ Unseals(c, Seal(cert)) <=> /\ cert.pubkey_bin = cert.seckey_bin
                                           /\ cert.type = Signing
                                           /\ cert.pubkey_bin \in SignKeys]_certVars
=============================================================================
