-------------------------------- MODULE Zap ---------------------------------
(***************************************************************************)
(* The authentication thread of src/mq.c (596-720), which answers the      *)
(* requests that ZeroMQ makes of it for every handshake, the trust         *)
(* database that the host changes meanwhile without any lock, and the end  *)
(* of the thread.                                                          *)
(***************************************************************************)
EXTENDS SequencesExt, Null

CONSTANTS
  ZapKeys,     \* public keys of clients
  MaxRequests  \* bound: handshakes

\* A key in base 16, as a certificate has it.
KeyTexts == [key : ZapKeys, upper : BOOLEAN]
ZapRequests == [id : 1..MaxRequests, key : ZapKeys, good : BOOLEAN]

ASSUME ZapAssumption ==
  /\ NULL \notin ZapRequests /\ \A texts \in SUBSET KeyTexts : texts # NULL
  /\ MaxRequests \in Nat

VARIABLES
  requests,   \* what waits in the REP socket, in order
  request,    \* what the thread has read last: a request, or NULL
  verdict,    \* what it is to answer
  answers,    \* history: the answers sent so far, by number of the request
  arrived,    \* history: requests so far
  zapPc,      \* where the thread is
  hostPc,     \* where the host is, in zap_shutdown() or in a change
  zapSocket,  \* how often zmq_close() was called
  tdb,        \* the texts in the trust database, or NULL for none or one that does
              \* not verify (ca->verify is 0, src/cert.c:412): both let everybody in
  changing,   \* what the host puts into it or takes out: [add, text]
  allowed,    \* history: keys whose last change was a trustdb_trust()
  right,      \* history: the answers that were right since the request was read
  raced,      \* history: ... it was checked during a change
  misspelt    \* history: a text with upper case was used

zapVars == <<requests, request, verdict, answers, arrived, zapPc, hostPc, zapSocket,
             tdb, changing, allowed, right, raced, misspelt>>

ZapTypeOK ==
  /\ requests \in Seq(ZapRequests) /\ request \in ZapRequests \cup {NULL}
  /\ verdict \in {200, 400}
  /\ answers \in [1..MaxRequests -> {200, 400, NULL}]
  /\ arrived \in 0..MaxRequests
  /\ zapPc \in {"recv", "check", "reply", "closing", "ended", "crashed"}
  /\ hostPc \in {"up", "changing", "join", "close", "down"}
  /\ zapSocket \in 0..2
  /\ tdb \in (SUBSET KeyTexts) \cup {NULL}
  /\ changing \in [add : BOOLEAN, text : KeyTexts] \cup {NULL}
  /\ allowed \subseteq ZapKeys /\ right \subseteq {200, 400}
  /\ raced \in BOOLEAN /\ misspelt \in BOOLEAN

\* zap_startup(), with a trust database or with none; one that does not verify is
\* not looked at either, so changes of it mean nothing here.
ZapInit ==
  /\ requests = <<>> /\ request = NULL /\ verdict = 400
  /\ answers = [i \in 1..MaxRequests |-> NULL] /\ arrived = 0
  /\ zapPc = "recv" /\ hostPc = "up" /\ zapSocket = 0
  /\ tdb \in {{}, NULL} /\ changing = NULL
  /\ allowed = {} /\ right = {} /\ raced = FALSE /\ misspelt = FALSE

hostVars == <<hostPc, tdb, changing, allowed, misspelt>>

\* The answer that a key should have, when the keys of keys are allowed.
RightAnswer(k, keys) == IF tdb = NULL \/ k \in keys THEN 200 ELSE 400

-----------------------------------------------------------------------------
(* s_zap_thread()                                                          *)

\* ZeroMQ asks; a request that is no good is one of another version or another
\* mechanism than CURVE, or has no key of 32 bytes.
Arrive(k, good) ==
  /\ arrived < MaxRequests
  /\ arrived' = arrived + 1
  /\ requests' = Append(requests, [id |-> arrived', key |-> k, good |-> good])
  /\ UNCHANGED <<request, verdict, answers, zapPc, zapSocket, right, raced, hostVars>>

ZapRecv ==
  /\ zapPc = "recv" /\ requests # <<>>
  /\ requests' = Tail(requests) /\ request' = Head(requests)
  /\ zapPc' = "check"
  /\ right' = {RightAnswer(Head(requests).key, allowed)} /\ raced' = FALSE
  /\ UNCHANGED <<verdict, answers, arrived, zapSocket, hostVars>>

\* The thread gives up at the first request that is no good.
ZapBail ==
  /\ zapPc = "check" /\ ~request.good
  /\ zapPc' = "closing"
  /\ UNCHANGED <<requests, request, verdict, answers, arrived, zapSocket, right, raced, hostVars>>

\* Mutant: the key that is looked up is the one of the request before.
ZapCheckOld ==
  /\ zapPc = "check" /\ request.good
  /\ verdict' \in IF tdb = NULL \/ verdict = 200 \/ [key |-> request.key, upper |-> FALSE] \in tdb
                    THEN {200} ELSE {400}
  /\ zapPc' = "reply" /\ raced' = (raced \/ changing # NULL)
  /\ UNCHANGED <<requests, request, answers, arrived, zapSocket, right, hostVars>>

\* trustdb_verify() of the key, which cert_encode() has written in lower case;
\* during a change the list may be followed to any answer, or to nowhere.
ZapCheck ==
  /\ zapPc = "check" /\ request.good
  /\ verdict' \in IF changing # NULL THEN {200, 400}
                  ELSE IF tdb = NULL \/ [key |-> request.key, upper |-> FALSE] \in tdb THEN {200}
                  ELSE {400}
  /\ zapPc' \in {"reply"} \cup IF changing # NULL THEN {"crashed"} ELSE {}
  /\ raced' = (changing # NULL)
  /\ UNCHANGED <<requests, request, answers, arrived, zapSocket, right, hostVars>>

ZapReply ==
  /\ zapPc = "reply"
  /\ answers' = [answers EXCEPT ![request.id] = verdict]
  /\ zapPc' = "recv" /\ right' = {} /\ raced' = FALSE
  /\ UNCHANGED <<requests, request, verdict, arrived, zapSocket, hostVars>>

ZapClose ==
  /\ zapPc = "closing"
  /\ zapSocket' = zapSocket + 1
  /\ zapPc' = "ended"
  /\ UNCHANGED <<requests, request, verdict, answers, arrived, right, raced, hostVars>>

\* The thread was cancelled: it ends where it waits, or where it writes a log.
ZapCancelled ==
  /\ hostPc = "join" /\ zapPc \in {"recv", "check", "reply"}
  /\ zapPc' = "ended"
  /\ UNCHANGED <<requests, request, verdict, answers, arrived, zapSocket, right, raced, hostVars>>

ZapThread == ZapRecv \/ ZapBail \/ ZapCheck \/ ZapReply \/ ZapClose

-----------------------------------------------------------------------------
(* The host                                                                *)

\* trustdb_trust() or trustdb_revoke() of a certificate begins ...
Change(add, text) ==
  /\ hostPc = "up" /\ tdb # NULL /\ zapPc # "crashed"
  /\ changing' = [add |-> add, text |-> text] /\ hostPc' = "changing"
  /\ misspelt' = (misspelt \/ text.upper)
  /\ UNCHANGED <<requests, request, verdict, answers, arrived, zapPc, zapSocket,
                 tdb, allowed, right, raced>>

\* ... and is done.
Changed ==
  /\ hostPc = "changing" /\ zapPc # "crashed"
  /\ LET t == changing.text IN
     IF changing.add THEN tdb' = tdb \cup {t} /\ allowed' = allowed \cup {t.key}
                     ELSE tdb' = tdb \ {t} /\ allowed' = allowed \ {t.key}
  \* what was right goes on being right for the request in hand
  /\ right' = IF right = {} THEN {} ELSE right \cup {RightAnswer(request.key, allowed')}
  /\ changing' = NULL /\ hostPc' = "up"
  /\ UNCHANGED <<requests, request, verdict, answers, arrived, zapPc, zapSocket, raced, misspelt>>

\* zap_shutdown(): pthread_cancel(), pthread_join(), vzmq_shutdown().
ShutdownMoves(from, to) ==
  /\ hostPc = from /\ hostPc' = to
  /\ UNCHANGED <<requests, request, verdict, answers, arrived, zapPc, tdb, changing,
                 allowed, right, raced, misspelt>>

ZapCancel == zapPc # "crashed" /\ ShutdownMoves("up", "join") /\ UNCHANGED zapSocket
ZapJoin   == zapPc = "ended" /\ ShutdownMoves("join", "close") /\ UNCHANGED zapSocket
ZapShut   == ShutdownMoves("close", "down") /\ zapSocket' = zapSocket + 1

ZapNext ==
  \/ \E k \in ZapKeys, good \in BOOLEAN : Arrive(k, good)
  \/ ZapThread \/ ZapCancelled
  \/ \E add \in BOOLEAN, text \in KeyTexts : Change(add, text)
  \/ Changed \/ ZapCancel \/ ZapJoin \/ ZapShut

\* The thread runs, a cancelled one ends, and zap_shutdown() goes on.
ZapFairness == WF_zapVars(ZapThread) /\ WF_zapVars(ZapCancelled) /\ WF_zapVars(ZapJoin \/ ZapShut)

ZapSpec == ZapInit /\ [][ZapNext]_zapVars /\ ZapFairness

-----------------------------------------------------------------------------
(* Properties                                                              *)

\* A handshake is granted or refused as the last trustdb_trust() and
\* trustdb_revoke() of its key say, at some moment after it was received,
\* unless the database was changed during the check, or a certificate spells
\* its key in upper case: the thread looks for lower case, and such a key is
\* never found and cannot be revoked by another spelling (src/mq.c:646, 652,
\* src/cert.c:386-418); and only a thread that gave up has closed the socket
\* that zap_shutdown() closes again (src/mq.c:686, 718).
ZapJust ==
  /\ zapPc = "reply" /\ ~raced /\ ~misspelt => verdict \in right
  /\ zapSocket = 2 => request # NULL /\ ~request.good

\* A good request is answered, unless the thread gave up on another before, or
\* is shut down; and zap_shutdown() returns (src/mq.c:611-688, 708-720).
Waiting(i) == \E r \in ToSet(requests) \cup ({request} \ {NULL}) : r.id = i /\ r.good
ZapAnswers ==
  /\ \A i \in 1..MaxRequests :
       Waiting(i) ~> answers[i] # NULL \/ zapPc \in {"ended", "crashed"}
  /\ hostPc = "join" ~> hostPc = "down"

\* Every handshake gets an answer, and the right one.
ZapRight == [][ZapJust']_zapVars /\ ZapAnswers
=============================================================================
