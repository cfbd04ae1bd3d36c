-------------------------------- MODULE Pdu ---------------------------------
(***************************************************************************)
(* The messages of src/mq.c: how they are built, sent frame by frame over  *)
(* a socket of ZeroMQ, and put together by the receiver.  Two peers, each  *)
(* with one PDU in hand, are connected DEALER to ROUTER or PUB to SUB.     *)
(***************************************************************************)
EXTENDS SequencesExt, Null

CONSTANTS
  Data,       \* contents that callers give frames
  ClientId,   \* the identity of the client
  MaxFrames,  \* bound: frames of a PDU, and two more of a message
  MaxQueue    \* bound: messages on their way, in both directions

ASSUME PduAssumption ==
  /\ Cardinality({"", ClientId, NULL}) = 3 /\ ClientId \notin Data
  /\ MaxFrames \in Nat \ {0} /\ MaxQueue \in Nat \ {0}

VARIABLES
  pattern,   \* which sockets the peers have
  pdu,       \* per peer, its pdu_t, or NULL
  partial,   \* per peer, frames of a message that it has not finished to send
  queue,     \* per peer, messages for it
  crashed,   \* peers that failed an assertion
  intended,  \* history: what the messages in each queue should say
  spoiled    \* history: peers that sent a message in part, or empty

pduVars == <<pattern, pdu, partial, queue, crashed, intended, spoiled>>

Peers == {"client", "server"}
Other(a) == CHOOSE b \in Peers : b # a

\* The type of a peer's socket; the server publishes.
Socket(a) == IF pattern = "dealer" THEN IF a = "client" THEN "DEALER" ELSE "ROUTER"
             ELSE IF a = "client" THEN "SUB" ELSE "PUB"

Addresses == {ClientId, ""}
Wire == Data \cup Addresses  \* "" is an empty frame
Frames == [data : Wire, final : BOOLEAN]
Pdus == [address : Addresses \cup {NULL}, frames : Seq(Frames)]

PduTypeOK ==
  /\ pattern \in {"dealer", "publish"}
  /\ pdu \in [Peers -> Pdus \cup {NULL}]
  /\ partial \in [Peers -> Seq(Wire)]
  /\ queue \in [Peers -> Seq(Seq(Wire))]
  /\ crashed \subseteq Peers /\ spoiled \subseteq Peers
  /\ intended \in [Peers -> Seq([frames : Seq(Wire), address : Addresses \cup {NULL}])]

NewPdu == [address |-> NULL, frames |-> <<>>]

PduInit ==
  /\ pattern \in {"dealer", "publish"}
  /\ pdu = [a \in Peers |-> NULL]
  /\ partial = [a \in Peers |-> <<>>] /\ queue = [a \in Peers |-> <<>>]
  /\ crashed = {} /\ spoiled = {}
  /\ intended = [a \in Peers |-> <<>>]

-----------------------------------------------------------------------------
(* Building                                                                *)

DataOf(frames) == [i \in DOMAIN frames |-> frames[i].data]

\* Mutant: the frame that was the last remains final.
ExtendedFinal(frames, d) == Append(frames, [data |-> d, final |-> TRUE])

\* s_pdu_extend()
Extended(frames, d) ==
  Append([i \in DOMAIN frames |-> IF i = Len(frames) THEN [frames[i] EXCEPT !.final = FALSE]
                                                     ELSE frames[i]],
         [data |-> d, final |-> TRUE])

ExtendedBy(frames, s) ==
  LET grown[n \in 0..Len(s)] == IF n = 0 THEN frames ELSE Extended(grown[n - 1], s[n])
  IN grown[Len(s)]

\* The peer a has p in hand now; neither has crashed yet.
Hold(a, p) ==
  /\ crashed = {}
  /\ p # NULL => Len(p.frames) <= MaxFrames
  /\ pdu' = [pdu EXCEPT ![a] = p]
  /\ UNCHANGED <<pattern, partial, queue, crashed, intended, spoiled>>

\* pdu_new() or pdu_free(); pdu_make() with the type alone, to be extended.
PduNew(a)     == Hold(a, NewPdu)
PduFree(a)    == Hold(a, NULL)
PduMake(a, t) == Hold(a, [NewPdu EXCEPT !.frames = Extended(<<>>, t)])

\* pdu_extend(), pdu_extendf()
PduExtend(a, d) ==
  pdu[a] # NULL /\ Hold(a, [pdu[a] EXCEPT !.frames = Extended(@, d)])

\* pdu_reply(): the address of what was received, which must have one.
PduReply(a, t) ==
  /\ pdu[a] # NULL /\ pdu[a].address # NULL
  /\ Hold(a, [NewPdu EXCEPT !.address = pdu[a].address, !.frames = Extended(<<>>, t)])

\* pdu_copy() of n frames from `start' on, counted from 0, or of all the rest.
Copied(to, from, start, n) ==
  ExtendedBy(to, SubSeq(DataOf(from), start + 1,
                        IF n = 0 THEN Len(from) ELSE Min({start + n, Len(from)})))

\* pdu_dup() under a type, or under its own; the copy has no address.
PduDup(a, t, start, n) ==
  /\ pdu[a] # NULL
  /\ t = NULL => pdu[a].frames # <<>>
  /\ Hold(a, [NewPdu EXCEPT
       !.frames = Copied(Extended(<<>>, IF t = NULL THEN pdu[a].frames[1].data ELSE t),
                         pdu[a].frames, start, n)])

\* pdu_attn(); of a peer that is no base 16, the address stays.
PduAttn(a, peer) ==
  pdu[a] # NULL /\ Hold(a, [pdu[a] EXCEPT !.address = IF peer = "illegal" THEN @ ELSE peer])

-----------------------------------------------------------------------------
(* Sending and receiving                                                   *)

\* The frames that pdu_send() sends, in order.
Outgoing(a) ==
  LET p == pdu[a]
      more(d) == [data |-> d, final |-> FALSE]
      envelope == IF Socket(a) = "PUB" THEN <<>>
                  ELSE (IF p.address = NULL THEN <<>> ELSE <<more(p.address)>>) \o <<more("")>>
  IN envelope \o p.frames

\* A DEALER's messages come with its identity, and a ROUTER's go to the one
\* they name, or to nobody.
Routed(a, m) ==
  CASE Socket(a) = "DEALER" -> << <<ClientId>> \o m >>
    [] Socket(a) = "ROUTER" -> IF m[1] = ClientId THEN << Tail(m) >> ELSE <<>>
    [] OTHER -> << m >>

\* What ZeroMQ makes of frames on a socket: whole messages, which go their way,
\* and a rest.
Flushed(a, rest, frames) ==
  LET after[n \in 0..Len(frames)] ==
        IF n = 0 THEN [routed |-> <<>>, rest |-> rest]
        ELSE LET m == Append(after[n - 1].rest, frames[n].data)
             IN IF frames[n].final THEN [routed |-> after[n - 1].routed \o Routed(a, m), rest |-> <<>>]
                ELSE [routed |-> after[n - 1].routed, rest |-> m]
  IN after[Len(frames)]

\* k of the frames are sent before one fails, if one does; ZeroMQ leaves those
\* that were sent empty.  What comes behind a message that was left unfinished
\* becomes a part of it; it is sent in full, and nothing is sent after it.
PduSend(a, k) ==
  /\ a \notin crashed /\ pdu[a] # NULL /\ Socket(a) # "SUB"
  /\ k <= Len(Outgoing(a)) /\ Len(partial[a]) + k <= MaxFrames + 2
  /\ IF partial[a] = <<>> THEN spoiled = {} ELSE k = Len(Outgoing(a))
  /\ Len(queue[a]) + Len(queue[Other(a)]) < MaxQueue
  /\ LET out == Outgoing(a)
         p == pdu[a]
         flushed == Flushed(a, partial[a], SubSeq(out, 1, k))
         before == Len(out) - Len(p.frames)
     IN /\ partial' = [partial EXCEPT ![a] = flushed.rest]
        /\ queue' = [queue EXCEPT ![Other(a)] = @ \o flushed.routed]
        /\ pdu' = [pdu EXCEPT ![a] =
             [p EXCEPT !.address = IF k >= 1 /\ before = 2 /\ @ # NULL THEN "" ELSE @,
                       !.frames = [i \in DOMAIN @ |-> IF before + i <= k
                                                        THEN [@[i] EXCEPT !.data = ""] ELSE @[i]]]]
        /\ spoiled' = IF k = 0 \/ (k = Len(out) /\ p.frames # <<>>) THEN spoiled ELSE spoiled \cup {a}
        /\ intended' = [intended EXCEPT ![Other(a)] =
             @ \o IF k = Len(out) /\ p.frames # <<>> /\ ~(Socket(a) = "ROUTER" /\ p.address # ClientId)
                    THEN << [frames |-> DataOf(p.frames), address |-> p.address] >> ELSE <<>>]
  /\ UNCHANGED <<pattern, crashed>>

\* pdu_recv(): what is in front of the first empty frame is the address, and
\* there is not to be more than one.
PduRecv(a) ==
  /\ a \notin crashed /\ queue[a] # <<>>
  /\ queue' = [queue EXCEPT ![a] = Tail(@)]
  /\ LET m == Head(queue[a])
         blank == Min({i \in DOMAIN m : m[i] = ""} \cup {Len(m) + 1})
     IN IF Socket(a) = "SUB"
          THEN pdu' = [pdu EXCEPT ![a] = [NewPdu EXCEPT !.frames = ExtendedBy(<<>>, m)]] /\ UNCHANGED crashed
        ELSE IF blank > 2
          THEN crashed' = crashed \cup {a} /\ UNCHANGED pdu
        ELSE /\ pdu' = [pdu EXCEPT ![a] =
                  [NewPdu EXCEPT !.address = IF blank = 2 THEN m[1] ELSE NULL,
                                 !.frames = ExtendedBy(<<>>, SubSeq(m, blank + 1, Len(m)))]]
             /\ UNCHANGED crashed
  /\ intended' = [intended EXCEPT ![a] = IF @ = <<>> THEN @ ELSE Tail(@)]
  /\ UNCHANGED <<pattern, partial, spoiled>>

PduNext ==
  \E a \in Peers :
    \/ PduNew(a) \/ PduFree(a) \/ PduRecv(a)
    \/ \E d \in Data : PduMake(a, d) \/ PduExtend(a, d) \/ PduReply(a, d)
    \/ \E t \in {NULL} \cup Data, start \in 1..2, n \in 0..1 : PduDup(a, t, start, n)
    \/ \E peer \in {ClientId, "illegal"} : PduAttn(a, peer)
    \/ \E k \in 0..MaxFrames + 2 : PduSend(a, k)

PduSpec == PduInit /\ [][PduNext]_pduVars

-----------------------------------------------------------------------------
(* Properties                                                              *)

\* Only the last frame of a PDU is final, so that all its frames go out as one
\* message.
OneFinal == \A a \in Peers : pdu[a] # NULL =>
              \A i \in DOMAIN pdu[a].frames : pdu[a].frames[i].final <=> i = Len(pdu[a].frames)

\* What a peer receives is what the other's PDU said when it was sent, from
\* the client that sent it, and no assertion fails, unless some PDU went out
\* only in part or with no frames, or a client gave its own one an address
\* (src/mq.c:393-407, 477-550).
PduRight ==
  [][/\ OneFinal'
     /\ \A a \in Peers : PduRecv(a) /\ Other(a) \notin spoiled =>
          \/ Socket(a) = "ROUTER" /\ Head(intended[a]).address # NULL
          \/ /\ intended[a] # <<>> /\ a \notin crashed'
             /\ DataOf(pdu[a]'.frames) = Head(intended[a]).frames
             /\ pdu[a]'.address = IF Socket(a) = "ROUTER" THEN ClientId ELSE NULL]_pduVars
=============================================================================
