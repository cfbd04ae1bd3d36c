----------------------------- MODULE MCServices -----------------------------
(***************************************************************************)
(* The parts of the library that talk to other processes, threads, peers   *)
(* and files, each checked by itself in one run for TLC, as those of       *)
(* MCLibrary are.                                                          *)
(***************************************************************************)
EXTENDS Pdu, Zap, Reactor, Runner, Daemon, Config, Cert

CONSTANTS d1, d2, d3, w2, b1, s1, i1

VARIABLE subject

-----------------------------------------------------------------------------
(* Values of constants                                                     *)

\* Pids of one, two and three digits; the last has no newline.
Pids == (d1 :> <<"1">>) @@ (d2 :> <<"2", "3">>) @@ (d3 :> <<"4", "5", "6">>)

NamesAndChars == {"PWD", "HOME", "LOGNAME", "USER", "PATH", "TERM", "X", "Y", "Z",
                  "1", "2", "3", "4", "5", "6", "\n"}

Environments == (d1 :> <<"PATH", "X", "TERM">>) @@ (d2 :> <<"X", "Y", "Z", "PATH">>)
                  @@ (d3 :> <<"HOME", "PATH", "X">>)

\* w2 is written as something that reads as w1.
TrimsTo == [v \in ConfValues |-> IF v = w2 THEN NoIdent ELSE v]

CertForms == {[key |-> b1, upper |-> FALSE], [key |-> s1, upper |-> TRUE],
              [key |-> "illegal", upper |-> FALSE], [key |-> "short", upper |-> FALSE]}
SameIdent == i1 :> i1

-----------------------------------------------------------------------------
(* One subject at a time                                                   *)

\* What is not the subject begins in one state.
Pinned(part, alone) == subject = part \/ alone

Init ==
  /\ subject \in {"pdu", "zap", "reactor", "runner", "daemon", "config", "cert"}
  /\ ReactorInit /\ DaemonInit /\ ConfigInit /\ CertInit
  /\ PduInit /\ Pinned("pdu", pattern = "dealer")
  /\ ZapInit /\ Pinned("zap", tdb = NULL)
  /\ RunnerInit /\ Pinned("runner", caller = 0)

Stays(part, vars) == IF subject = part THEN TRUE ELSE UNCHANGED vars
Others ==
  /\ Stays("pdu", pduVars) /\ Stays("zap", zapVars) /\ Stays("reactor", reactorVars)
  /\ Stays("runner", runnerVars) /\ Stays("daemon", daemonVars)
  /\ Stays("config", configVars) /\ Stays("cert", certVars)
  /\ UNCHANGED subject

Next ==
  \/ subject = "pdu" /\ PduNext /\ Others
  \/ subject = "zap" /\ ZapNext /\ Others
  \/ subject = "reactor" /\ ReactorNext /\ Others
  \/ subject = "runner" /\ RunnerNext /\ Others
  \/ subject = "daemon" /\ DaemonNext /\ Others
  \/ subject = "config" /\ ConfigNext /\ Others
  \/ subject = "cert" /\ CertNext /\ Others

servicesVars == <<subject, pduVars, zapVars, reactorVars, runnerVars, daemonVars,
                  configVars, certVars>>

\* The fairness of a part is asked of it while it is the subject.
Spec ==
  /\ Init /\ [][Next]_servicesVars
  /\ subject = "zap" => ZapFairness
  /\ subject = "reactor" => ReactorFairness

-----------------------------------------------------------------------------
(* Properties of several modules                                           *)

\* Every part keeps its types.
ServicesTypeOK ==
  /\ PduTypeOK /\ ZapTypeOK /\ ReactorTypeOK /\ RunnerTypeOK /\ DaemonTypeOK
  /\ ConfigTypeOK /\ CertTypeOK
=============================================================================
