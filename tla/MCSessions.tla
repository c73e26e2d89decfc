----------------------------- MODULE MCSessions -----------------------------
(***************************************************************************)
(* Messages and ScanLogin for TLC.  They share no table, no key and no     *)
(* call: a behaviour of the server is one of each side by side, and what   *)
(* it shows of one is what that one shows alone.  TLC follows them one at  *)
(* a time; part says which.                                                *)
(***************************************************************************)
EXTENDS Messages, ScanLogin

CONSTANTS a, b

VARIABLE part

MCUsers == {a, b}
MCManagers == {a}
MCSender == [m \in 1..Last |-> IF m = 1 THEN a ELSE b]

sessionVars == <<messageVars, scanVars, part>>

InScan(A) == part = "scan" /\ A /\ UNCHANGED <<messageVars, part>>

SessionsInit == MessagesInit /\ ScanInit /\ part \in {"messages", "scan"}

SessionsNext ==
  \/ part = "messages" /\ MessagesNext /\ UNCHANGED <<scanVars, part>>
  \/ InScan(ScanNext)

\* ScanFairness, while that part runs; the messages need none.
SessionsSpec ==
  /\ SessionsInit /\ [][SessionsNext]_sessionVars
  /\ \A p \in Polls : WF_sessionVars(InScan(Browser(p)))
  /\ \A h \in Handlers : WF_sessionVars(InScan(SendQRCodeInfo(h)))
=============================================================================
