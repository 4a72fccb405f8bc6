------------------------------ MODULE Service -------------------------------
(***************************************************************************)
(* The whole client library on one queue: clients that start, work and     *)
(* close, readers of reports, and a Redis that may lose its scripts.       *)
(***************************************************************************)
EXTENDS Sessions, Reports

svars == <<vars, sessvars, repvars>>

SInit == Init /\ SessionInit /\ ReportsInit

SNext ==
  \/ Tick /\ UNCHANGED <<sessvars, repvars>>
  \/ ScriptsLost /\ UNCHANGED repvars
  \/ \E c \in Clients : SessionNext(c) /\ UNCHANGED repvars
  \/ \E o \in Readers : ReportNext(o) /\ UNCHANGED sessvars

SSpec == SInit /\ [][SNext]_svars

=============================================================================
