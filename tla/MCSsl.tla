-------------------------------- MODULE MCSsl --------------------------------
(***************************************************************************)
(* The lengths of records for TLC.  The second and the last flight and a   *)
(* long data record take more than one segment.                            *)
(***************************************************************************)
EXTENDS Ssl

MCLength ==
    [k \in Kinds |-> CASE k \in {"flight2", "flight4"} -> 3
                      [] k = "long" -> 4
                      [] OTHER -> 1]

MCMaxRecords == [client |-> 1, server |-> 2]
=============================================================================
