--------------------------- MODULE MCReportParser ---------------------------
(***************************************************************************)
(* A small instance of ReportParser: two of the data, and items like those *)
(* of the descriptors in docs/.                                            *)
(***************************************************************************)
EXTENDS ReportParser

G(t, bytes) == [type |-> "Global", tag |-> t, bytes |-> bytes]
U(u) == [type |-> "Local", tag |-> "Usage", bytes |-> <<u>>]
M(t) == [type |-> "Main", tag |-> t, bytes |-> <<162>>]

\* Remaining capacity and run time to empty.
MCUsages == << <<133, 102>>, <<133, 104>> >>

Any == {U(102), U(104), M("Input"), M("Feature"),
        G("ReportID", <<2>>), G("ReportSize", <<16>>),
        G("UsagePage", <<132>>), G("LogicalMin", <<255, 255>>), G("PhysicalMax", <<100>>)}

MCItemsAt ==
    << {G("UsagePage", <<133>>)}, {G("ReportID", <<1>>)},
       {G("ReportSize", <<1>>), G("ReportSize", <<8>>)}, {G("ReportCount", <<1>>)},
       {G("PhysicalMin", <<0>>)},
       {G("LogicalMax", <<100>>), G("LogicalMax", <<255, 255, 0, 0>>), G("PhysicalMax", <<0>>)},
       Any, Any, Any, Any, Any >>

MCReports == {[id |-> 1, bytes |-> <<165, 90, 255>>], [id |-> 2, bytes |-> <<254, 1, 128>>]}
=============================================================================
