------------------------------ MODULE MCSession ------------------------------
(***************************************************************************)
(* Two interfaces; the server announces both, or one of them, and sends    *)
(* every kind of command with every outcome.                               *)
(***************************************************************************)
EXTENDS Session

MCTable == { <<>>, <<"e1">>, <<"e1", "e2">> }

Hw(name, ip) == << [key |-> "HWINTERFACE", value |-> name],
                   [key |-> "HWSPEED", value |-> "ignored"],
                   [key |-> "HWETHER", value |-> "ignored"],
                   [key |-> "HWETHIP", value |-> ip] >>

MCCommand ==
    [type : {"VNS_AUTH_REQUEST", "VNS_AUTH_STATUS"}, ok : BOOLEAN]
      \cup
    [type : {"VNS_RTABLE"}, ok : {TRUE}, table : {<<"e1", "e2">>, Unreadable}]
      \cup
    { [type |-> "VNS_RTABLE", ok |-> FALSE],
      [type |-> "VNSHWINFO", hw |-> Hw("e1", "r1")],
      [type |-> "VNSHWINFO", hw |-> Hw("e1", "r1") \o Hw("e2", "r2")],
      [type |-> "VNSHWINFO", hw |-> <<Hw("e1", "r1")[3]>>],
      [type |-> "VNSPACKET", iface |-> "e2", long |-> TRUE, arpForOther |-> FALSE],
      [type |-> "VNSPACKET", iface |-> "e1", long |-> TRUE, arpForOther |-> TRUE],
      [type |-> "VNSPACKET", iface |-> "e1", long |-> FALSE, arpForOther |-> FALSE],
      [type |-> "VNSCLOSE"], [type |-> "VNSBANNER"], [type |-> "toolong"] }

\* Every interface comes with an address; only the command with a lone
\* hardware address has neither.
ASSUME MCSessionAssumption == HwInfoComplete
=============================================================================
