---------------------------- MODULE MCGatewayApi ----------------------------
(***************************************************************************)
(* Instances of GatewayApi for TLC: one caller is there from the start, a  *)
(* second is added, after an environment nobody can boot with, and then    *)
(* the first one may no longer submit what it submitted before.            *)
(***************************************************************************)
EXTENDS GatewayApi

CONSTANTS i1, i2, s1, s2, k1, k2, r1, r2, consumer

Hash(key) == [digest |-> key, upper |-> FALSE]

Rate(window) == [requests |-> 1, window |-> window]

Expense(hash, docTypes) ==
    [name |-> "expense", hash |-> hash, rate |-> Rate(1), docTypes |-> docTypes]

Hr(key, rate) == [name |-> "hr", hash |-> Hash(key), rate |-> rate, docTypes |-> ("invoice" :> "invoice@1")]

\* A caller alone; a text with a window nobody can parse; and a text with a second
\* caller, in which the first one's hash is in capitals and its doc_type the second one's.
MCEnvironments ==
    << << Expense(Hash(k1), "receipt" :> "receipt@1") >>,
       << Expense(Hash(k1), "receipt" :> "receipt@1"), Hr(k2, Rate(Malformed)) >>,
       << Hr(k2, Rate(1)), Expense([Hash(k1) EXCEPT !.upper = TRUE], "invoice" :> "invoice@1") >> >>

\* The second caller is added with the first one's key.
CopiedKey ==
    << << Expense(Hash(k1), "receipt" :> "receipt@1") >>,
       << Expense(Hash(k1), "receipt" :> "receipt@1"),
          [Hr(k1, Rate(1)) EXCEPT !.docTypes = ("receipt" :> "receipt@1")] >> >>

Complete(name, key, docType) ==
    [name |-> name, key |-> key, docType |-> docType, source |-> TRUE, fields |-> TRUE]

\* A receipt of the first caller and an invoice of the second.
MCRequest == i1 :> Complete("expense", k1, "receipt") @@ i2 :> Complete("hr", k2, "invoice")

Extracted(name, status, bbox) ==
    [name |-> name, value |-> "text", amount |-> 100, currency |-> "IDR", confidence |-> 90,
     status |-> status, page |-> 1, bbox |-> bbox]

\* A field with a box and one without, and what is wrong with the second.
Completed ==
    [status |-> "COMPLETED",
     result |-> [schemaVersion |-> "receipt@1", avgConfidence |-> 45,
                 fields |-> << Extracted("total", "EXTRACTED", [x1 |-> 1, y1 |-> 2, x2 |-> 3, y2 |-> 4]),
                               Extracted("date", "MISSING", Nil) >>,
                 issues |-> << [code |-> "FIELD_MISSING", field |-> "date", detail |-> "no date"] >>],
     error  |-> Nil]

Failed == [status |-> "FAILED", result |-> Nil, error |-> [code |-> "FILE_CORRUPT", message |-> "unreadable"]]

MCOutcomes == i1 :> {Completed} @@ i2 :> {Failed}

\* Replicas are interchangeable, and so are slots.
Symmetry == Permutations(Replica) \cup Permutations(Slot)
=============================================================================
