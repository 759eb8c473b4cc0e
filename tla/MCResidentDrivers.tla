--------------------------- MODULE MCResidentDrivers ---------------------------
(***************************************************************************)
(* Two threads share a document of 10 bytes with three records under one   *)
(* path, two under another, and a third that its scan rejects.             *)
(***************************************************************************)
EXTENDS ResidentDrivers

RecordsOnPath == [short |-> 2, long |-> 3, bad |-> ScanFails]

Setting(path, bytes, records) ==
    [path |-> path, parallel_threshold |-> bytes, min_records |-> records]

\* Both thresholds just met, one byte short, one record short, a rejected path.
Settings ==
    {Setting("short", 10, 2), Setting("long", 11, 0), Setting("long", 0, 4), Setting("bad", 0, 0)}
===============================================================================
