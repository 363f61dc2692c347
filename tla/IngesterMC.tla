----------------------------- MODULE IngesterMC -----------------------------
(***************************************************************************)
(* The instance of Ingester: a batch, a single ingest of one of its        *)
(* records, and a server without Redis.                                    *)
(***************************************************************************)
EXTENDS Ingester

Record(source, ext) ==
    [source |-> source, ext |-> ext, valid |-> TRUE, storable |-> TRUE]
Invalid == [Record("s", "") EXCEPT !.valid = FALSE]
TooLong(source, ext) == [Record(source, ext) EXCEPT !.storable = FALSE]

\* The batch repeats its own first record; another ingest of that one has a
\* counterparty that its column does not hold, and bare races for the second.
\* bankfile, which recon upload names as its source, is what no UUID column takes.
RacingRequests == {"batch", "single", "bare"}
Racing == [batch |-> <<Record("s", "e1"), Record("s", "e2"), Record("s", "e1")>>,
           single |-> <<TooLong("s", "e1")>>,
           bare |-> <<Record("s", "e2"), Invalid, Record("bankfile", "e1")>>]
RacingWithRedis == {"batch", "single"}
KnownSources == {"s"}
=============================================================================
