------------------------------ MODULE BankFile ------------------------------
(***************************************************************************)
(* ParseFile of the bank file adapter (internal/adapter/bankfile.go and    *)
(* bankfile_camt053.go): the loop over the lines of an MT940 statement     *)
(* block, and the loop over the entries of a CAMT.053 document.            *)
(*                                                                         *)
(* A file is read line by line (entry by entry) and may be any sequence of *)
(* the kinds below.  A line is named by its number.  An entry keeps the    *)
(* number of its :61: and those of the lines that make its details; what   *)
(* the fields say is left out.                                             *)
(***************************************************************************)
EXTENDS Integers, Sequences, FiniteSets

CONSTANT MaxLines  \* bound on the lines of a file

\* "60F": an opening balance that holds a currency.  "61", "61bad": an entry
\* that parses and one that does not.  "tag": any other field, or an opening
\* balance too short for a currency.  "end": the end of a block.
Kinds == {"60F", "61", "61bad", "86", "tag", "text", "blank", "end"}
Formats == {"mt940", "camt053"}

VARIABLES
    format, file,      \* what is read: its format, and the kinds read so far
    currency,          \* whether stmt.currency is set
    field86Lines, pendingTx, transactions, blockWarnings,   \* of the block
    allTxns, warnings,
    result             \* "none", "ok" or "error"

vars == <<format, file, currency, field86Lines, pendingTx, transactions,
          blockWarnings, allTxns, warnings, result>>
block == <<currency, field86Lines, pendingTx, transactions, blockWarnings>>

\* What the instances assume of the constants.
LinesAssumption == MaxLines \in Nat

-----------------------------------------------------------------------------
Tx(entry, details) == [entry |-> entry, details |-> details]
n == Len(file) + 1                       \* the number of the line being read
Reads(k) ==
    /\ result = "none" /\ format = "mt940" /\ Len(file) < MaxLines
    /\ file' = Append(file, k)
    /\ UNCHANGED <<format, result>>
InBlock == UNCHANGED <<allTxns, warnings>>

\* flushTx: no entry is 0.
Flushed == IF pendingTx = 0 THEN transactions
           ELSE Append(transactions, Tx(pendingTx, field86Lines))

\* A plausible slip: the details stay after the entry is flushed.
Kept86Always == field86Lines
Kept86 == IF pendingTx = 0 THEN field86Lines ELSE {}

OpeningBalance ==
    /\ Reads("60F") /\ currency' = TRUE
    /\ InBlock /\ UNCHANGED <<field86Lines, pendingTx, transactions, blockWarnings>>

Entry ==
    /\ Reads("61")
    /\ transactions' = Flushed /\ field86Lines' = Kept86
    /\ pendingTx' = n
    /\ InBlock /\ UNCHANGED <<currency, blockWarnings>>

RefusedEntry ==
    /\ Reads("61bad")
    /\ transactions' = Flushed /\ field86Lines' = Kept86
    /\ pendingTx' = 0
    /\ blockWarnings' = blockWarnings \cup {n}
    /\ InBlock /\ UNCHANGED currency

Details ==
    /\ Reads("86") /\ field86Lines' = {n}
    /\ InBlock /\ UNCHANGED <<currency, pendingTx, transactions, blockWarnings>>

OtherField == Reads("tag") /\ InBlock /\ UNCHANGED block

Continuation(k) ==
    /\ Reads(k)
    /\ IF pendingTx # 0 /\ field86Lines # {}
       THEN field86Lines' = field86Lines \cup {n} /\ UNCHANGED blockWarnings
       ELSE /\ blockWarnings' = blockWarnings \cup (IF k = "text" THEN {n} ELSE {})
            /\ UNCHANGED field86Lines
    /\ InBlock /\ UNCHANGED <<currency, pendingTx, transactions>>

\* A plausible slip: what is pending at the end of the block is forgotten.
EndOfBlockUnflushed ==
    /\ Reads("end")
    /\ IF currency
       THEN /\ allTxns' = allTxns \o transactions
            /\ warnings' = warnings \cup blockWarnings
       ELSE /\ warnings' = warnings \cup {n}
            /\ UNCHANGED allTxns
    /\ currency' = FALSE /\ field86Lines' = {} /\ pendingTx' = 0
    /\ transactions' = <<>> /\ blockWarnings' = {}

\* The last flush; a block without a currency is warned of and dropped, and
\* its own warnings with it.
EndOfBlock ==
    /\ Reads("end")
    /\ IF currency
       THEN /\ allTxns' = allTxns \o Flushed
            /\ warnings' = warnings \cup blockWarnings
       ELSE /\ warnings' = warnings \cup {n}
            /\ UNCHANGED allTxns
    /\ currency' = FALSE /\ field86Lines' = {} /\ pendingTx' = 0
    /\ transactions' = <<>> /\ blockWarnings' = {}

\* An entry of a CAMT.053 statement: refused when its amount, its indicator or
\* its date does not parse.
CamtEntry(k) ==
    /\ result = "none" /\ format = "camt053" /\ Len(file) < MaxLines
    /\ file' = Append(file, k)
    /\ IF k = "61"
       THEN allTxns' = Append(allTxns, Tx(n, {n})) /\ UNCHANGED warnings
       ELSE warnings' = warnings \cup {n} /\ UNCHANGED allTxns
    /\ UNCHANGED <<format, block, result>>

\* The end of the file.  isMT940 asks for an opening balance somewhere in it,
\* which may be one too short.
Finish ==
    /\ result = "none"
    /\ format = "mt940" => /\ file # <<>> /\ file[Len(file)] = "end"
                           /\ \E i \in DOMAIN file : file[i] \in {"60F", "tag"}
    /\ result' = IF allTxns = <<>> /\ warnings # {} THEN "error" ELSE "ok"
    /\ UNCHANGED <<format, file, block, allTxns, warnings>>

-----------------------------------------------------------------------------
Init ==
    /\ format \in Formats /\ file = <<>>
    /\ currency = FALSE /\ field86Lines = {} /\ pendingTx = 0
    /\ transactions = <<>> /\ blockWarnings = {}
    /\ allTxns = <<>> /\ warnings = {} /\ result = "none"

ReadLine ==
    \/ OpeningBalance \/ Entry \/ RefusedEntry \/ Details \/ OtherField
    \/ \E k \in {"text", "blank"} : Continuation(k)
    \/ EndOfBlock

Next == ReadLine \/ (\E k \in {"61", "61bad"} : CamtEntry(k)) \/ Finish

Spec == Init /\ [][Next]_vars

-----------------------------------------------------------------------------
Lines(k) == {i \in DOMAIN file : file[i] = k}
Returned == {allTxns[i].entry : i \in DOMAIN allTxns}
BlockEnd(i) == CHOOSE e \in Lines("end") :
    i <= e /\ \A d \in Lines("end") : i <= d => e <= d

\* Nothing is lost on the way: once a file is read, each of its entries was
\* returned, in the order of the file and once, or is warned of, itself or with
\* its block.  (parseMT940, parseMT940Block and parseCAMT053.)
EntriesAccounted ==
    result # "none" =>
        /\ \A i, j \in DOMAIN allTxns : i < j => allTxns[i].entry < allTxns[j].entry
        /\ Returned \subseteq Lines("61")
        /\ \A i \in (Lines("61") \cup Lines("61bad")) \ Returned :
              i \in warnings \/ (format = "mt940" /\ BlockEnd(i) \in warnings)

Marks == Lines("61") \cup Lines("61bad") \cup Lines("end")
LastMark(d) == {k \in Marks : k < d /\ \A m \in Marks : m < d => m <= k}

\* No two entries share a line of details.  An entry's details come after it and
\* before the next entry, except those read while no entry was pending, at the
\* head of a block or after a refused entry: they pass to the first entry that
\* parses.  (The closure flushTx and the three lists it resets.)
DetailsAreOwn ==
    format = "mt940" =>
        \A i \in DOMAIN allTxns : \A d \in allTxns[i].details :
            LET e == allTxns[i].entry
            IN /\ \A j \in DOMAIN allTxns \ {i} : d \notin allTxns[j].details
               /\ \/ LastMark(d) = {e}
                  \/ /\ d < e
                     /\ \A k \in LastMark(d) : file[k] # "61"
                     /\ \A k \in Marks : d < k /\ k < e => file[k] = "61bad"
=============================================================================
