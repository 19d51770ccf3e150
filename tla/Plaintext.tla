----------------------------- MODULE Plaintext -----------------------------
(***************************************************************************)
(* src/scripts/verify-no-plaintext.js: the administrator's check that the  *)
(* queue holds ciphertext only.  It reads the outbox once and goes through *)
(* the rows, byte by byte; the schema, the event log and the search for a  *)
(* phrase in the files are plain reads and are left out.                   *)
(*                                                                         *)
(* A ciphertext is a sequence of units: a character of one or more bytes,  *)
(* or a stray byte that makes the whole invalid as UTF-8.  All bytes of a  *)
(* character other than "ascii" lie outside 0x20..0x7e.                    *)
(***************************************************************************)
EXTENDS Integers, FiniteSets, SequencesExt

CONSTANTS
    Batch,      \* what the outbox may hold: sequences of rows
    Nonce,      \* nonce values
    MacBytes,   \* 16, what crypto_box adds to any text
    RunLimit    \* PRINTABLE_RUN_LIMIT, 16

\* "letter" counts as readable (Hangul, CJK, kana), "symbol" does not: Cyrillic,
\* accents, emoji, ...
Unit == {"ascii", "control", "letter", "symbol", "stray"}

OutboxRow == [text : Seq(Unit), nonce : Nonce, nonceFits : BOOLEAN]

ASSUME BatchAssumption == Batch \subseteq Seq(OutboxRow)
ASSUME LimitAssumption == MacBytes \in Nat \ {0} /\ RunLimit \in Nat \ {0}

VARIABLES
    rows,       \* the SELECT over the outbox
    row,        \* index of the row at hand
    at,         \* units of it that were scanned
    current,    \* the local variables of longestPrintableRun
    best,
    flagged,    \* checkOutbox: rows found wrong, one of them perhaps twice
    failed,     \* createReport: lines [실패]
    ok,         \* the line "모두 암호문으로 보임" was written
    phase       \* "row", "scan", "nonces", "done"

plainVars == <<rows, row, at, current, best, flagged, failed, ok, phase>>

Text == rows[row].text

Count(units) == Cardinality({i \in DOMAIN Text : Text[i] \in units})

\* buffer.length; a letter takes three bytes of UTF-8, a symbol two or more.
Size == Len(Text) + 2 * Count({"letter"}) + Count({"symbol"})

Valid == Count({"stray"}) = 0

\* readableRatio >= TEXT_RATIO_LIMIT
Readable == Len(Text) > 0 /\ 10 * Count({"ascii", "letter"}) >= 7 * Len(Text)

\* Mutant of Counted: the run is not broken.
CountedOn(unit) == IF unit = "ascii" THEN current + 1 ELSE current

\* longestPrintableRun, one byte.
Counted(unit) == IF unit = "ascii" THEN current + 1 ELSE 0

\* Mutant of Suspicious: a valid text is judged by its ratio alone.
SuspiciousText == IF Valid THEN Readable ELSE best >= RunLimit

\* looksLikePlaintext
Suspicious == best >= RunLimit \/ (Valid /\ Readable)

\* Mutant of Flags: `flagged' is forgotten where the row is skipped.
FlagsLater == IF Size < MacBytes THEN 0 ELSE IF rows[row].nonceFits THEN 0 ELSE 1

\* checkOutbox, before the scan of a row: a ciphertext that is too short or
\* a nonce that is not 24 bytes long.
Flags == IF Size < MacBytes \/ ~rows[row].nonceFits THEN 1 ELSE 0

-----------------------------------------------------------------------------
PlaintextInit ==
    /\ rows \in Batch
    /\ row = 1
    /\ at = 0 /\ current = 0 /\ best = 0
    /\ flagged = 0 /\ failed = 0
    /\ ok = FALSE
    /\ phase = "row"

\* A row is taken up; too short a one is not scanned.
TakeRow ==
    LET short == Size < MacBytes
    IN  /\ phase = "row"
        /\ row <= Len(rows)
        /\ flagged' = flagged + Flags
        /\ failed' = failed + IF short \/ ~rows[row].nonceFits THEN 1 ELSE 0
        /\ row' = IF short THEN row + 1 ELSE row
        /\ phase' = IF short THEN "row" ELSE "scan"
        /\ at' = 0 /\ current' = 0 /\ best' = 0
        /\ UNCHANGED <<rows, ok>>

\* longestPrintableRun: the loop.
ScanUnit ==
    /\ phase = "scan"
    /\ at < Len(Text)
    /\ at' = at + 1
    /\ current' = Counted(Text[at + 1])
    /\ best' = IF current' > best THEN current' ELSE best
    /\ UNCHANGED <<rows, row, flagged, failed, ok, phase>>

\* looksLikePlaintext judges the row.
Judge ==
    /\ phase = "scan"
    /\ at = Len(Text)
    /\ flagged' = IF Suspicious THEN flagged + 1 ELSE flagged
    /\ failed' = IF Suspicious THEN failed + 1 ELSE failed
    /\ row' = row + 1
    /\ phase' = "row"
    /\ UNCHANGED <<rows, at, current, best, ok>>

\* checkOutbox, its last lines; an empty outbox is only a warning.
CloseOutbox ==
    /\ phase = "row"
    /\ row > Len(rows)
    /\ ok' = (rows # <<>> /\ flagged = 0)
    /\ phase' = "nonces"
    /\ UNCHANGED <<rows, row, at, current, best, flagged, failed>>

\* checkNonceReuse: COUNT(*) against COUNT(DISTINCT nonce).
CheckNonceReuse ==
    /\ phase = "nonces"
    /\ failed' = IF Cardinality({rows[i].nonce : i \in DOMAIN rows}) # Len(rows)
                 THEN failed + 1 ELSE failed
    /\ phase' = "done"
    /\ UNCHANGED <<rows, row, at, current, best, flagged, ok>>

PlaintextNext == TakeRow \/ ScanUnit \/ Judge \/ CloseOutbox \/ CheckNonceReuse

PlaintextSpec == PlaintextInit /\ [][PlaintextNext]_plainVars

-----------------------------------------------------------------------------
\* Units i to j of the row at hand are printable.
IsRun(i, j) == \A k \in i..j : Text[k] = "ascii"

\* The loop of longestPrintableRun (lines 52-64) knows the longest run of what
\* it has read, the one it is in the middle of included.
RunFound ==
    phase = "scan" =>
        /\ \A i, j \in 1..at : i <= j /\ IsRun(i, j) => j - i + 1 <= best
        /\ best > 0 => \E i, j \in 1..at : IsRun(i, j) /\ j - i + 1 = best

\* What the check promises of a row (lines 10-14), without the loop.
Fragment(text) ==
    \E i \in DOMAIN text : /\ i + RunLimit - 1 <= Len(text)
                           /\ \A k \in i..(i + RunLimit - 1) : text[k] = "ascii"

KoreanOrEnglish(text) ==
    /\ \A i \in DOMAIN text : text[i] # "stray"
    /\ 10 * Cardinality({i \in DOMAIN text : text[i] \in {"ascii", "letter"}}) >= 7 * Len(text)

Sealed(r) == r.nonceFits /\ ~Fragment(r.text) /\ ~KoreanOrEnglish(r.text)

\* Exit code 0 (lines 277-281) tells the administrator that no row holds a
\* fragment of plaintext or is a text as a whole, and no nonce was used twice.
ExitTells ==
    (phase = "done" /\ failed = 0) =>
        /\ \A i \in DOMAIN rows : Sealed(rows[i])
        /\ \A i, j \in DOMAIN rows : rows[i].nonce = rows[j].nonce => i = j

\* The line that says all rows look like ciphertext is not written over a row
\* that failed (comment in line 165), a skipped one included.
OkOverFailure == ok => failed = 0 \/ phase = "done"
=============================================================================
