---------------------------- MODULE MCPlaintext ----------------------------
(***************************************************************************)
(* An outbox of up to two rows: any short text, then one of a few.         *)
(***************************************************************************)
EXTENDS Plaintext

MaxLength == 5

Texts == UNION {[1..n -> Unit] : n \in 0..MaxLength}

Row(text, nonce, fits) == [text |-> text, nonce |-> nonce, nonceFits |-> fits]

Second == {Row(<<"stray", "ascii", "ascii">>, 1, TRUE),
           Row(<<"stray", "ascii">>, 2, TRUE),
           Row(<<"stray", "control">>, 2, FALSE),
           Row(<<"stray">>, 2, TRUE)}

MCBatch == {<<>>} \cup {<<Row(t, 1, TRUE), r>> : t \in Texts, r \in Second}
=============================================================================
