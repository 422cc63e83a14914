------------------------------ MODULE MCServer ------------------------------
(* Small instances of Server for TLC: c1 and c3 stream, c2 sends two       *)
(* prompts and c4 asks for the metrics.                                    *)
EXTENDS Server, TLC

CONSTANTS c1, c2, c3, c4, r1, r2, r3, r4, x, y, z

Pair == [r \in {r1, r2, r3} |-> IF r = r1 THEN c1 ELSE c2]
TwoStreams == [r \in {r1, r4} |-> IF r = r1 THEN c1 ELSE c3]
OneStream == [r \in {r1} |-> c1]

\* Completions are short: their text is read only when it is whole.
TwoEach == [r \in Requests |-> IF Owner[r] \in Streams THEN 2 ELSE 1]
OneButLast == [r \in Requests |-> IF r = r3 THEN 0 ELSE 1]
NoChunks == [r \in Requests |-> 0]

\* One token to grow, one to begin a stop string, one to complete it.
ThreeEach == [r \in Requests |-> 3]

\* A text that grows by two glyphs, and the rewriting of its first.
Rewritten == {<<>>, <<x>>, <<x, y>>, <<y>>}

\* A text that grows by up to three glyphs.
Growing == {<<>>, <<x>>, <<x, y>>, <<x, y, z>>}

=============================================================================
