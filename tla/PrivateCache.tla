---------------------------- MODULE PrivateCache ----------------------------
(***************************************************************************)
(* What the paged KV cache promises a request: a private memory that holds *)
(* the K/V of the request's own text, position by position, grows only at  *)
(* its end while the request lives, and vanishes when its pages go.  The   *)
(* K/V of a position is represented by the text up to that position.       *)
(***************************************************************************)
EXTENDS Integers, Sequences, SequencesExt

CONSTANTS Seqs, Prompts, Tokens

VARIABLES
    text,     \* the tokens of each request, <<>> if there is none
    memory    \* the valid positions of its cache

cacheVars == <<text, memory>>

KVOf(t, n) == [i \in 1 .. n |-> SubSeq(t, 1, i)]

Init ==
    /\ text = [s \in Seqs |-> <<>>]
    /\ memory = [s \in Seqs |-> <<>>]

Begin(s) ==
    /\ text[s] = <<>>
    /\ \E prompt \in Prompts : text' = [text EXCEPT ![s] = prompt]
    /\ UNCHANGED memory

\* The cache grows, by a forward pass or by claiming a stored prefix, and the
\* text may too; the last token of the text is never in memory.
Extend(s) ==
    /\ text[s] # <<>>
    /\ IsPrefix(text[s], text'[s])
    /\ text' = [text EXCEPT ![s] = text'[s]]
    /\ \E n \in Len(memory[s]) + 1 .. Len(text'[s]) - 1 :
            memory' = [memory EXCEPT ![s] = KVOf(text'[s], n)]

Release(s) ==
    /\ memory' = [memory EXCEPT ![s] = <<>>]
    /\ UNCHANGED text

Forget(s) ==
    /\ memory[s] = <<>>
    /\ text' = [text EXCEPT ![s] = <<>>]
    /\ UNCHANGED memory

Next == \E s \in Seqs : Begin(s) \/ Extend(s) \/ Release(s) \/ Forget(s)

Spec == Init /\ [][Next]_cacheVars

=============================================================================
