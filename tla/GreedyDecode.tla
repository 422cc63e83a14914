---------------------------- MODULE GreedyDecode ----------------------------
(***************************************************************************)
(* What decoding promises a client: the text of a request grows by tokens  *)
(* that the model predicts for exactly the text before them, up to its     *)
(* first terminal token or its limit.  How many tokens come at a time is   *)
(* left open.  A request that samples may get any tokens.                  *)
(***************************************************************************)
EXTENDS Integers, Sequences, SequencesExt

CONSTANTS
    Seqs, Prompts, MaxTokens,
    Greedy,         \* requests with temperature 0
    Terminals,      \* the terminal tokens of each request
    Models,         \* the models that may have been loaded
    Argmax(_, _)    \* the token that a model predicts after a text

VARIABLES
    model,       \* the loaded model
    text,        \* prompt and output of each request, <<>> if there is none
    prompt_len

decodeVars == <<model, text, prompt_len>>

Init ==
    /\ model \in Models
    /\ text = [s \in Seqs |-> <<>>]
    /\ prompt_len = [s \in Seqs |-> 0]

Begin(s) ==
    /\ text[s] = <<>>
    /\ \E prompt \in Prompts :
        /\ text' = [text EXCEPT ![s] = prompt]
        /\ prompt_len' = [prompt_len EXCEPT ![s] = Len(prompt)]
    /\ UNCHANGED model

Emit(s) ==
    /\ text[s] # <<>>
    /\ IsStrictPrefix(text[s], text'[s])
    /\ text' = [text EXCEPT ![s] = text'[s]]
    /\ Len(text'[s]) <= prompt_len[s] + MaxTokens
    /\ \A i \in prompt_len[s] + 1 .. Len(text'[s]) - 1 : text'[s][i] \notin Terminals[s]
    /\ s \in Greedy =>
        \A i \in Len(text[s]) + 1 .. Len(text'[s]) :
            text'[s][i] = Argmax(model, SubSeq(text'[s], 1, i - 1))
    /\ UNCHANGED <<model, prompt_len>>

End(s) ==
    /\ text' = [text EXCEPT ![s] = <<>>]
    /\ prompt_len' = [prompt_len EXCEPT ![s] = 0]
    /\ UNCHANGED model

Next == \E s \in Seqs : Begin(s) \/ Emit(s) \/ End(s)

Spec == Init /\ [][Next]_decodeVars

=============================================================================
