--------------------------- MODULE MCPagedForward ---------------------------
(* Small instances of PagedForward for TLC.                                *)
EXTENDS PagedForward, MCPagedRunner

\* Each request is served once: without Forget no client comes back.  The
\* instance stops when all requests have ended or the pool is exhausted.
ServeNext ==
    \E s \in Seqs :
        \/ AddRequest(s)
        \/ \E chunk \in 0 .. prompt_len[s] : Admit(s, chunk)
        \/ \E chunk \in 1 .. prompt_len[s] : SchedulePrefill(s, chunk)
        \/ \E lookahead \in 1 .. 1 + MaxDraft : ScheduleDecode(s, lookahead)
        \/ \E drafts \in Drafts : Forward(s, drafts)
        \/ Commit(s)
        \/ CommitSpeculative(s)
        \/ \E finish \in BOOLEAN : Postprocess(s, finish)
        \/ Abort(s)
        \/ \E torn \in BOOLEAN : Fail(s, torn)

ServeSpec == Init /\ [][ServeNext]_vars

=============================================================================
