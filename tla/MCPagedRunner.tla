--------------------------- MODULE MCPagedRunner ---------------------------
(* Small instances of PagedRunner for TLC.                                 *)
EXTENDS PagedRunner, TLC

CONSTANTS a, b

\* Two-token blocks, three pages: two requests fit only if they share a page.
SharedPrompts == {<<a, a, b>>}

\* One-token blocks: the same token hashes differently behind another parent,
\* and a parent can be evicted before its child.
ChainPrompts == {<<a, b>>, <<b, a>>}

\* A burst of two drafts behind the first output token crosses a page boundary.
ShortPrompts == {<<a, b>>}

\* Pages and requests are interchangeable.
Symmetry == Permutations(Seqs) \union Permutations(Pages)

=============================================================================
