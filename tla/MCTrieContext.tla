---------------------------- MODULE MCTrieContext ----------------------------
EXTENDS TrieContext

(* Two of PocContext's fields, in the order Root hashes them.  Every      *)
(* operation treats each field alike and apart from the others, so two    *)
(* fields show every way one field's pointer can meet another's.           *)
MCPocTries == <<"epoch", "contribution">>
(* States equal up to the naming of cells: the contents, and for each     *)
(* field the snapshots whose trie object the context shares.               *)
MCView ==
    <<Shown(ctx), [i \in DOMAIN snaps |-> Shown(snaps[i])],
      [t \in Tries |-> {i \in DOMAIN snaps : snaps[i][t] = ctx[t]}],
      views, reverted, committed>>
=============================================================================
