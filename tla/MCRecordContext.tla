--------------------------- MODULE MCRecordContext ---------------------------
EXTENDS RecordContext

(* States equal up to the naming of cells, as in MCTrieContext.            *)
MCView ==
    <<TC!Shown(ctx), [i \in DOMAIN snaps |-> TC!Shown(snaps[i])],
      [t \in TC!Tries |-> {i \in DOMAIN snaps : snaps[i][t] = ctx[t]}],
      views, reverted, committed>>
=============================================================================
