----------------------------- MODULE ToolMemory -----------------------------
(***************************************************************************)
(* The table from tool-call ids to the DSML text the model sampled for     *)
(* them (src/server/ds4_server.c, struct tool_memory).  Entries form a     *)
(* least-recently-used list; all ids of one generation share one reference *)
(* counted block of text, found by its text.  The table is a record, its   *)
(* operations are functions of it: every one runs under tool_mu.           *)
(***************************************************************************)
EXTENDS Naturals, FiniteSets, Sequences, SequencesExt

CONSTANTS
  Ids,          \* tool-call ids
  Blocks,       \* DSML texts
  NoBlock,      \* the NULL pointer
  Limits,       \* [entries, bytes]: --tool-memory-max-ids, tool_memory_max_bytes()
  EntryBytes,   \* e->bytes, the same for every id
  BlockBytes    \* b->bytes, the same for every text

ASSUME TableAssumption ==
  /\ IsFiniteSet(Ids) /\ IsFiniteSet(Blocks) /\ NoBlock \notin Blocks
  /\ Limits \subseteq [entries : Nat \ {0}, bytes : Nat \ {0}]
  /\ EntryBytes \in Nat \ {0} /\ BlockBytes \in Nat \ {0}

\* lru is the list from head to tail, blockOf the by_id tree, blocks the by_block
\* tree, chain[b] the list b->entries.
EmptyTable(limit) ==
  [ limit   |-> limit,
    lru     |-> <<>>,
    blockOf |-> [i \in Ids |-> NoBlock],
    source  |-> [i \in Ids |-> "disk"],
    blocks  |-> {},
    refs    |-> [b \in Blocks |-> 0],
    chain   |-> [b \in Blocks |-> <<>>],
    entries |-> 0,
    bytes   |-> 0 ]

Known(m, id) == m.blockOf[id] # NoBlock

\* The counters are size_t and int: the code clips them at zero.
Less(n, k) == IF n >= k THEN n - k ELSE 0

Without(s, id) == RemoveFirst(s, id)

\* tool_memory_touch(): the entry becomes the head of the list.
Touch(m, id) == [m EXCEPT !.lru = <<id>> \o Without(@, id)]

\* A release that leaves the block in the by_block tree.
ReleaseBlockDangling(m, b) ==
  IF m.refs[b] > 1
  THEN [m EXCEPT !.refs[b] = @ - 1]
  ELSE [m EXCEPT !.refs[b] = 0, !.bytes = Less(@, BlockBytes)]

\* tool_memory_release_block_locked(): the last reference frees the block.
ReleaseBlock(m, b) ==
  IF m.refs[b] > 1
  THEN [m EXCEPT !.refs[b] = @ - 1]
  ELSE [m EXCEPT !.refs[b] = 0,
                 !.blocks  = @ \ {b},
                 !.bytes   = Less(@, BlockBytes)]

\* tool_memory_remove_entry_locked()
RemoveEntry(m, id) ==
  LET b == m.blockOf[id]
  IN  ReleaseBlock([m EXCEPT !.lru        = Without(@, id),
                             !.blockOf[id] = NoBlock,
                             !.chain[b]   = Without(@, id),
                             !.bytes      = Less(@, EntryBytes),
                             !.entries    = Less(@, 1)], b)

OverBounds(m) == m.entries > m.limit.entries \/ m.bytes > m.limit.bytes

\* tool_memory_prune_locked(): the tail goes while the table is too large.  The
\* loop runs at most once for each entry.
Prune(m) ==
  FoldLeft(LAMBDA t, i : IF OverBounds(t) /\ t.lru # <<>> THEN RemoveEntry(t, Last(t.lru)) ELSE t,
           m, m.lru)

\* tool_memory_get_block_locked(): the block with this text, created if needed.
GetBlock(m, b) ==
  IF b \in m.blocks THEN m
  ELSE [m EXCEPT !.blocks = @ \cup {b}, !.bytes = @ + BlockBytes]

\* The entry of an id that has none.
NewEntry(m, id, b, src) ==
  LET t == GetBlock(m, b)
  IN  [t EXCEPT !.lru         = <<id>> \o @,
                !.blockOf[id] = b,
                !.source[id]  = src,
                !.chain[b]    = <<id>> \o @,
                !.refs[b]     = @ + 1,
                !.entries     = @ + 1,
                !.bytes       = @ + EntryBytes]

\* A put that does not prune.
PutUnpruned(m, id, b, src) ==
  IF m.blockOf[id] = b THEN Touch(m, id)
  ELSE NewEntry(IF Known(m, id) THEN RemoveEntry(m, id) ELSE m, id, b, src)

\* tool_memory_put_locked()
Put(m, id, b, src) ==
  LET same == m.blockOf[id] = b
      kept == [m EXCEPT !.source[id] = IF src = "ram" THEN "ram" ELSE @]
      freed == IF Known(m, id) THEN RemoveEntry(m, id) ELSE m
  IN  Prune(IF same THEN Touch(kept, id) ELSE NewEntry(freed, id, b, src))

\* tool_memory_remember(): all ids of one generation, with its text.
RememberAll(m, ids, b) == FoldLeft(LAMBDA t, i : Put(t, i, b, "ram"), m, ids)

\* tool_memory_attach_to_messages() for one message with the calls ids: every
\* id it knows is touched; the text is attached if all are known and share it.
TouchAll(m, ids) == FoldLeft(LAMBDA t, i : IF Known(t, i) THEN Touch(t, i) ELSE t, m, ids)

Attached(m, ids) ==
  IF ids # <<>> /\ \A i \in ToSet(ids) : Known(m, i) /\ m.blockOf[i] = m.blockOf[ids[1]]
  THEN m.blockOf[ids[1]] ELSE NoBlock

\* A block found in the text adds the ids of its entries, once.
WriteBlock(m, map, b) ==
  IF b \in m.blocks /\ \A k \in 1..Len(map) : map[k].block # b
  THEN map \o [i \in 1..Len(m.chain[b]) |-> [id |-> m.chain[b][i], block |-> b]]
  ELSE map

\* The records kv_tool_map_write() writes for a text with these blocks, in the
\* order of the text, the ids of a block in the order of b->entries.
MapOf(m, text) == FoldLeft(LAMBDA map, b : WriteBlock(m, map, b), <<>>, text)

-----------------------------------------------------------------------------

EntriesOf(m, b) == {i \in Ids : m.blockOf[i] = b}
Entries(m) == {i \in Ids : Known(m, i)}

\* The reference counts, the lists and the two trees describe the same set of
\* entries, and the counters are exact: no block is freed while an id still
\* leads to it, none is leaked.
Consistent(m) ==
  /\ IsInjective(m.lru) /\ ToSet(m.lru) = Entries(m)
  /\ \A b \in Blocks :
       /\ IsInjective(m.chain[b]) /\ ToSet(m.chain[b]) = EntriesOf(m, b)
       /\ m.refs[b] = Cardinality(EntriesOf(m, b))
       /\ (b \in m.blocks) = (m.refs[b] > 0)
  /\ m.entries = Cardinality(Entries(m))
  /\ m.bytes = EntryBytes * m.entries + BlockBytes * Cardinality(m.blocks)

\* The bounds hold whenever the lock is free.
Bounded(m) == ~OverBounds(m)
=============================================================================
