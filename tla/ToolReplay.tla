----------------------------- MODULE ToolReplay -----------------------------
(***************************************************************************)
(* Exact replay of tool calls.  The worker remembers what the model        *)
(* sampled under fresh ids and saves the ids of a text with its cache file *)
(* (kv_tool_map_write(), kv_cache_rewrite_tool_map()); a client thread that *)
(* parses a request reads all cache files for the ids of its messages and  *)
(* then asks the table for their texts.  Readers and the worker share the   *)
(* table under tool_mu and the files without any lock.                     *)
(***************************************************************************)
EXTENDS ToolMemory

CONSTANTS
  Clients,      \* client threads
  Files,        \* names of cache files: one for each saved text
  TextOf,       \* the DSML blocks of the text a file is named after
  MaxCalls,     \* tool calls in one message
  MaxCrashes    \* bound: crashes of the process

ASSUME ReplayAssumption ==
  /\ TextOf \in [Files -> Seq(Blocks)]
  /\ MaxCalls \in Nat \ {0} /\ MaxCrashes \in Nat

VARIABLES
  mem,      \* server.tool_mem
  disk,     \* the cache files: the header's flag and the tool map's records
  worker,   \* what the worker is doing
  client,   \* what each client thread is doing
  sampled,  \* the text sampled under each id so far (observed)
  torn,     \* ids put with a text read after their file was cut short (observed)
  crashes

vars == <<mem, disk, worker, client, sampled, torn, crashes>>

NoFile == [flag |-> FALSE, count |-> 0, map |-> <<>>, exists |-> FALSE]
Idle == [pc |-> "idle"]

\* The messages a client may send: the ids of its tool calls.
Messages == {s \in UNION {[1..n -> Ids] : n \in 1..MaxCalls} : IsInjective(s)}

\* A message with fewer calls needs less of the files.
LongMessages == {s \in Messages : Len(s) = MaxCalls}

Init ==
  /\ \E limit \in Limits : mem = EmptyTable(limit)
  /\ disk = [f \in Files |-> NoFile]
  /\ worker = Idle
  /\ client = [c \in Clients |-> Idle]
  /\ sampled = [i \in Ids |-> NoBlock]
  /\ torn = {}
  /\ crashes = 0

-----------------------------------------------------------------------------
(* The worker. *)

\* Ids that are only checked against the table, as if drawn from a counter.
RememberReused(ids, b) ==
  /\ worker.pc = "idle"
  /\ \A i \in ToSet(ids) : ~Known(mem, i)
  /\ mem' = RememberAll(mem, ids, b)
  /\ sampled' = [i \in Ids |-> IF i \in ToSet(ids) THEN b ELSE sampled[i]]
  /\ UNCHANGED <<disk, worker, client, torn, crashes>>

\* assign_tool_call_ids() and tool_memory_remember(): 128 random bits, so an id
\* is never drawn twice.
Remember(ids, b) ==
  /\ worker.pc = "idle"
  /\ \A i \in ToSet(ids) : sampled[i] = NoBlock
  /\ mem' = RememberAll(mem, ids, b)
  /\ sampled' = [i \in Ids |-> IF i \in ToSet(ids) THEN b ELSE sampled[i]]
  /\ UNCHANGED <<disk, worker, client, torn, crashes>>

\* tool_memory_count_dsml_in_text()
CountDsml(text) == FoldLeft(LAMBDA n, b : n + IF b \in mem.blocks THEN mem.refs[b] ELSE 0, 0, text)

\* kv_cache_store_live_prefix() of a text that has no file: the flag is decided
\* before the payload is written, the map after it.
StoreBegin(f) ==
  /\ worker.pc = "idle" /\ ~disk[f].exists
  /\ worker' = [pc |-> "store", file |-> f, flag |-> CountDsml(TextOf[f]) > 0]
  /\ UNCHANGED <<mem, disk, client, sampled, torn, crashes>>

\* The observer no longer counts on the records of a file that loses them.
Unstable(r, f) == IF r = Idle THEN r ELSE [r EXCEPT !.stable = {p \in @ : p[1] # f}]

\* ... and notes that a reader between the id and the text of a record will find
\* another text there.
CutShort(r, f) ==
  IF r.pc = "text" /\ r.file = f /\ ~r.gone THEN [Unstable(r, f) EXCEPT !.cut = TRUE]
  ELSE Unstable(r, f)

\* A reader keeps the file it has opened when its name goes away.
Detach(r, f) ==
  IF r.pc \in {"count", "record", "text"} /\ r.file = f /\ ~r.gone
  THEN [r EXCEPT !.gone = TRUE, !.copy = disk[f]] ELSE r

StoreRename ==
  /\ worker.pc = "store"
  /\ LET f == worker.file
         map == MapOf(mem, TextOf[f])
     IN  disk' = [disk EXCEPT ![f] = [flag |-> worker.flag, count |-> Len(map), map |-> map,
                                      exists |-> TRUE]]
  /\ worker' = Idle
  /\ UNCHANGED <<mem, client, sampled, torn, crashes>>

StoreFails ==
  /\ worker.pc = "store"
  /\ worker' = Idle
  /\ UNCHANGED <<mem, disk, client, sampled, torn, crashes>>

\* kv_cache_rewrite_tool_map(): nothing to do for a text without known blocks.
RewriteBegin(f) ==
  /\ worker.pc = "idle" /\ disk[f].exists
  /\ CountDsml(TextOf[f]) > 0
  /\ worker' = [pc |-> "truncate", file |-> f]
  /\ UNCHANGED <<mem, disk, client, sampled, torn, crashes>>

RewriteTruncate ==
  /\ worker.pc = "truncate"
  /\ disk' = [disk EXCEPT ![worker.file].map = <<>>, ![worker.file].count = 0]
  /\ worker' = [worker EXCEPT !.pc = "write"]
  /\ client' = [c \in Clients |-> CutShort(client[c], worker.file)]
  /\ UNCHANGED <<mem, sampled, torn, crashes>>

\* kv_tool_map_write() walks the table once more, under the lock.
RewriteWrite ==
  /\ worker.pc = "write"
  /\ LET map == MapOf(mem, TextOf[worker.file])
     IN  worker' = IF map = <<>> THEN Idle
                   ELSE [pc |-> "flush", file |-> worker.file, rest |-> map, count |-> Len(map)]
  /\ UNCHANGED <<mem, disk, client, sampled, torn, crashes>>

\* The buffer reaches the file in pieces: the section's header with n records.
RewriteFlush(n) ==
  /\ worker.pc = "flush" /\ n \in 0..Len(worker.rest)
  /\ disk[worker.file].count = 0 \/ n > 0
  /\ disk' = [disk EXCEPT ![worker.file].map = @ \o SubSeq(worker.rest, 1, n),
                          ![worker.file].count = worker.count]
  /\ worker' = [worker EXCEPT !.rest = SubSeq(@, n + 1, Len(@))]
  /\ UNCHANGED <<mem, client, sampled, torn, crashes>>

\* The header is rewritten when everything is in the file.
RewriteHeader ==
  /\ worker.pc = "flush" /\ worker.rest = <<>>
  /\ disk' = [disk EXCEPT ![worker.file].flag = TRUE]
  /\ worker' = Idle
  /\ UNCHANGED <<mem, client, sampled, torn, crashes>>

RewriteFails ==
  /\ worker.pc \in {"truncate", "flush"}
  /\ worker' = Idle
  /\ UNCHANGED <<mem, disk, client, sampled, torn, crashes>>

\* kv_cache_evict(), or a file consumed by its load.
Unlink(f) ==
  /\ worker.pc = "idle" /\ disk[f].exists
  /\ disk' = [disk EXCEPT ![f] = NoFile]
  /\ client' = [c \in Clients |-> Detach(Unstable(client[c], f), f)]
  /\ UNCHANGED <<mem, worker, sampled, torn, crashes>>

\* kv_cache_try_load_text() restores the whole map of the file it hits, one
\* put after the other.
LoadBegin(f) ==
  /\ worker.pc = "idle" /\ disk[f].exists /\ disk[f].flag
  /\ worker' = [pc |-> "load", rest |-> disk[f].map]
  /\ UNCHANGED <<mem, disk, client, sampled, torn, crashes>>

LoadRecord ==
  /\ worker.pc = "load"
  /\ IF worker.rest = <<>> THEN worker' = Idle /\ UNCHANGED mem
     ELSE /\ mem' = Put(mem, worker.rest[1].id, worker.rest[1].block, "disk")
          /\ worker' = [worker EXCEPT !.rest = Tail(@)]
  /\ UNCHANGED <<disk, client, sampled, torn, crashes>>

-----------------------------------------------------------------------------
(* The client threads. *)

\* The records of a message's ids that are on disk; the observer removes those
\* that do not stay there.
OnDisk(d, ids) ==
  {p \in Files \X ToSet(ids) :
     LET file == d[p[1]]
     IN  file.exists /\ file.flag /\ \E k \in 1..Len(file.map) : file.map[k].id = p[2]}

\* A request arrives whose history has one message with tool calls.
Ask(c, ids) ==
  /\ client[c].pc = "idle"
  /\ \A i \in ToSet(ids) : sampled[i] # NoBlock
  /\ client' = [client EXCEPT ![c] = [pc |-> "restore", ids |-> ids, left |-> Files,
                                      stable |-> OnDisk(disk, ids)]]
  /\ UNCHANGED <<mem, disk, worker, sampled, torn, crashes>>

\* kv_cache_restore_tool_memory_for_messages() looks at the next file.
OpenFile(c, f) ==
  /\ client[c].pc = "restore" /\ f \in client[c].left
  /\ LET r == client[c]
     IN  client' = [client EXCEPT ![c] =
           IF disk[f].exists /\ disk[f].flag
           THEN [pc |-> "count", ids |-> r.ids, left |-> r.left \ {f}, stable |-> r.stable,
                 file |-> f, gone |-> FALSE, copy |-> NoFile]
           ELSE [r EXCEPT !.left = @ \ {f}]]
  /\ UNCHANGED <<mem, disk, worker, sampled, torn, crashes>>

Content(r) == IF r.gone THEN r.copy ELSE disk[r.file]

Closed(r) == [pc |-> "restore", ids |-> r.ids, left |-> r.left, stable |-> r.stable]

\* kv_tool_map_load_from_pos() reads the section's header.
ReadCount(c) ==
  /\ client[c].pc = "count"
  /\ LET r == client[c]
     IN  client' = [client EXCEPT ![c] =
           IF Content(r).count = 0 THEN Closed(r)
           ELSE [pc |-> "record", ids |-> r.ids, left |-> r.left, stable |-> r.stable, file |-> r.file,
                 gone |-> r.gone, copy |-> r.copy, count |-> Content(r).count, next |-> 1]]
  /\ UNCHANGED <<mem, disk, worker, sampled, torn, crashes>>

\* Faulty variant for the checks: the last record is not read.
AtEndEarly(r) == r.next >= r.count \/ r.next > Len(Content(r).map)

\* The loop over the records ends with the count, or the file.
AtEnd(r) == r.next > r.count \/ r.next > Len(Content(r).map)

\* One record is read in one piece and put if the message wants its id.
ReadRecord(c) ==
  /\ client[c].pc = "record" /\ ~AtEnd(client[c])
  /\ LET r == client[c]
         rec == Content(r).map[r.next]
     IN  /\ mem' = IF rec.id \in ToSet(r.ids) THEN Put(mem, rec.id, rec.block, "disk") ELSE mem
         /\ client' = [client EXCEPT ![c].next = @ + 1]
  /\ UNCHANGED <<disk, worker, sampled, torn, crashes>>

\* The stdio buffer ends inside a record: its id is read, its text comes with
\* the next read() of the file.
ReadId(c) ==
  /\ client[c].pc = "record" /\ ~AtEnd(client[c])
  /\ LET r == client[c]
     IN  client' = [client EXCEPT ![c] =
           [pc |-> "text", ids |-> r.ids, left |-> r.left, stable |-> r.stable, file |-> r.file,
            gone |-> r.gone, copy |-> r.copy, count |-> r.count, next |-> r.next,
            id |-> Content(r).map[r.next].id, cut |-> FALSE]]
  /\ UNCHANGED <<mem, disk, worker, sampled, torn, crashes>>

ReadText(c) ==
  /\ client[c].pc = "text"
  /\ LET r == client[c]
         map == Content(r).map
     IN  IF r.next > Len(map) THEN client' = [client EXCEPT ![c] = Closed(r)] /\ UNCHANGED <<mem, torn>>
         ELSE /\ mem' = IF r.id \in ToSet(r.ids) THEN Put(mem, r.id, map[r.next].block, "disk") ELSE mem
              /\ torn' = IF r.cut /\ r.id \in ToSet(r.ids) THEN torn \cup {r.id} ELSE torn
              /\ client' = [client EXCEPT ![c] =
                   [pc |-> "record", ids |-> r.ids, left |-> r.left, stable |-> r.stable, file |-> r.file,
                    gone |-> r.gone, copy |-> r.copy, count |-> r.count, next |-> r.next + 1]]
  /\ UNCHANGED <<disk, worker, sampled, crashes>>

CloseFile(c) ==
  /\ client[c].pc = "record" /\ AtEnd(client[c])
  /\ client' = [client EXCEPT ![c] = Closed(client[c])]
  /\ UNCHANGED <<mem, disk, worker, sampled, torn, crashes>>

\* tool_memory_attach_to_messages()
Attach(c) ==
  /\ client[c].pc = "restore" /\ client[c].left = {}
  /\ mem' = TouchAll(mem, client[c].ids)
  /\ client' = [client EXCEPT ![c] = Idle]
  /\ UNCHANGED <<disk, worker, sampled, torn, crashes>>

\* The process dies; only the files stay.
Crash ==
  /\ crashes < MaxCrashes
  /\ crashes' = crashes + 1
  /\ mem' = EmptyTable(mem.limit)
  /\ worker' = Idle
  /\ client' = [c \in Clients |-> Idle]
  /\ UNCHANGED <<disk, sampled, torn>>

Next ==
  \/ \E ids \in Messages, b \in Blocks : Remember(ids, b)
  \/ \E f \in Files : StoreBegin(f) \/ RewriteBegin(f) \/ Unlink(f) \/ LoadBegin(f)
  \/ StoreRename \/ StoreFails \/ RewriteTruncate \/ RewriteWrite \/ RewriteHeader \/ RewriteFails
  \/ \E n \in 0..Cardinality(Ids) : RewriteFlush(n)
  \/ LoadRecord
  \/ \E c \in Clients :
       \/ \E ids \in LongMessages : Ask(c, ids)
       \/ \E f \in Files : OpenFile(c, f)
       \/ ReadCount(c) \/ ReadRecord(c) \/ ReadId(c) \/ ReadText(c) \/ CloseFile(c) \/ Attach(c)
  \/ Crash

Spec == Init /\ [][Next]_vars

-----------------------------------------------------------------------------

\* No operation, and no interleaving of the critical sections, leaves a wrong
\* reference count, a leaked or freed block or a wrong byte counter, and the
\* table is within its bounds whenever tool_mu is free
\* (tool_memory_put_locked(), tool_memory_remove_entry_locked(),
\* tool_memory_prune_locked()).
TableConsistent == Consistent(mem) /\ Bounded(mem)

\* An id leads to the text the model sampled under it, or to nothing, unless it is
\* torn: kv_tool_map_load_from_pos() read the id of its record, then
\* kv_cache_rewrite_tool_map() cut the file short and wrote another record there,
\* whose text the reader took.
ReplayExact == \A i \in Ids \ torn : mem.blockOf[i] \in {NoBlock, sampled[i]}

\* "When the client later sends the same id back in conversation history, we
\* replay the sampled DSML verbatim" (ds4_server.c, Tool Call Text Memory): no id
\* ever leads to another text.  A torn id may.
ReplayVerbatim == \A i \in Ids : mem.blockOf[i] \in {NoBlock, sampled[i]}

\* A cache file only holds blocks of its text, each under an id that was sampled
\* with it unless the id is torn, also when a crash has cut its map short or a
\* rewrite is half done (kv_tool_map_write(), kv_cache_rewrite_tool_map()).
MapsExact ==
  \A f \in Files : \A k \in 1..Len(disk[f].map) :
    /\ disk[f].map[k].block \in ToSet(TextOf[f])
    /\ disk[f].map[k].id \notin torn => sampled[disk[f].map[k].id] = disk[f].map[k].block

\* The table never has to drop an id.
Roomy(limit) ==
  /\ limit.entries >= Cardinality(Ids)
  /\ limit.bytes >= Cardinality(Ids) * EntryBytes + Cardinality(Blocks) * BlockBytes

\* A message whose ids were on disk all the time its request was parsed, none of
\* them torn, gets its text back if the table has room for every id: no store,
\* rewrite, load or removal of other files and no other client can prevent it.
ReplayServed ==
  [][\A c \in Clients :
       (/\ Attach(c)
        /\ Roomy(mem.limit)
        /\ \A i \in ToSet(client[c].ids) :
             /\ \E f \in Files : <<f, i>> \in client[c].stable
             /\ i \notin torn /\ sampled[i] = sampled[client[c].ids[1]])
       => Attached(mem, client[c].ids) = sampled[client[c].ids[1]]]_vars
=============================================================================
