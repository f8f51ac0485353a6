---------------------------- MODULE JournalTail ----------------------------
(***************************************************************************)
(* How the attention watcher reads the end of the broker's journal         *)
(* (attention/readers.py): backwards in chunks, until a line older than    *)
(* the window it wants.                                                    *)
(*                                                                         *)
(* A line is [ts, off, len, event, of]: its time or Undated (no usable ts, *)
(* or not JSON), its offset and its length, the newline included.          *)
(***************************************************************************)
EXTENDS Integers, Sequences, FiniteSetsExt

Undated == -1

FileSize(lines) == IF lines = <<>> THEN 0 ELSE lines[Len(lines)].off + lines[Len(lines)].len

\* Where the k-th chunk from the end begins.
ChunkStart(lines, chunk, k) == Max({0, FileSize(lines) - k * chunk})

\* The lines the k-th chunk holds whole.  What it begins with is taken for the rest
\* of a line even where a line begins there, unless the file does.
Whole(lines, chunk, k) ==
    {i \in DOMAIN lines :
        /\ lines[i].off > ChunkStart(lines, chunk, k) \/ ChunkStart(lines, chunk, k) = 0
        /\ lines[i].off + lines[i].len - 1 <= ChunkStart(lines, chunk, k - 1)}

\* Mutant of ReachesCutoff: a line of the cutoff's very time ends the walk.
BugReachesCutoff(lines, cutoff, chunk, k) ==
    LET dated == {i \in Whole(lines, chunk, k) : lines[i].ts # Undated}
    IN dated # {} /\ lines[Min(dated)].ts <= cutoff
\* _chunk_reaches_cutoff: the first dated line of the chunk speaks for all before it.
ReachesCutoff(lines, cutoff, chunk, k) ==
    LET dated == {i \in Whole(lines, chunk, k) : lines[i].ts # Undated}
    IN dated # {} /\ lines[Min(dated)].ts < cutoff

\* _tail_lines_back_to: how many chunks are read, and whether the walk was capped.
ChunksRead(lines, cutoff, chunk, cap) ==
    Min({k \in 0..FileSize(lines) :
            \/ ChunkStart(lines, chunk, k) = 0
            \/ FileSize(lines) - ChunkStart(lines, chunk, k) >= cap
            \/ k > 0 /\ ReachesCutoff(lines, cutoff, chunk, k)})
TailCapped(lines, cutoff, chunk, cap) ==
    LET k == ChunksRead(lines, cutoff, chunk, cap)
    IN ChunkStart(lines, chunk, k) > 0 /\ ~ReachesCutoff(lines, cutoff, chunk, k)

\* The lines it returns, and those of them that count (_read_broker_events).
TailLines(lines, cutoff, chunk, cap) ==
    LET start == ChunkStart(lines, chunk, ChunksRead(lines, cutoff, chunk, cap))
    IN {i \in DOMAIN lines : start = 0 \/ lines[i].off > start}
BrokerEvents(lines, events, cutoff, chunk, cap) ==
    {i \in TailLines(lines, cutoff, chunk, cap) :
        lines[i].event \in events /\ lines[i].ts # Undated /\ lines[i].ts >= cutoff}

=============================================================================
