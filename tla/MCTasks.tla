------------------------------ MODULE MCTasks ------------------------------
(***************************************************************************)
(* Small instances of Tasks for TLC.                                       *)
(***************************************************************************)
EXTENDS Tasks

CONSTANTS w1, o1, o2

Shape(word_bits, chunk_words, owners, budget) ==
    [word_bits |-> word_bits, chunk_words |-> chunk_words, owners |-> owners, budget |-> budget]

\* Two slots share a word, two words a chunk, two chunks a bit of the top word; with the
\* last the set moves between two owners.
SharedWord == Shape(2, 1, {o1}, 2)
SharedChunk == Shape(1, 2, {o1}, 1)
Moved == Shape(1, 1, {o1, o2}, 1)

AllShapes == {SharedWord, SharedChunk, Moved}
LiveShapes == {SharedChunk}
=============================================================================
