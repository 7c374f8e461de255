------------------------------ MODULE KbChunks ------------------------------
(***************************************************************************)
(* The chunker of the ingest job (kb_ingest_job.py, _chunk): sentences are *)
(* gathered up to `Target` tokens, and a chunk begins with the tail of the *)
(* one before, of at most `Overlap` tokens.  A text is the sequence of its *)
(* sentences' token counts; a chunk is the interval of sentences it joins. *)
(***************************************************************************)
EXTENDS Integers, Sequences, SequencesExt

CONSTANTS Tokens,     \* the token counts a sentence may have, all positive
          Sentences,  \* bound on the sentences of a text
          Target,     \* CHUNK_TARGET_TOKENS
          Overlap     \* CHUNK_OVERLAP_TOKENS

VARIABLES text,     \* sents
          next,     \* the sentence the loop is at
          cur,      \* the interval of sentences in cur
          out,      \* the chunks yielded
          done

vars == <<text, next, cur, out, done>>

Init == /\ text \in SeqOf(Tokens, Sentences)
        /\ next = 1 /\ cur = [from |-> 1, to |-> 0] /\ out = <<>> /\ done = FALSE

\* The tokens of the first n sentences, and cur_tok, the tokens of an interval of them.
Upto[n \in 0 .. Len(text)] == IF n = 0 THEN 0 ELSE Upto[n - 1] + text[n]
Weight(c) == Upto[c.to] - Upto[c.from - 1]
IsEmpty(c) == c.to < c.from

\* Where the tail begins: the loop over reversed(cur) breaks at the first sentence that
\* would take it over the overlap.
TailOf(c) == CHOOSE k \in c.from .. c.to + 1 :
               /\ Weight([from |-> k, to |-> c.to]) <= Overlap
               /\ k > c.from => Weight([from |-> k - 1, to |-> c.to]) > Overlap

\* Mutant of Add: the sentence that does not fit is left for nobody.
LossyAdd == /\ ~done /\ next <= Len(text)
            /\ IF ~IsEmpty(cur) /\ Weight(cur) + text[next] > Target
               THEN /\ out' = Append(out, cur)
                    /\ cur' = [from |-> next + 1, to |-> next]
               ELSE /\ cur' = [cur EXCEPT !.to = next]
                    /\ UNCHANGED out
            /\ next' = next + 1
            /\ UNCHANGED <<text, done>>

\* One turn of the loop.
Add == /\ ~done /\ next <= Len(text)
       /\ IF ~IsEmpty(cur) /\ Weight(cur) + text[next] > Target
          THEN /\ out' = Append(out, cur)
               /\ cur' = [from |-> TailOf(cur), to |-> next]
          ELSE /\ cur' = [cur EXCEPT !.to = next]
               /\ UNCHANGED out
       /\ next' = next + 1
       /\ UNCHANGED <<text, done>>

Flush == /\ ~done /\ next > Len(text)
         /\ out' = IF IsEmpty(cur) THEN out ELSE Append(out, cur)
         /\ done' = TRUE
         /\ UNCHANGED <<text, next, cur>>

Next == Add \/ Flush

Spec == Init /\ [][Next]_vars

----------------------------------------------------------------------------
\* Every sentence is in a chunk, and every chunk brings one that no earlier chunk had:
\* what is said across a boundary is found, and no chunk is a copy.
ChunksCoverText ==
  done => /\ \A i \in DOMAIN text : \E k \in DOMAIN out : out[k].from <= i /\ i <= out[k].to
          /\ \A k \in DOMAIN out : k > 1 => /\ out[k - 1].to < out[k].to
                                            /\ out[k].from <= out[k - 1].to + 1

\* "comfortably under 512": the target is exceeded only by a chunk's last sentence, and
\* then by no more than the overlap and that sentence.
ChunksStaySmall ==
  \A k \in DOMAIN out :
    Weight(out[k]) <= Target \/ Weight([out[k] EXCEPT !.to = @ - 1]) <= Overlap

\* The chunks of a document are fit for the search: complete, no copies, and small.
ChunksAreSound == ChunksCoverText /\ ChunksStaySmall
=============================================================================
